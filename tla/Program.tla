------------------------------ MODULE Program ------------------------------
(***************************************************************************)
(* From flat source to term: ls_eval_string (ls.c) puts the prelude and    *)
(* the argument builtins before the preprocessed source and looks for      *)
(* names defined twice, parser_parse_program (parser.c) collects the       *)
(* definitions and the one expression, and value_from_program (value.c)    *)
(* lowers them to de Bruijn terms, definitions expanded in place.          *)
(*                                                                         *)
(* A line is what the two line scanners make of it, its expression the     *)
(* tree the expression parser builds (named terms).  How one tree is       *)
(* lowered is in module Lowering.                                          *)
(***************************************************************************)
EXTENDS Integers, Sequences, ValueNodes, Trees, NameForms

CONSTANTS
    Sources,       \* preprocessed sources: sequences of lines
    Calls,         \* source_name and the script arguments: [name, args]
    ArgNames,      \* the names of the arguments: ARG1, ARG2, ...
    Hex,           \* texts that are no identifiers: text |-> hex digits of its bytes
    Reserved,      \* words the lexer does not take for names, and no term by themselves
    LowerTree(_, _),   \* the value of a tree, given the definitions lowered so far
    FreeSymbols(_)     \* the free symbols of a value, from left to right

VARIABLES
    options,   \* use_prelude, source_name and the script arguments
    source,    \* the preprocessed source
    phase,     \* "scan", "parse", "lower", "lowered" or "failed"
    at,        \* the next line to parse, or the next definition to lower
    defs,      \* Program.defs: [name, body] in source order
    expr,      \* Program.expr
    values,    \* DefValue list: [name, value], newest last
    result,    \* the lowered expression
    error      \* what failed, on which line of the source, about which name

vars == <<options, source, phase, at, defs, expr, values, result, error>>

-----------------------------------------------------------------------------
(* Lines.                                                                  *)
Line(kind, name, body) == [kind |-> kind, name |-> name, body |-> body]
BlankLine   == Line("blank", "", NoTree)
DefLine(x, e)  == Line("def", x, e)
ExprLine(e)    == Line("expr", "", e)
(* The function a compound assignment applies.                             *)
CompoundOp == [add |-> "ADD", sub |-> "SUB", mul |-> "MUL", div |-> "DIV", mod |-> "MOD"]
IsDef(l) == l.name # ""

V(x) == NVar(x)
Fun2(x, y, b) == NLam(x, NLam(y, b))

(* LS_PRELUDE.                                                             *)
Prelude == <<
    DefLine("I", NLam("x", V("x"))),
    DefLine("K", Fun2("x", "y", V("x"))),
    DefLine("S", Fun2("f", "g", NLam("x", NApp2(V("f"), V("x"), NApp(V("g"), V("x")))))),
    DefLine("TRUE", Fun2("t", "f", V("t"))),
    DefLine("FALSE", Fun2("t", "f", V("f"))),
    DefLine("AND", Fun2("p", "q", NApp2(V("p"), V("q"), V("FALSE")))),
    DefLine("OR", Fun2("p", "q", NApp2(V("p"), V("TRUE"), V("q")))),
    DefLine("NOT", NLam("p", NApp2(V("p"), V("FALSE"), V("TRUE")))),
    DefLine("IMP", Fun2("p", "q", NApp2(V("OR"), NApp(V("NOT"), V("p")), V("q")))),
    DefLine("IFF", Fun2("p", "q", NApp2(V("AND"), NApp2(V("IMP"), V("p"), V("q")),
                                                  NApp2(V("IMP"), V("q"), V("p"))))) >>

(* buf_append_arg_builtins.                                                *)
Applied(f, n, x) ==
    LET times[k \in Nat] == IF k = 0 THEN x ELSE NApp(f, times[k - 1])
    IN  times[n]
ListOf(xs) ==
    LET from[k \in Nat] == IF k > Len(xs) THEN V("NIL")
                           ELSE NApp2(V("CONS"), V(xs[k]), from[k + 1])
    IN  from[1]

(* ls_symbol_from_text, and the line that makes a text a symbol.           *)
SymbolFromText(text) ==
    IF text \notin DOMAIN Hex THEN text
    ELSE IF text = "" THEN "ARGVAL_EMPTY" ELSE "ARGVAL_" \o Spelled(Hex[text])
SymbolDef(x, text) ==
    IF SymbolFromText(text) \in Reserved THEN Line("bad", x, NoTree)
    ELSE DefLine(x, V(SymbolFromText(text)))

(* Mutant of ArgName: the arguments are numbered from the last.            *)
ArgNameFromLast(i, args) == ArgNames[Len(args) + 1 - i]

ArgName(i, args) == ArgNames[i]

FirstBuiltins(name, args) ==
    <<BlankLine, BlankLine,
      DefLine("NIL", Fun2("c", "n", V("n"))),
      DefLine("CONS", Fun2("h", "t", Fun2("c", "n", NApp2(V("c"), V("h"), V("t"))))),
      DefLine("BOOLS", NApp2(V("CONS"), Fun2("t", "f", V("t")),
                             NApp2(V("CONS"), Fun2("t", "f", V("f")), V("NIL")))),
      SymbolDef("ARG0", name),
      DefLine("ARGC", Fun2("f", "x", Applied(V("f"), Len(args), V("x"))))>>
ArgLines(args)    == [i \in 1..Len(args) |-> SymbolDef(ArgName(i, args), args[i])]
LastBuiltins(args) == <<DefLine("ARGS", ListOf(SubSeq(ArgNames, 1, Len(args)))), BlankLine>>
ArgBuiltins(name, args) == FirstBuiltins(name, args) \o ArgLines(args) \o LastBuiltins(args)

ArgBuiltinNames == {"NIL", "CONS", "BOOLS", "ARG0", "ARGC", "ARGS"}
Builtins == {Prelude[n].name : n \in 1..Len(Prelude)} \cup ArgBuiltinNames

LineKinds == {"blank", "def", "expr", "bad"} \cup DOMAIN CompoundOp
IsLine(l) ==
    /\ l.kind \in LineKinds
    /\ l.kind \in {"def"} \cup DOMAIN CompoundOp => l.name # ""
    /\ l.kind = "expr" => l.body # NoTree

ASSUME SourcesAssumption ==
    \A s \in Sources : /\ s \in Seq({s[n] : n \in DOMAIN s})
                       /\ \A n \in DOMAIN s : IsLine(s[n])
ASSUME ArgsAssumption ==
    /\ \A c \in Calls : c.args \in Seq(STRING) /\ Len(c.args) <= Len(ArgNames)
    /\ ArgNames \in Seq(STRING \ ({""} \cup Builtins))
    /\ \A i, j \in 1..Len(ArgNames) : ArgNames[i] = ArgNames[j] => i = j
ASSUME ReservedAssumption ==
    \A t \in DOMAIN Hex : {t, SymbolFromText(t)} \cap Reserved = {}

Options == {[prelude |-> p, name |-> c.name, args |-> c.args] : p \in BOOLEAN, c \in Calls}

PreludeUsed == IF options.prelude THEN Prelude ELSE <<>>
Injected == PreludeUsed \o ArgBuiltins(options.name, options.args)
Merged   == Injected \o source

(* Mutant of Rebase: counts from the line after.                           *)
RebaseLate(n) == IF n > Len(Injected) THEN n - Len(Injected) + 1 ELSE n

(* Mutant of Rebase: an error in the builtins is moved as well.            *)
RebaseAll(n) == n - Len(Injected)

(* rebase_parse_error_lines.                                               *)
Rebase(n) == IF n > Len(Injected) THEN n - Len(Injected) ELSE n

Error(kind, line, name) == [kind |-> kind, line |-> line, name |-> name]
NoError == Error("none", 0, "")

Fail(e) ==
    /\ phase' = "failed"
    /\ error' = e
    /\ UNCHANGED <<options, source, at, defs, expr, values, result>>

-----------------------------------------------------------------------------
Init ==
    /\ options \in Options
    /\ source \in Sources
    /\ phase = "scan"
    /\ at = 1
    /\ defs = <<>>
    /\ expr = NoTree
    /\ values = <<>>
    /\ result = Null
    /\ error = NoError

(* scan_duplicate_definitions_in_source, over everything merged.           *)
Repeats(n) ==
    LET lines == Merged
    IN  \E m \in 1..(n - 1) : IsDef(lines[m]) /\ lines[m].name = lines[n].name
Duplicates == LET lines == Merged IN {n \in 1..Len(lines) : IsDef(lines[n]) /\ Repeats(n)}

Scan ==
    /\ phase = "scan"
    /\ Duplicates = {}
    /\ phase' = "parse"
    /\ UNCHANGED <<options, source, at, defs, expr, values, result, error>>

RejectDuplicate ==
    /\ phase = "scan"
    /\ \E n \in Duplicates :
         /\ \A m \in Duplicates : n <= m
         /\ Fail(Error("duplicate", Rebase(n), Merged[n].name))

-----------------------------------------------------------------------------
(* parser_parse_program, a line at a time.                                 *)
Here == Merged[at]
Parsing(kind) == phase = "parse" /\ at <= Len(Merged) /\ Here.kind = kind

ParseBlank ==
    /\ Parsing("blank")
    /\ at' = at + 1
    /\ UNCHANGED <<options, source, phase, defs, expr, values, result, error>>

AddDefinition(body) ==
    /\ defs' = Append(defs, [name |-> Here.name, body |-> body])
    /\ at' = at + 1
    /\ UNCHANGED <<options, source, phase, expr, values, result, error>>

ParseDefinition ==
    /\ Parsing("def")
    /\ AddDefinition(Here.body)

(* x += e is x = ADD x e.                                                  *)
ParseCompound ==
    \E op \in DOMAIN CompoundOp :
        /\ Parsing(op)
        /\ AddDefinition(NApp2(V(CompoundOp[op]), V(Here.name), Here.body))

(* The one expression, wherever among the definitions it stands.           *)
ParseExpression ==
    /\ Parsing("expr")
    /\ expr = NoTree
    /\ expr' = Here.body
    /\ at' = at + 1
    /\ UNCHANGED <<options, source, phase, defs, values, result, error>>

RejectSecondExpression ==
    /\ Parsing("expr")
    /\ expr # NoTree
    /\ Fail(Error("multiple expressions", Rebase(at), ""))

RejectSyntax ==
    /\ Parsing("bad")
    /\ Fail(Error("syntax", Rebase(at), ""))

ParseEnd ==
    /\ phase = "parse"
    /\ at > Len(Merged)
    /\ expr # NoTree
    /\ phase' = "lower"
    /\ at' = 1
    /\ UNCHANGED <<options, source, defs, expr, values, result, error>>

RejectNoExpression ==
    /\ phase = "parse"
    /\ at > Len(Merged)
    /\ expr = NoTree
    /\ Fail(Error("no expression", 0, ""))

-----------------------------------------------------------------------------
(* value_from_program.                                                     *)
LowerDefinition ==
    /\ phase = "lower"
    /\ at <= Len(defs)
    /\ values' = Append(values, [name  |-> defs[at].name,
                                 value |-> LowerTree(defs[at].body, values)])
    /\ at' = at + 1
    /\ UNCHANGED <<options, source, phase, defs, expr, result, error>>

(* find_unresolved_def_ref: the free symbols of a lowered term that are    *)
(* names the program defines.                                              *)
Defined(x) == \E i \in 1..Len(defs) : defs[i].name = x
Unresolved(v) == SelectSeq(FreeSymbols(v), Defined)

LowerExpression ==
    /\ phase = "lower"
    /\ at > Len(defs)
    /\ Unresolved(LowerTree(expr, values)) = <<>>
    /\ result' = LowerTree(expr, values)
    /\ phase' = "lowered"
    /\ UNCHANGED <<options, source, at, defs, expr, values, error>>

RefuseForward ==
    /\ phase = "lower"
    /\ at > Len(defs)
    /\ Unresolved(LowerTree(expr, values)) # <<>>
    /\ Fail(Error("forward", 0, Unresolved(LowerTree(expr, values))[1]))

(* What a tree that is a name is lowered to (lower_name_reference), unless *)
(* the name is a subscript.                                                *)
NameRule(x, vals) ==
    /\ Lowered(x, vals) # {} => LowerTree(V(x), vals) = vals[Latest(Lowered(x, vals))].value
    /\ Lowered(x, vals) = {} /\ Subscript(x).index = <<>> => LowerTree(V(x), vals) = FreeVar(x)

Next ==
    \/ Scan \/ RejectDuplicate
    \/ ParseBlank \/ ParseDefinition \/ ParseCompound \/ ParseExpression
    \/ RejectSecondExpression \/ RejectSyntax \/ ParseEnd \/ RejectNoExpression
    \/ LowerDefinition \/ LowerExpression \/ RefuseForward

Spec == Init /\ [][Next]_vars

-----------------------------------------------------------------------------
(* The line counter stays in the merged text, the one value_from_program   *)
(* goes by in the definitions; the definitions lowered are the first ones, *)
(* under their own names; and an error is reported on a line that is.      *)
TypeOK ==
    /\ options \in Options
    /\ source \in Sources
    /\ phase \in {"scan", "parse", "lower", "lowered", "failed"}
    /\ at \in 1..Len(Merged) + 1
    /\ Len(values) <= Len(defs)
    /\ \A i \in 1..Len(values) : values[i].name = defs[i].name
    /\ error.line \in 0..Len(Merged)
    /\ error = NoError <=> phase # "failed"

(* The lines that cannot be parsed, and the words that are no symbols.     *)
WrongLine(n) ==
    \/ source[n].kind = "bad"
    \/ source[n].kind = "expr" /\ \E m \in 1..(n - 1) : source[m].kind = "expr"

Given      == <<options.name>> \o options.args
GivenNames == <<"ARG0">> \o ArgNames
Words      == {n \in 1..Len(Given) : Given[n] \in Reserved}

(* A rejected line is a line of the source the user sees expanded, not of  *)
(* the text with the prelude before it, and it is the first that is wrong. *)
(* Only when an argument, or the name of the source, is a word of the      *)
(* language, which no source can be blamed for, is it the line of the      *)
(* merged text that takes it in.                                           *)
RejectedLineIsTheFirstWrong ==
    /\ error.kind = "duplicate" =>
          /\ IsDef(source[error.line]) /\ source[error.line].name = error.name
          /\ \A n \in 1..(error.line - 1) : ~Repeats(Len(Injected) + n)
    /\ error.kind \in {"multiple expressions", "syntax"} =>
          IF Words = {}
          THEN WrongLine(error.line) /\ \A n \in 1..(error.line - 1) : ~WrongLine(n)
          ELSE Merged[error.line].name = GivenNames[Earliest(Words)]

(* include/ls.h: "each argument is currently injected as a symbolic free   *)
(* variable".  It is parsed like any other line: ARG1 is the symbol of the *)
(* first argument unless that names a definition of the prelude or one     *)
(* that stands above, or is a subscript, as the encoding of "1" is - and   *)
(* nothing below it, of the user's program or of the later arguments,      *)
(* changes what it is.                                                     *)
ArgsAreSymbolsUnlessDefined ==
    \A n \in 1..Len(options.args) :
        LET arg   == SymbolFromText(options.args[n])
            place == Lowered(ArgNames[n], values)
            above == SubSeq(values, 1, Latest(place) - 1)
            value == values[Latest(place)].value
        IN  place # {} =>
              /\ Lowered(arg, above) # {} => value = above[Latest(Lowered(arg, above))].value
              /\ Lowered(arg, above) = {} /\ Subscript(arg).index = <<>> => value = FreeVar(arg)
              /\ Lowered(arg, above) = {} /\ Subscript(arg).index # <<>>
                    => value = LowerTree(V(arg), above)

(* README.md: subscript forms "lower into symbolic constructors unless you *)
(* define additional semantics around them" - a program that defines sub   *)
(* before it uses a subscript is not refused for referring forward.        *)
SubscriptsTakeDefinitions ==
    error.kind = "forward" =>
        \A i \in 1..Len(values) : values[i].name # error.name

(* README.md, Example 4 prints True.                                       *)
WorkedExampleIsAccepted == phase # "failed"
=============================================================================
