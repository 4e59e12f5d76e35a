------------------------------- MODULE Syntax -------------------------------
(***************************************************************************)
(* One line of source on its way through the program: split into name and  *)
(* body (parser_parse_program), parsed, lowered, and, as the value of the  *)
(* program, printed.  What is printed can be given back as a line.         *)
(***************************************************************************)
EXTENDS ValueNodes, Trees, Pieces

CONSTANTS
    Lines,     \* lines to read: [text, meant], meant a tree, NoTree or NotStated
    Values,    \* values to print
    IsMathBinder(_),   \* a trimmed line is one of sigma or an integral
    ParseTree(_),      \* the tree of a text, NoTree if it has none
    LowerTree(_),      \* the term of a tree
    Printed(_)         \* the text of a value

ASSUME LinesAssumption ==
    \A l \in Lines : l.text \in Seq({l.text[i] : i \in DOMAIN l.text})

VARIABLES
    phase,     \* "line", "text", "tree", "value"; or "skipped", "rejected"
    line,      \* the line as it stands in the source
    meant,     \* the tree it is meant to have, NoTree if it is to be refused
    name,      \* the name it defines, "" for an expression
    call,      \* the function a compound assignment applies, "" for =
    text,      \* the body, or the expression
    tree,      \* its syntax tree
    value,     \* its de Bruijn term
    shown      \* the value that was printed to give the line

vars == <<phase, line, meant, name, call, text, tree, value, shown>>

NotStated == [kind |-> "not stated"]

-----------------------------------------------------------------------------
(* find_assignment_split and the scanner of the preprocessor.              *)
IsSpace(p) == p \in Spaces
TrimLeft(s) == SubSeq(s, RunEnd({i \in DOMAIN s : IsSpace(s[i])}, 1) + 1, Len(s))
Trim(s) == SubSeq(TrimLeft(s), 1,
                  Max({0} \cup {i \in 1..Len(TrimLeft(s)) : ~IsSpace(TrimLeft(s)[i])}))

IsIdentSpan(s) == s # <<>> /\ IsStart(s[1]) /\ \A i \in 1..Len(s) : IsPart(s[i])
IsCommentLine(s) == s # <<>> /\ IsComment(s, 1)

CompoundCalls ==
    [op \in {"+", "-", "*", "/", "%"} |->
        CASE op = "+" -> "ADD" [] op = "-" -> "SUB" [] op = "*" -> "MUL"
          [] op = "/" -> "DIV" [] op = "%" -> "MOD"]

(* The first = that is not inside <=>, or 0.                               *)
AssignmentSplit(s) ==
    LET eqs == {i \in 1..Len(s) : /\ s[i] = "="
                                  /\ ~(i > 1 /\ s[i - 1] = "<" /\ i < Len(s) /\ s[i + 1] = ">")}
        eq   == IF eqs = {} THEN 0 ELSE Min(eqs)
        op   == IF eq > 1 /\ s[eq - 1] \in DOMAIN CompoundCalls THEN s[eq - 1] ELSE ""
        lhs  == Trim(SubSeq(s, 1, eq - (IF op = "" THEN 1 ELSE 2)))
    IN  [eq   |-> eq,
         call |-> IF op = "" THEN "" ELSE CompoundCalls[op],
         name |-> IF eq > 0 /\ IsIdentSpan(lhs) THEN Spelled(lhs) ELSE ""]

(* Mutant of PreDefScan: any = will do.                                    *)
PreDefAnyEqual(s) ==
    LET body == TrimLeft(s)
        eqs  == {i \in 1..Len(body) : body[i] = "="}
        lhs  == Trim(SubSeq(body, 1, Min(eqs) - 1))
    IN  IF eqs # {} /\ IsIdentSpan(lhs) THEN Spelled(lhs) ELSE ""

(* pp_parse_definition_name, on the line as it stands; "" if it defines    *)
(* nothing.                                                                *)
PreDefScan(s) ==
    LET body == TrimLeft(s)
        inEquiv(i) == i > 1 /\ body[i - 1] = "<" /\ i < Len(body) /\ body[i + 1] = ">"
        eqs  == {i \in 1..Len(body) : body[i] = "=" /\ ~inEquiv(i)}
        stop == IF Min(eqs) > 1 /\ body[Min(eqs) - 1] \in DOMAIN CompoundCalls
                THEN Min(eqs) - 2 ELSE Min(eqs) - 1
        lhs  == Trim(SubSeq(body, 1, stop))
    IN  IF ~IsCommentLine(body) /\ eqs # {} /\ IsIdentSpan(lhs)
        THEN Spelled(lhs) ELSE ""

-----------------------------------------------------------------------------
Init ==
    /\ \/ \E l \in Lines : phase = "line" /\ line = l.text /\ meant = l.meant /\ value = Null
       \/ \E v \in Values : phase = "value" /\ line = <<>> /\ meant = NotStated /\ value = v
    /\ name = "" /\ call = "" /\ text = <<>>
    /\ tree = NoTree
    /\ shown = Null

(* parser_parse_program, the part for one line.                            *)
Trimmed == Trim(line)
Split   == AssignmentSplit(Trimmed)
Body    == Trim(SubSeq(Trimmed, Split.eq + 1, Len(Trimmed)))

Reading == phase = "line" /\ Trimmed # <<>> /\ ~IsCommentLine(Trimmed)
Reject  == phase' = "rejected" /\ UNCHANGED <<line, meant, call, text, tree, value, shown>>

SkipLine ==
    /\ phase = "line"
    /\ Trimmed = <<>> \/ IsCommentLine(Trimmed)
    /\ phase' = "skipped"
    /\ UNCHANGED <<line, meant, name, call, text, tree, value, shown>>

RejectAssignment ==
    /\ Reading
    /\ Split.eq # 0 /\ Split.name = "" /\ ~IsMathBinder(Trimmed)
    /\ Reject
    /\ UNCHANGED name

RejectNoBody ==
    /\ Reading
    /\ Split.name # "" /\ Body = <<>>
    /\ Reject
    /\ name' = Split.name

(* Mutant of TakeDefinition: a definition without a body.                  *)
TakeDefinitionBare ==
    /\ Reading
    /\ Split.name # ""
    /\ phase' = "text"
    /\ name' = Split.name
    /\ call' = Split.call
    /\ text' = Body
    /\ UNCHANGED <<line, meant, tree, value, shown>>

TakeDefinition ==
    /\ Reading
    /\ Split.name # "" /\ Body # <<>>
    /\ phase' = "text"
    /\ name' = Split.name
    /\ call' = Split.call
    /\ text' = Body
    /\ UNCHANGED <<line, meant, tree, value, shown>>

TakeExpression ==
    /\ Reading
    /\ Split.eq = 0 \/ (Split.name = "" /\ IsMathBinder(Trimmed))
    /\ phase' = "text"
    /\ text' = Trimmed
    /\ UNCHANGED <<line, meant, name, call, tree, value, shown>>

(* parser_parse_expr, and for x op= e the call with x as first argument.   *)
Parse ==
    /\ phase = "text"
    /\ ParseTree(text) # NoTree
    /\ tree' = IF call = "" THEN ParseTree(text) ELSE NApp2(NVar(call), NVar(name), ParseTree(text))
    /\ phase' = "tree"
    /\ UNCHANGED <<line, meant, name, call, text, value, shown>>

RejectText ==
    /\ phase = "text"
    /\ ParseTree(text) = NoTree
    /\ Reject
    /\ UNCHANGED name

(* value_from_ast *)
Lower ==
    /\ phase = "tree"
    /\ value' = LowerTree(tree)
    /\ phase' = "value"
    /\ UNCHANGED <<line, meant, name, call, text, tree, shown>>

(* value_to_string, and the line it makes given to the program.            *)
Show ==
    /\ phase = "value"
    /\ name = ""
    /\ shown = Null
    /\ shown' = value
    /\ line' = Printed(value)
    /\ meant' = NotStated
    /\ phase' = "line"
    /\ UNCHANGED <<name, call, text, tree, value>>

Next ==
    \/ SkipLine \/ RejectAssignment \/ RejectNoBody \/ TakeDefinition \/ TakeExpression
    \/ Parse \/ RejectText \/ Lower \/ Show

Spec == Init /\ [][Next]_vars

-----------------------------------------------------------------------------
(* What is parsed is a text that there is, what comes of it is a tree, and *)
(* only a definition is a compound one (parser_parse_program).             *)
TypeOK ==
    /\ phase \in {"line", "text", "tree", "value", "skipped", "rejected"}
    /\ phase \in {"text", "tree"} => text # <<>>
    /\ phase = "tree" => tree # NoTree
    /\ call # "" => name # ""

(* The text is read as the tree it is meant to be, by the precedence and   *)
(* grouping of the operators and the scope of the binders, or is refused   *)
(* where it is meant to be (lexer.c, parser.c).                            *)
ReadsAsMeant ==
    meant # NotStated =>
        /\ phase \in {"tree", "value"} => tree = meant
        /\ phase \in {"skipped", "rejected"} => meant = NoTree

(* The scanner that looks for names defined twice and the parser see the   *)
(* same definitions (pp_parse_definition_name, find_assignment_split).     *)
ScannersAgree == phase # "line" => name = PreDefScan(line)
=============================================================================
