------------------------------- MODULE Lexer -------------------------------
(***************************************************************************)
(* lexer.c: the tokens of a text.                                          *)
(***************************************************************************)
EXTENDS NamedTerms, Pieces, TLC
LOCAL INSTANCE SequencesExt

(* lexer_next: the tokens that are not words, with all their spellings.    *)
Spellings ==
    [lambda  |-> {<<"\\">>, <<"&lambda">>},  sigma    |-> {<<"&sigma">>},
     forall  |-> {<<"&forall">>},            integral |-> {<<"&integral">>},
     exists  |-> {<<"&exists">>, <<"&Exists">>, <<"&turnede">>},
     sqrt    |-> {<<"&sqrt">>},              ln       |-> {<<"&ln">>},
     iff     |-> {<<"<", "-", ">">>, <<"&iff">>},
     equiv   |-> {<<"<", "=", ">">>, <<"&equiv">>, <<"&equiv4">>},
     implies |-> {<<"-", ">">>, <<"&implies">>},
     and     |-> {<<"^">>, <<"&and">>},      or       |-> {<<"&or">>},
     not     |-> {<<"~">>, <<"&not">>, <<"&notleft">>},
     in      |-> {<<"&in">>},                contains |-> {<<"&ni">>, <<"&nismall">>},
     power   |-> {<<"*", "*">>},             star     |-> {<<"*">>},
     plus    |-> {<<"+">>},                  minus    |-> {<<"-">>},
     slash   |-> {<<"/">>},                  percent  |-> {<<"%">>},
     dot     |-> {<<".">>},                  colon    |-> {<<":">>},
     lparen  |-> {<<"(">>},                  rparen   |-> {<<")">>},
     comma   |-> {<<",">>},                  equal    |-> {<<"=">>}]

(* The words that are not names.                                           *)
Keywords ==
    [or |-> {"v"}, sqrt |-> {"sqrt"}, ln |-> {"ln"}, to |-> {"to", "TO"},
     sigma    |-> {"Sigma", "sigma", "SIGMA"},
     integral |-> {"Integral", "integral", "INTEGRAL"},
     limit    |-> {"lim", "Limit", "LIMIT", "limit"},
     forall   |-> {"forall", "FORALL"},
     exists   |-> {"exists", "EXISTS"},
     in       |-> {"in", "IN", "memberof", "memberOf", "MEMBEROF", "elementof",
                   "elementOf", "ELEMENTOF", "elemof", "elemOf", "ELEMOF"},
     contains |-> {"contains", "CONTAINS", "hasmember", "hasMember", "HASMEMBER"}]

(* exp(1.0) is kept apart from the other numbers; which ratio stands for   *)
(* the double makes no difference here.                                    *)
Euler == Ratio(1, 2718, 1000)
NumberWords ==
    [x \in {"inf", "INF", "infinity", "INFINITY", "&infinity"} |-> Infinity]
    @@ [x \in {"euler", "EULER", "&e"} |-> Euler]

Token(kind)    == [kind |-> kind]
NameToken(x)   == [kind |-> "ident", text |-> x]
NumberToken(x) == [kind |-> "number", value |-> x]

-----------------------------------------------------------------------------
AllSpellings == UNION {{k} \X Spellings[k] : k \in DOMAIN Spellings}
Matching(text, at) ==
    LET rest == SubSeq(text, at, Len(text))
    IN  {m \in AllSpellings : IsPrefix(m[2], rest)}
Longest(ms) == CHOOSE m \in ms : \A n \in ms : Len(n[2]) <= Len(m[2])

WordToken(x) ==
    IF x \in DOMAIN NumberWords THEN NumberToken(NumberWords[x])
    ELSE LET kinds == {k \in DOMAIN Keywords : x \in Keywords[k]}
         IN  IF kinds = {} THEN NameToken(x) ELSE Token(CHOOSE k \in kinds : TRUE)

(* strtod: digits, and a point with or without digits after it.  Exponents *)
(* and hexadecimals are left out: no word e2 or x1 follows a digit.        *)
NumberAt(text, at) ==
    LET n == Len(text) - at
        whole == Numeral[text[at]].n
        point == n >= 1 /\ text[at + 1] = "."
        part  == n >= 2 /\ point /\ IsDigits(text[at + 2])
    IN  IF part
        THEN LET f == Numeral[text[at + 2]]
             IN  [token |-> NumberToken(Ratio(1, whole * f.scale + f.n, f.scale)), at |-> at + 3]
        ELSE [token |-> NumberToken(Int2Num(whole)), at |-> at + IF point THEN 2 ELSE 1]

(* One token at "at", and the place after it.                              *)
TokenAt(text, at) ==
    LET matching == Matching(text, at)
        end      == RunEnd({i \in DOMAIN text : IsPart(text[i])}, at)
    IN  CASE matching # {} -> [token |-> Token(Longest(matching)[1]),
                               at |-> at + Len(Longest(matching)[2])]
          [] matching = {} /\ text[at] \in {"&infinity", "&e"} ->
                              [token |-> WordToken(text[at]), at |-> at + 1]
          [] matching = {} /\ IsDigits(text[at]) -> NumberAt(text, at)
          [] matching = {} /\ IsStart(text[at]) /\ text[at] \notin {"&infinity", "&e"} ->
                              [token |-> WordToken(Spelled(SubSeq(text, at, end))), at |-> end + 1]
          [] OTHER -> [token |-> Token("invalid"), at |-> at + 1]

RECURSIVE TokensFrom(_, _)
TokensFrom(text, at) ==
    IF at > Len(text) THEN <<Token("eof")>>
    ELSE IF text[at] \in Spaces THEN TokensFrom(text, at + 1)
    ELSE IF IsComment(text, at)
    THEN TokensFrom(text, RunEnd({i \in DOMAIN text : text[i] # "\n"}, at) + 1)
    ELSE LET next == TokenAt(text, at)
         IN  <<next.token>> \o TokensFrom(text, next.at)

(* The tokens lexer_init and lexer_next yield one after the other.         *)
Tokens(text) == TokensFrom(text, 1)
=============================================================================
