-------------------------- MODULE Program_proofs --------------------------
(***************************************************************************)
(* The line that a program is rejected for is the first that is wrong, and *)
(* a program that is lowered has been read whole, for every source, every  *)
(* list of arguments, and however trees are lowered.                       *)
(***************************************************************************)
EXTENDS Program, Lists_proofs, TLAPS

-----------------------------------------------------------------------------
(* The lines put before the source.                                        *)
PreludeLen == Len(PreludeUsed)
Argc == Len(options.args)

LEMMA OptionFacts ==
    ASSUME options \in Options
    PROVE  /\ options.args \in Seq(STRING) /\ Argc \in Nat /\ Argc <= Len(ArgNames)
           /\ Len(ArgNames) \in Nat
  <1>1. PICK c \in Calls : options.args = c.args
    BY DEF Options
  <1>2. c.args \in Seq(STRING) /\ Len(c.args) <= Len(ArgNames)
    BY ArgsAssumption
  <1>3. Len(ArgNames) \in Nat
    BY ArgsAssumption, LenProperties
  <1>4. Len(c.args) \in Nat
    BY <1>2
  <1> QED
    BY <1>1, <1>2, <1>3, <1>4 DEF Argc

LEMMA PreludeList == IsList(Prelude) /\ Len(Prelude) = 10
  BY DEF Prelude, IsList

LEMMA Pieces ==
    ASSUME options \in Options
    PROVE  /\ IsList(PreludeUsed) /\ PreludeLen \in {0, 10}
           /\ \A n \in 1..PreludeLen : PreludeUsed[n] = Prelude[n]
           /\ IsList(FirstBuiltins(options.name, options.args))
           /\ Len(FirstBuiltins(options.name, options.args)) = 7
           /\ IsList(ArgLines(options.args)) /\ Len(ArgLines(options.args)) = Argc
           /\ IsList(LastBuiltins(options.args)) /\ Len(LastBuiltins(options.args)) = 2
  <1>1. IsList(PreludeUsed) /\ PreludeLen \in {0, 10} /\ \A n \in 1..PreludeLen : PreludeUsed[n] = Prelude[n]
    <2>1. CASE options.prelude
      BY <2>1, PreludeList DEF PreludeUsed, PreludeLen
    <2>2. CASE ~options.prelude
      BY <2>2 DEF PreludeUsed, PreludeLen, IsList
    <2> QED
      BY <2>1, <2>2
  <1>2. /\ IsList(FirstBuiltins(options.name, options.args))
        /\ Len(FirstBuiltins(options.name, options.args)) = 7
    BY DEF FirstBuiltins, IsList
  <1>3. IsList(ArgLines(options.args)) /\ Len(ArgLines(options.args)) = Argc
    BY OptionFacts DEF ArgLines, Argc, IsList
  <1>4. IsList(LastBuiltins(options.args)) /\ Len(LastBuiltins(options.args)) = 2
    BY DEF LastBuiltins, IsList
  <1> QED
    BY <1>1, <1>2, <1>3, <1>4

LEMMA InjectedAt ==
    ASSUME options \in Options
    PROVE  /\ IsList(Injected) /\ Len(Injected) = PreludeLen + 9 + Argc
           /\ \A n \in 1..PreludeLen : Injected[n] = Prelude[n]
           /\ \A n \in 1..7 :
                 Injected[PreludeLen + n] = FirstBuiltins(options.name, options.args)[n]
           /\ \A i \in 1..Argc :
                 Injected[PreludeLen + 7 + i] = SymbolDef(ArgNames[i], options.args[i])
           /\ \A n \in 1..2 :
                 Injected[PreludeLen + 7 + Argc + n] = LastBuiltins(options.args)[n]
  <1> DEFINE first == FirstBuiltins(options.name, options.args)
             args  == ArgLines(options.args)
             last  == LastBuiltins(options.args)
  <1>1. /\ IsList(PreludeUsed) /\ IsList(first) /\ IsList(args) /\ IsList(last)
        /\ Len(PreludeUsed) = PreludeLen /\ Len(first) = 7 /\ Len(args) = Argc /\ Len(last) = 2
        /\ \A n \in 1..PreludeLen : PreludeUsed[n] = Prelude[n]
    BY Pieces DEF PreludeLen
  <1>2. PreludeLen \in Nat /\ Argc \in Nat
    BY Pieces, OptionFacts
  <1>3. \A i \in 1..Argc : args[i] = SymbolDef(ArgNames[i], options.args[i])
    BY DEF ArgLines, Argc, ArgName
  <1>4. Injected = PreludeUsed \o ((first \o args) \o last)
    BY DEF Injected, ArgBuiltins
  <1> HIDE DEF first, args, last
  <1> DEFINE r == first \o args
             s == r \o last
  <1>5. /\ IsList(r) /\ Len(r) = 7 + Argc
        /\ \A i \in 1..7 : r[i] = first[i]
        /\ \A i \in 1..Argc : r[7 + i] = args[i]
    <2>1. IsJoined(r, first, args)
      BY <1>1, JoinedLists, Zenon
    <2> HIDE DEF r
    <2> QED
      BY <1>1, <2>1 DEF IsJoined
  <1> HIDE DEF r
  <1>6. /\ IsList(s) /\ Len(s) = 9 + Argc
        /\ \A i \in 1..(7 + Argc) : s[i] = r[i]
        /\ \A i \in 1..2 : s[7 + Argc + i] = last[i]
    <2>1. IsJoined(s, r, last)
      BY <1>1, <1>5, JoinedLists, Zenon
    <2> HIDE DEF s
    <2> QED
      BY <1>1, <1>2, <1>5, <2>1 DEF IsJoined
  <1>7. Injected = PreludeUsed \o s
    BY <1>4 DEF r
  <1> HIDE DEF s
  <1>8. /\ IsList(Injected) /\ Len(Injected) = PreludeLen + (9 + Argc)
        /\ \A i \in 1..PreludeLen : Injected[i] = PreludeUsed[i]
        /\ \A i \in 1..(9 + Argc) : Injected[PreludeLen + i] = s[i]
    <2>1. IsJoined(Injected, PreludeUsed, s)
      BY <1>1, <1>6, <1>7, JoinedLists, Zenon
    <2> QED
      BY <1>1, <1>6, <2>1 DEF IsJoined
  <1>9. \A n \in 1..7 : n \in 1..(9 + Argc) /\ n \in 1..(7 + Argc)
    BY <1>2
  <1>10. \A i \in 1..Argc : 7 + i \in 1..(9 + Argc) /\ 7 + i \in 1..(7 + Argc)
    BY <1>2
  <1>11. \A n \in 1..2 : 7 + Argc + n \in 1..(9 + Argc)
    BY <1>2
  <1>12. \A n \in 1..7 : Injected[PreludeLen + n] = first[n]
    BY <1>5, <1>6, <1>8, <1>9
  <1>13. \A i \in 1..Argc : Injected[PreludeLen + (7 + i)] = args[i]
    BY <1>5, <1>6, <1>8, <1>10
  <1>14. \A n \in 1..2 : Injected[PreludeLen + (7 + Argc + n)] = last[n]
    BY <1>6, <1>8, <1>11
  <1>15. /\ \A i \in 1..Argc : PreludeLen + 7 + i = PreludeLen + (7 + i)
         /\ \A n \in 1..2 : PreludeLen + 7 + Argc + n = PreludeLen + (7 + Argc + n)
         /\ PreludeLen + 9 + Argc = PreludeLen + (9 + Argc)
    BY <1>2
  <1> QED
    BY <1>1, <1>3, <1>8, <1>12, <1>13, <1>14, <1>15 DEF first, last

LEMMA Places ==
    ASSUME options \in Options, NEW n \in 1..Len(Injected)
    PROVE  \/ n \in 1..PreludeLen
           \/ \E k \in 1..7 : n = PreludeLen + k
           \/ \E i \in 1..Argc : n = PreludeLen + 7 + i
           \/ \E k \in 1..2 : n = PreludeLen + 7 + Argc + k
  <1>1. PreludeLen \in Nat /\ Argc \in Nat /\ Len(Injected) = PreludeLen + 9 + Argc
    <2>1. PreludeLen \in {0, 10}
      BY Pieces, Zenon
    <2>2. Len(Injected) = PreludeLen + 9 + Argc
      BY InjectedAt, Zenon
    <2> QED
      BY <2>1, <2>2, OptionFacts
  <1>2. CASE n <= PreludeLen
    BY <1>1, <1>2
  <1>3. CASE n > PreludeLen /\ n <= PreludeLen + 7
    <2>1. n - PreludeLen \in 1..7 /\ n = PreludeLen + (n - PreludeLen)
      BY <1>1, <1>3
    <2> QED
      BY <2>1
  <1>4. CASE n > PreludeLen + 7 /\ n <= PreludeLen + 7 + Argc
    <2>1. n - PreludeLen - 7 \in 1..Argc /\ n = PreludeLen + 7 + (n - PreludeLen - 7)
      BY <1>1, <1>4
    <2> QED
      BY <2>1
  <1>5. CASE n > PreludeLen + 7 + Argc
    <2>1. /\ n - PreludeLen - 7 - Argc \in 1..2
          /\ n = PreludeLen + 7 + Argc + (n - PreludeLen - 7 - Argc)
      BY <1>1, <1>5
    <2> QED
      BY <2>1
  <1> QED
    BY <1>1, <1>2, <1>3, <1>4, <1>5

-----------------------------------------------------------------------------
(* What these lines are.                                                   *)
LEMMA PreludeLines ==
    /\ \A n \in 1..10 : /\ Prelude[n].kind = "def" /\ Prelude[n].name # ""
                        /\ Prelude[n].name \in Builtins \ ArgBuiltinNames
    /\ \A m, n \in 1..10 : Prelude[m].name = Prelude[n].name => m = n
  <1> DEFINE names == <<"I", "K", "S", "TRUE", "FALSE", "AND", "OR", "NOT", "IMP", "IFF">>
  <1>1. \A n \in 1..10 : Prelude[n].kind = "def" /\ Prelude[n].name = names[n]
    BY DEF Prelude, DefLine, Line
  <1>2. \A n \in 1..10 : names[n] # "" /\ names[n] \notin ArgBuiltinNames
    <2>1. \A n \in 1..10 : names[n] \in {"I", "K", "S", "TRUE", "FALSE", "AND", "OR", "NOT",
                                         "IMP", "IFF"}
      OBVIOUS
    <2> QED
      BY <2>1 DEF ArgBuiltinNames
  <1>3. \A m, n \in 1..10 : names[m] = names[n] => m = n
    OBVIOUS
  <1>4. \A n \in 1..10 : Prelude[n].name \in Builtins
    BY PreludeList DEF Builtins
  <1> HIDE DEF names
  <1> QED
    BY <1>1, <1>2, <1>3, <1>4

LEMMA SymbolLines ==
    ASSUME NEW x, NEW t
    PROVE  /\ SymbolDef(x, t).name = x
           /\ SymbolDef(x, t).kind \in {"bad", "def"}
           /\ SymbolDef(x, t).kind = "bad" <=> t \in Reserved
           /\ SymbolDef(x, t).kind = "def" => SymbolDef(x, t).body = NVar(SymbolFromText(t))
  <1>1. SymbolFromText(t) \in Reserved <=> t \in Reserved
    <2>1. CASE t \in DOMAIN Hex
      BY <2>1, ReservedAssumption
    <2>2. CASE t \notin DOMAIN Hex
      BY <2>2 DEF SymbolFromText
    <2> QED
      BY <2>1, <2>2
  <1> QED
    BY <1>1 DEF SymbolDef, DefLine, Line, V

LEMMA FirstLines ==
    LET first == FirstBuiltins(options.name, options.args)
    IN  /\ \A n \in 1..7 : /\ n # 6 => first[n].kind \in {"blank", "def"}
                           /\ first[n].name
                                = <<"", "", "NIL", "CONS", "BOOLS", "ARG0", "ARGC">>[n]
        /\ first[6] = SymbolDef("ARG0", options.name)
  <1> DEFINE first == FirstBuiltins(options.name, options.args)
  <1>1. first[6] = SymbolDef("ARG0", options.name)
    BY DEF FirstBuiltins
  <1>2. first[6].name = "ARG0"
    BY <1>1, SymbolLines
  <1>3. /\ first[1] = BlankLine /\ first[2] = BlankLine
        /\ first[3].kind = "def" /\ first[3].name = "NIL"
        /\ first[4].kind = "def" /\ first[4].name = "CONS"
        /\ first[5].kind = "def" /\ first[5].name = "BOOLS"
        /\ first[7].kind = "def" /\ first[7].name = "ARGC"
    BY DEF FirstBuiltins, DefLine, Line
  <1>4. BlankLine.kind = "blank" /\ BlankLine.name = ""
    BY DEF BlankLine, Line
  <1> HIDE DEF first
  <1> USE \A n \in 1..7 : n = 1 \/ n = 2 \/ n = 3 \/ n = 4 \/ n = 5 \/ n = 6 \/ n = 7
  <1>5. \A n \in 1..7 : n # 6 => first[n].kind \in {"blank", "def"}
    BY <1>3, <1>4
  <1> DEFINE names == <<"", "", "NIL", "CONS", "BOOLS", "ARG0", "ARGC">>
  <1>6. /\ names[1] = "" /\ names[2] = "" /\ names[3] = "NIL" /\ names[4] = "CONS"
        /\ names[5] = "BOOLS" /\ names[6] = "ARG0" /\ names[7] = "ARGC"
    OBVIOUS
  <1> HIDE DEF names
  <1>7. \A n \in 1..7 : first[n].name = names[n]
    BY <1>2, <1>3, <1>4, <1>6
  <1> QED
    BY <1>1, <1>5, <1>7 DEF first, names

LEMMA LastLines ==
    LET last == LastBuiltins(options.args)
    IN  /\ last[1].kind = "def" /\ last[1].name = "ARGS"
        /\ last[2].kind = "blank" /\ last[2].name = ""
  BY DEF LastBuiltins, DefLine, BlankLine, Line

(* Only a word makes one of these lines bad, and none is an expression.    *)
WordLine(w) == IF w = 1 THEN PreludeLen + 6 ELSE PreludeLen + 6 + w

LEMMA GivenFacts ==
    ASSUME options \in Options
    PROVE  /\ Len(Given) = 1 + Argc /\ Given[1] = options.name
           /\ \A i \in 1..Argc : Given[1 + i] = options.args[i]
           /\ GivenNames[1] = "ARG0"
           /\ \A i \in 1..Len(ArgNames) : GivenNames[1 + i] = ArgNames[i]
  <1>1. IsList(<<options.name>>) /\ IsList(<<"ARG0">>)
    BY DEF IsList
  <1>2. IsList(options.args) /\ IsList(ArgNames)
    BY OptionFacts, ArgsAssumption, SeqIsList
  <1>3. IsJoined(Given, <<options.name>>, options.args) /\ IsJoined(GivenNames, <<"ARG0">>, ArgNames)
    BY <1>1, <1>2, JoinedLists, Zenon DEF Given, GivenNames
  <1> QED
    BY <1>3 DEF IsJoined, Argc

LEMMA BadLines ==
    ASSUME options \in Options
    PROVE  /\ \A n \in 1..Len(Injected) : Injected[n].kind \in {"blank", "def", "bad"}
           /\ \A n \in 1..Len(Injected) :
                 Injected[n].kind = "bad" => \E w \in Words : n = WordLine(w)
           /\ \A w \in Words : /\ WordLine(w) \in 1..Len(Injected)
                               /\ Injected[WordLine(w)].kind = "bad"
                               /\ Injected[WordLine(w)].name = GivenNames[w]
  <1> DEFINE first == FirstBuiltins(options.name, options.args)
             last  == LastBuiltins(options.args)
  <1>1. PreludeLen \in {0, 10} /\ Argc \in Nat /\ Argc <= Len(ArgNames) /\ Len(ArgNames) \in Nat
    BY Pieces, OptionFacts
  <1>2. /\ Len(Injected) = PreludeLen + 9 + Argc
        /\ \A n \in 1..PreludeLen : Injected[n] = Prelude[n]
        /\ \A n \in 1..7 : Injected[PreludeLen + n] = first[n]
        /\ \A i \in 1..Argc :
              Injected[PreludeLen + 7 + i] = SymbolDef(ArgNames[i], options.args[i])
        /\ \A n \in 1..2 : Injected[PreludeLen + 7 + Argc + n] = last[n]
    BY InjectedAt
  <1>3. /\ \A n \in 1..7 : n # 6 => first[n].kind \in {"blank", "def"}
        /\ first[6] = SymbolDef("ARG0", options.name)
        /\ \A n \in 1..2 : last[n].kind \in {"blank", "def"}
    <2>1. \A n \in 1..2 : n = 1 \/ n = 2
      OBVIOUS
    <2>2. \A n \in 1..2 : last[n].kind \in {"blank", "def"}
      BY <2>1, LastLines
    <2> QED
      BY <2>2, FirstLines
  <1>4. \A n \in 1..PreludeLen : Injected[n].kind = "def"
    <2>1. \A n \in 1..PreludeLen : n \in 1..10
      BY <1>1
    <2> QED
      BY <1>2, <2>1, PreludeLines
  <1> HIDE DEF first, last
  <1>5. /\ 1 \in Words <=> options.name \in Reserved
        /\ \A i \in 1..Argc : 1 + i \in Words <=> options.args[i] \in Reserved
        /\ \A w \in Words : w = 1 \/ (w - 1 \in 1..Argc /\ w = 1 + (w - 1))
    BY <1>1, GivenFacts DEF Words
  <1>6. WordLine(1) = PreludeLen + 6 /\ \A i \in 1..Argc : WordLine(1 + i) = PreludeLen + 7 + i
    BY <1>1 DEF WordLine
  <1>7. ASSUME NEW n \in 1..Len(Injected)
        PROVE  /\ Injected[n].kind \in {"blank", "def", "bad"}
               /\ Injected[n].kind = "bad" => \E w \in Words : n = WordLine(w)
    <2>1. CASE n \in 1..PreludeLen
      BY <1>4, <2>1
    <2>2. ASSUME NEW k \in 1..7, n = PreludeLen + k
          PROVE  /\ Injected[n].kind \in {"blank", "def", "bad"}
                 /\ Injected[n].kind = "bad" => \E w \in Words : n = WordLine(w)
      <3>1. Injected[n] = first[k]
        BY <1>2, <2>2
      <3>2. CASE k = 6
        BY <1>3, <1>5, <1>6, <2>2, <3>1, <3>2, SymbolLines
      <3>3. CASE k # 6
        BY <1>3, <3>1, <3>3
      <3> QED
        BY <3>2, <3>3
    <2>3. ASSUME NEW i \in 1..Argc, n = PreludeLen + 7 + i
          PROVE  /\ Injected[n].kind \in {"blank", "def", "bad"}
                 /\ Injected[n].kind = "bad" => \E w \in Words : n = WordLine(w)
      BY <1>2, <1>5, <1>6, <2>3, SymbolLines
    <2>4. ASSUME NEW k \in 1..2, n = PreludeLen + 7 + Argc + k
          PROVE  /\ Injected[n].kind \in {"blank", "def", "bad"}
                 /\ Injected[n].kind = "bad" => \E w \in Words : n = WordLine(w)
      BY <1>2, <1>3, <2>4
    <2> QED
      BY <2>1, <2>2, <2>3, <2>4, Places
  <1>8. ASSUME NEW w \in Words
        PROVE  /\ WordLine(w) \in 1..Len(Injected)
               /\ Injected[WordLine(w)].kind = "bad"
               /\ Injected[WordLine(w)].name = GivenNames[w]
    <2>1. CASE w = 1
      <3>1. WordLine(w) = PreludeLen + 6 /\ options.name \in Reserved
        BY <1>5, <1>6, <2>1
      <3>2. Injected[WordLine(w)] = SymbolDef("ARG0", options.name)
        BY <1>2, <1>3, <3>1
      <3>3. GivenNames[w] = "ARG0"
        BY <2>1, GivenFacts
      <3>4. WordLine(w) \in 1..Len(Injected)
        BY <1>1, <1>2, <3>1
      <3> QED
        BY <3>1, <3>2, <3>3, <3>4, SymbolLines
    <2>2. ASSUME NEW i \in 1..Argc, w = 1 + i
          PROVE  /\ WordLine(w) \in 1..Len(Injected)
                 /\ Injected[WordLine(w)].kind = "bad"
                 /\ Injected[WordLine(w)].name = GivenNames[w]
      <3>1. WordLine(w) = PreludeLen + 7 + i /\ options.args[i] \in Reserved
        BY <1>5, <1>6, <2>2
      <3>2. Injected[WordLine(w)] = SymbolDef(ArgNames[i], options.args[i])
        BY <1>2, <3>1
      <3>3. GivenNames[w] = ArgNames[i]
        BY <1>1, <2>2, GivenFacts
      <3>4. WordLine(w) \in 1..Len(Injected)
        BY <1>1, <1>2, <3>1
      <3> QED
        BY <3>1, <3>2, <3>3, <3>4, SymbolLines
    <2> QED
      BY <1>5, <2>1, <2>2
  <1> QED
    BY <1>7, <1>8

(* The first of them is the first word.                                    *)
LEMMA FirstBadLine ==
    ASSUME options \in Options, NEW n \in 1..Len(Injected), Injected[n].kind = "bad",
           \A m \in 1..(n - 1) : Injected[m].kind # "bad"
    PROVE  Injected[n].name = GivenNames[Earliest(Words)]
  <1>1. PICK w \in Words : n = WordLine(w)
    BY BadLines
  <1>2. \A v \in Words : w <= v
    <2> SUFFICES ASSUME NEW v \in Words, v < w PROVE FALSE
      BY GivenFacts, OptionFacts DEF Words
    <2>1. v \in Nat \ {0} /\ w \in Nat \ {0} /\ PreludeLen \in Nat
      BY GivenFacts, OptionFacts, Pieces DEF Words
    <2>2. WordLine(v) < WordLine(w)
      BY <2>1 DEF WordLine
    <2>3. WordLine(v) \in 1..Len(Injected) /\ Injected[WordLine(v)].kind = "bad"
      BY BadLines
    <2>4. WordLine(v) \in 1..(n - 1)
      BY <1>1, <2>2, <2>3
    <2> QED
      BY <2>3, <2>4
  <1>3. \A v \in Words : (\A u \in Words : v <= u) => v = w
    BY <1>2, GivenFacts, OptionFacts DEF Words
  <1>4. Earliest(Words) = w
    BY <1>2, <1>3 DEF Earliest
  <1> QED
    BY <1>1, <1>4, BadLines

-----------------------------------------------------------------------------
(* No two of these lines define the same name.                             *)
LEMMA InjectedDiffer ==
    ASSUME options \in Options, NEW m \in 1..Len(Injected), NEW n \in 1..Len(Injected),
           IsDef(Injected[m]), Injected[m].name = Injected[n].name
    PROVE  m = n
  <1> DEFINE first == FirstBuiltins(options.name, options.args)
             last  == LastBuiltins(options.args)
             names == <<"", "", "NIL", "CONS", "BOOLS", "ARG0", "ARGC">>
  <1>1. PreludeLen \in {0, 10} /\ Argc \in Nat /\ Argc <= Len(ArgNames) /\ Len(ArgNames) \in Nat
    BY Pieces, OptionFacts
  <1>2. /\ Len(Injected) = PreludeLen + 9 + Argc
        /\ \A k \in 1..PreludeLen : Injected[k] = Prelude[k]
        /\ \A k \in 1..7 : Injected[PreludeLen + k] = first[k]
        /\ \A i \in 1..Argc :
              Injected[PreludeLen + 7 + i] = SymbolDef(ArgNames[i], options.args[i])
        /\ \A k \in 1..2 : Injected[PreludeLen + 7 + Argc + k] = last[k]
    BY InjectedAt
  (* The names, by the four parts.                                         *)
  <1>3. \A k \in 1..PreludeLen : /\ k \in 1..10
                                 /\ Injected[k].name = Prelude[k].name
                                 /\ Prelude[k].name \in Builtins \ ArgBuiltinNames
                                 /\ Prelude[k].name # ""
    <2>1. \A k \in 1..PreludeLen : k \in 1..10
      BY <1>1
    <2> QED
      BY <1>2, <2>1, PreludeLines
  <1>4. \A k \in 1..7 : Injected[PreludeLen + k].name = names[k]
    BY <1>2, FirstLines
  <1>5. \A i \in 1..Argc : /\ i \in 1..Len(ArgNames)
                          /\ Injected[PreludeLen + 7 + i].name = ArgNames[i]
                          /\ ArgNames[i] \notin Builtins /\ ArgNames[i] # ""
    <2>1. \A i \in 1..Argc : i \in 1..Len(ArgNames)
      BY <1>1
    <2>2. \A i \in 1..Len(ArgNames) : ArgNames[i] \in STRING \ ({""} \cup Builtins)
      BY ArgsAssumption, ElementOfSeq
    <2>3. \A i \in 1..Argc : Injected[PreludeLen + 7 + i].name = ArgNames[i]
      BY <1>2, SymbolLines
    <2> QED
      BY <2>1, <2>2, <2>3
  <1>6. \A k \in 1..2 : Injected[PreludeLen + 7 + Argc + k].name = IF k = 1 THEN "ARGS" ELSE ""
    <2>1. \A k \in 1..2 : k = 1 \/ k = 2
      OBVIOUS
    <2> QED
      BY <1>2, <2>1, LastLines
  <1>7. /\ \A k \in 1..7 : names[k] \in (ArgBuiltinNames \ {"ARGS"}) \cup {""}
        /\ \A k \in 1..7 : (names[k] = "") = (k <= 2)
        /\ \A j, k \in 1..7 : names[j] = names[k] /\ names[j] # "" => j = k
    BY DEF ArgBuiltinNames
  <1>8. "ARGS" \in ArgBuiltinNames /\ ArgBuiltinNames \subseteq Builtins /\ "" \notin ArgBuiltinNames
    BY DEF ArgBuiltinNames, Builtins
  <1>9. Injected[m].name # ""
    BY DEF IsDef
  <1> HIDE DEF first, last, names
  <1>10. /\ \A k \in 1..PreludeLen : Injected[k].name \in Builtins \ ArgBuiltinNames
         /\ \A k \in 1..7 : Injected[PreludeLen + k].name \in (ArgBuiltinNames \ {"ARGS"}) \cup {""}
         /\ \A i \in 1..Argc : Injected[PreludeLen + 7 + i].name \notin Builtins
         /\ \A k \in 1..2 : Injected[PreludeLen + 7 + Argc + k].name \in {"ARGS", ""}
    BY <1>3, <1>4, <1>5, <1>6, <1>7
  <1>11. \/ n \in 1..PreludeLen
         \/ \E k \in 1..7 : n = PreludeLen + k
         \/ \E i \in 1..Argc : n = PreludeLen + 7 + i
         \/ \E k \in 1..2 : n = PreludeLen + 7 + Argc + k
    BY Places
  <1>12. CASE m \in 1..PreludeLen
    <2>1. Injected[n].name \in Builtins \ ArgBuiltinNames /\ Injected[n].name # ""
      BY <1>9, <1>10, <1>12
    <2>2. n \in 1..PreludeLen
      BY <1>8, <1>10, <1>11, <2>1
    <2> QED
      BY <1>3, <1>12, <2>2, PreludeLines
  <1>13. ASSUME NEW j \in 1..7, m = PreludeLen + j PROVE m = n
    <2>1. Injected[n].name \in ArgBuiltinNames \ {"ARGS"}
      BY <1>9, <1>10, <1>13
    <2>2. PICK k \in 1..7 : n = PreludeLen + k
      BY <1>8, <1>10, <1>11, <2>1
    <2>3. names[j] = names[k] /\ names[j] # ""
      BY <1>4, <1>9, <1>13, <2>2
    <2> QED
      BY <1>7, <1>13, <2>2, <2>3
  <1>14. ASSUME NEW j \in 1..Argc, m = PreludeLen + 7 + j PROVE m = n
    <2>1. Injected[n].name \notin Builtins /\ Injected[n].name # ""
      BY <1>9, <1>10, <1>14
    <2>2. PICK i \in 1..Argc : n = PreludeLen + 7 + i
      BY <1>8, <1>10, <1>11, <2>1
    <2>3. i \in 1..Len(ArgNames) /\ j \in 1..Len(ArgNames) /\ ArgNames[i] = ArgNames[j]
      BY <1>5, <1>14, <2>2
    <2> QED
      BY <1>14, <2>2, <2>3, ArgsAssumption
  <1>15. ASSUME NEW j \in 1..2, m = PreludeLen + 7 + Argc + j PROVE m = n
    <2>1. Injected[n].name = "ARGS" /\ j = 1
      BY <1>6, <1>9, <1>15
    <2>2. PICK k \in 1..2 : n = PreludeLen + 7 + Argc + k
      BY <1>8, <1>10, <1>11, <2>1
    <2> QED
      BY <1>6, <1>15, <2>1, <2>2
  <1> QED
    BY <1>12, <1>13, <1>14, <1>15, Places

(* A line of the builtins that is a definition has a name.                 *)
LEMMA NamedLines ==
    ASSUME options \in Options, NEW n \in 1..Len(Injected), Injected[n].kind = "def"
    PROVE  IsDef(Injected[n])
  <1> DEFINE first == FirstBuiltins(options.name, options.args)
             last  == LastBuiltins(options.args)
  <1>1. PreludeLen \in {0, 10} /\ Argc \in Nat /\ Argc <= Len(ArgNames) /\ Len(ArgNames) \in Nat
    BY Pieces, OptionFacts
  <1>2. CASE n \in 1..PreludeLen
    <2>1. n \in 1..10 /\ Injected[n] = Prelude[n]
      BY <1>1, <1>2, InjectedAt
    <2> QED
      BY <2>1, PreludeLines DEF IsDef
  <1>3. ASSUME NEW k \in 1..7, n = PreludeLen + k PROVE IsDef(Injected[n])
    <2>1. Injected[n] = first[k]
      BY <1>3, InjectedAt
    <2>2. first[1].kind = "blank" /\ first[2].kind = "blank"
      BY DEF FirstBuiltins, BlankLine, Line
    <2>3. k # 1 /\ k # 2
      BY <2>1, <2>2
    <2>4. k = 3 \/ k = 4 \/ k = 5 \/ k = 6 \/ k = 7
      BY <2>3
    <2> DEFINE names == <<"", "", "NIL", "CONS", "BOOLS", "ARG0", "ARGC">>
    <2>5. /\ names[3] # "" /\ names[4] # "" /\ names[5] # "" /\ names[6] # ""
          /\ names[7] # "" /\ first[k].name = names[k]
      BY FirstLines
    <2> HIDE DEF names
    <2> QED
      BY <2>1, <2>4, <2>5 DEF IsDef
  <1>4. ASSUME NEW i \in 1..Argc, n = PreludeLen + 7 + i PROVE IsDef(Injected[n])
    <2>1. Injected[n].name = ArgNames[i] /\ i \in 1..Len(ArgNames)
      <3>1. Injected[n] = SymbolDef(ArgNames[i], options.args[i])
        BY <1>4, InjectedAt
      <3>2. Injected[n].name = ArgNames[i]
        BY <3>1, SymbolLines
      <3> QED
        BY <1>1, <3>2
    <2>2. ArgNames[i] \in STRING \ ({""} \cup Builtins)
      BY <2>1, ArgsAssumption, ElementOfSeq
    <2> QED
      BY <2>1, <2>2 DEF IsDef
  <1>5. ASSUME NEW k \in 1..2, n = PreludeLen + 7 + Argc + k PROVE IsDef(Injected[n])
    <2>1. Injected[n] = last[k] /\ (k = 1 \/ k = 2)
      BY <1>5, InjectedAt
    <2>2. k = 1
      BY <2>1, LastLines
    <2> QED
      BY <2>1, <2>2, LastLines DEF IsDef
  <1> QED
    BY <1>2, <1>3, <1>4, <1>5, Places

-----------------------------------------------------------------------------
(* The lines merged, and those defined twice.                              *)
LEMMA SourceIsList ==
    ASSUME source \in Sources
    PROVE  IsList(source) /\ \A n \in 1..Len(source) : IsLine(source[n])
  <1>1. IsList(source) /\ \A n \in DOMAIN source : IsLine(source[n])
    BY SourcesAssumption DEF IsList
  <1> QED
    BY <1>1, ListFacts

LEMMA MergedAt ==
    ASSUME options \in Options, source \in Sources
    PROVE  /\ Len(Injected) \in Nat /\ Len(source) \in Nat
           /\ Len(Merged) = Len(Injected) + Len(source)
           /\ \A n \in 1..Len(Injected) : Merged[n] = Injected[n]
           /\ \A n \in 1..Len(source) : Merged[Len(Injected) + n] = source[n]
           /\ \A n \in 1..Len(Merged) :
                 n > Len(Injected) => /\ n - Len(Injected) \in 1..Len(source)
                                      /\ Merged[n] = source[n - Len(Injected)]
  <1>1. IsList(Injected) /\ IsList(source)
    BY InjectedAt, SourceIsList
  <1>2. IsJoined(Merged, Injected, source)
    BY <1>1, JoinedLists, Zenon DEF Merged
  <1>3. Len(Injected) \in Nat /\ Len(source) \in Nat
    BY <1>1, ListFacts
  <1>4. ASSUME NEW n \in 1..Len(Merged), n > Len(Injected)
        PROVE  /\ n - Len(Injected) \in 1..Len(source)
               /\ Merged[n] = source[n - Len(Injected)]
    <2>1. n - Len(Injected) \in 1..Len(source) /\ n = Len(Injected) + (n - Len(Injected))
      BY <1>2, <1>3, <1>4 DEF IsJoined
    <2> QED
      BY <1>2, <2>1 DEF IsJoined
  <1> QED
    BY <1>2, <1>3, <1>4 DEF IsJoined

LEMMA MergedLines ==
    ASSUME options \in Options, source \in Sources, NEW n \in 1..Len(Merged)
    PROVE  /\ Merged[n].kind \in LineKinds
           /\ Merged[n].kind \in {"def"} \cup DOMAIN CompoundOp => IsDef(Merged[n])
           /\ Merged[n].kind = "expr" => n > Len(Injected) /\ Merged[n].body # NoTree
  <1>1. CASE n > Len(Injected)
    BY <1>1, MergedAt, SourceIsList DEF IsLine, IsDef
  <1>2. CASE ~(n > Len(Injected))
    <2>1. n \in 1..Len(Injected) /\ Merged[n] = Injected[n]
      BY <1>2, MergedAt
    <2>2. Injected[n].kind \in {"blank", "def", "bad"}
      BY <2>1, BadLines
    <2>3. Injected[n].kind \in LineKinds /\ Injected[n].kind # "expr"
      BY <2>2 DEF LineKinds
    <2>4. ASSUME Injected[n].kind \in {"def"} \cup DOMAIN CompoundOp PROVE IsDef(Injected[n])
      <3>1. Injected[n].kind # "blank" /\ Injected[n].kind # "bad"
        BY <2>4 DEF CompoundOp
      <3> QED
        BY <2>1, <2>2, <3>1, NamedLines
    <2> QED
      BY <2>1, <2>3, <2>4
  <1> QED
    BY <1>1, <1>2

-----------------------------------------------------------------------------
(* The inductive invariant.                                                *)
MakesDef(d, l) ==
    /\ l.kind \in {"def"} \cup DOMAIN CompoundOp
    /\ d.name = l.name
    /\ l.kind = "def" => d.body = l.body

(* Every definition is that of a line parsed, and no two have one name.    *)
DefsAreLines ==
    /\ IsList(defs)
    /\ \A i \in 1..Len(defs) :
          \E m \in 1..Len(Merged) : /\ phase = "parse" => m < at
                                   /\ MakesDef(defs[i], Merged[m])
    /\ \A i, j \in 1..Len(defs) : defs[i].name = defs[j].name => i = j
    /\ phase \in {"parse", "lower", "lowered"} \/ Len(defs) > 0 => Duplicates = {}

(* Every value is that of the definition in its place, with the values     *)
(* before it in sight.                                                     *)
ValuesAreDefs ==
    /\ IsList(values)
    /\ Len(values) <= Len(defs)
    /\ \A i \in 1..Len(values) :
          /\ values[i].name = defs[i].name
          /\ values[i].value = LowerTree(defs[i].body, SubSeq(values, 1, i - 1))

(* How far each phase has come.                                            *)
Counters ==
    /\ phase = "scan" => at = 1 /\ Len(defs) = 0 /\ Len(values) = 0 /\ expr = NoTree
    /\ phase = "parse" => Len(defs) <= at - 1 /\ Len(values) = 0
    /\ phase \in {"lower", "lowered"} => Len(defs) <= Len(Merged) /\ at = Len(values) + 1

(* The lines above the one to parse are right.                             *)
IsExpr(m) == Merged[m].kind = "expr"
RightSoFar ==
    phase = "parse" =>
        /\ \A m \in 1..(at - 1) : Merged[m].kind # "bad"
        /\ expr # NoTree <=> \E m \in 1..(at - 1) : IsExpr(m)
        /\ \A m, n \in 1..(at - 1) : IsExpr(m) /\ IsExpr(n) => m = n

Basics ==
    /\ options \in Options
    /\ source \in Sources
    /\ phase \in {"scan", "parse", "lower", "lowered", "failed"}
    /\ at \in 1..Len(Merged) + 1
    /\ error.line \in 0..Len(Merged)
    /\ error = NoError <=> phase # "failed"

IInv ==
    /\ Basics
    /\ DefsAreLines
    /\ ValuesAreDefs
    /\ Counters
    /\ RightSoFar
    /\ RejectedLineIsTheFirstWrong

LEMMA SameText ==
    ASSUME UNCHANGED <<options, source>>
    PROVE  /\ Injected' = Injected /\ Merged' = Merged /\ Duplicates' = Duplicates
           /\ Words' = Words /\ \A n : Repeats(n)' <=> Repeats(n)
           /\ \A n : WrongLine(n)' <=> WrongLine(n)
           /\ \A n : IsExpr(n)' <=> IsExpr(n)
  <1>1. Injected' = Injected
    BY DEF Injected, PreludeUsed
  <1>2. Merged' = Merged
    BY <1>1 DEF Merged
  <1>3. \A n : Repeats(n)' <=> Repeats(n)
    BY <1>2 DEF Repeats
  <1>4. Duplicates' = Duplicates
    BY <1>2, <1>3 DEF Duplicates
  <1> QED
    BY <1>1, <1>2, <1>3, <1>4 DEF Words, Given, WrongLine, IsExpr

LEMMA TextStays == [Next]_vars => UNCHANGED <<options, source>>
  BY DEF Next, vars, Scan, RejectDuplicate, ParseBlank, ParseDefinition, ParseCompound,
         ParseExpression, RejectSecondExpression, RejectSyntax, ParseEnd, RejectNoExpression,
         LowerDefinition, LowerExpression, RefuseForward, AddDefinition, Fail

LEMMA NoErrorIs == NoError.kind = "none" /\ NoError.line = 0
  BY DEF NoError, Error

LEMMA InitInv == Init => IInv
  <1> SUFFICES ASSUME Init PROVE IInv
    OBVIOUS
  <1>1. Len(defs) = 0 /\ Len(values) = 0 /\ IsList(defs) /\ IsList(values) /\ phase = "scan"
    BY DEF Init, IsList
  <1>2. Len(Merged) \in Nat
    BY MergedAt DEF Init
  <1>3. Basics
    BY <1>2, NoErrorIs DEF Init, Basics
  <1>4. DefsAreLines /\ ValuesAreDefs /\ Counters /\ RightSoFar
    BY <1>1 DEF Init, DefsAreLines, ValuesAreDefs, Counters, RightSoFar
  <1>5. RejectedLineIsTheFirstWrong
    BY NoErrorIs DEF Init, RejectedLineIsTheFirstWrong
  <1> QED
    BY <1>3, <1>4, <1>5 DEF IInv

(* A step on which nothing is refused.                                     *)
LEMMA NothingRefused ==
    ASSUME Basics, phase # "failed", error' = error, UNCHANGED <<options, source>>,
           phase' \in {"parse", "lower", "lowered"}, at' \in 1..Len(Merged) + 1
    PROVE  Basics' /\ RejectedLineIsTheFirstWrong'
  <1>1. error' = NoError
    BY DEF Basics
  <1>2. error'.kind = "none"
    BY <1>1, NoErrorIs
  <1>3. RejectedLineIsTheFirstWrong'
    BY <1>2 DEF RejectedLineIsTheFirstWrong
  <1>4. Basics'
    BY <1>1, SameText, NoErrorIs DEF Basics
  <1> QED
    BY <1>3, <1>4

(* What RejectedLineIsTheFirstWrong says of an error.                      *)
RightlyRejected(e) ==
    /\ e.kind = "duplicate" =>
          /\ IsDef(source[e.line]) /\ source[e.line].name = e.name
          /\ \A n \in 1..(e.line - 1) : ~Repeats(Len(Injected) + n)
    /\ e.kind \in {"multiple expressions", "syntax"} =>
          IF Words = {}
          THEN WrongLine(e.line) /\ \A n \in 1..(e.line - 1) : ~WrongLine(n)
          ELSE Merged[e.line].name = GivenNames[Earliest(Words)]

(* A program refused keeps what was collected.                             *)
LEMMA Refused ==
    ASSUME IInv, phase # "failed", NEW e, Fail(e), e.kind # "none", e.line \in 0..Len(Merged),
           RightlyRejected(e)
    PROVE  IInv'
  <1>1. /\ UNCHANGED <<options, source, at, defs, expr, values>>
        /\ phase' = "failed" /\ error' = e
    BY DEF Fail
  <1>2. Merged' = Merged /\ Duplicates' = Duplicates
    BY <1>1, SameText
  <1>3. Basics'
    BY <1>1, <1>2, NoErrorIs DEF IInv, Basics
  <1>4. DefsAreLines'
    <2>1. Len(defs) > 0 => Duplicates = {}
      BY DEF IInv, DefsAreLines
    <2>2. \A i \in 1..Len(defs) : \E m \in 1..Len(Merged) : MakesDef(defs[i], Merged[m])
      BY DEF IInv, DefsAreLines
    <2> QED
      BY <1>1, <1>2, <2>1, <2>2 DEF IInv, DefsAreLines
  <1>5. ValuesAreDefs' /\ Counters' /\ RightSoFar'
    BY <1>1 DEF IInv, ValuesAreDefs, Counters, RightSoFar
  <1>6. RejectedLineIsTheFirstWrong'
    BY <1>1, SameText DEF RightlyRejected, RejectedLineIsTheFirstWrong, GivenNames
  <1> QED
    BY <1>3, <1>4, <1>5, <1>6 DEF IInv

(* The scan over the whole text.                                           *)
LEMMA ScanStep == IInv /\ Scan => IInv'
  <1> SUFFICES ASSUME IInv, Scan PROVE IInv'
    OBVIOUS
  <1>1. /\ phase = "scan" /\ phase' = "parse" /\ Duplicates = {}
        /\ UNCHANGED <<options, source, at, defs, expr, values, error>>
    BY DEF Scan
  <1>2. at = 1 /\ Len(defs) = 0 /\ Len(values) = 0 /\ expr = NoTree
    BY <1>1 DEF IInv, Counters
  <1>3. Basics' /\ RejectedLineIsTheFirstWrong'
    BY <1>1, NothingRefused DEF IInv, Basics
  <1>4. DefsAreLines'
    BY <1>1, <1>2, SameText DEF IInv, DefsAreLines
  <1>5. ValuesAreDefs' /\ Counters' /\ RightSoFar'
    BY <1>1, <1>2 DEF IInv, ValuesAreDefs, Counters, RightSoFar
  <1> QED
    BY <1>3, <1>4, <1>5 DEF IInv

(* A line taken in by the parser.                                          *)
LEMMA LineTaken ==
    ASSUME IInv, phase = "parse", at <= Len(Merged), Here.kind # "bad",
           at' = at + 1, UNCHANGED <<options, source, phase, values, error>>,
           \/ Here.kind # "expr" /\ UNCHANGED expr
           \/ Here.kind = "expr" /\ expr = NoTree /\ expr' = Here.body,
           DefsAreLines', Len(defs') <= at
    PROVE  IInv'
  <1>1. Len(Merged) \in Nat /\ at \in 1..Len(Merged)
    BY MergedAt DEF IInv, Basics
  <1>2. Merged' = Merged /\ \A n : IsExpr(n)' <=> IsExpr(n)
    BY SameText
  <1>3. Basics' /\ RejectedLineIsTheFirstWrong'
    BY <1>1, NothingRefused DEF IInv
  <1>4. Len(values) = 0 /\ IsList(values) /\ Len(defs') \in Nat
    BY ListFacts DEF IInv, Counters, ValuesAreDefs, DefsAreLines
  <1>5. ValuesAreDefs' /\ Counters'
    BY <1>1, <1>4 DEF ValuesAreDefs, Counters
  <1>6. RightSoFar'
    <2>1. /\ \A m \in 1..(at - 1) : Merged[m].kind # "bad"
          /\ expr # NoTree <=> \E m \in 1..(at - 1) : IsExpr(m)
          /\ \A m, n \in 1..(at - 1) : IsExpr(m) /\ IsExpr(n) => m = n
      BY DEF IInv, RightSoFar
    <2>2. \A m \in 1..(at' - 1) : m = at \/ m \in 1..(at - 1)
      BY <1>1
    <2>3. at \in 1..(at' - 1) /\ \A m \in 1..(at - 1) : m \in 1..(at' - 1)
      BY <1>1
    <2>4. \A m \in 1..(at' - 1) : Merged[m].kind # "bad"
      BY <2>1, <2>2 DEF Here
    <2>5. CASE Here.kind # "expr" /\ UNCHANGED expr
      <3>1. ~IsExpr(at)
        BY <2>5 DEF IsExpr, Here
      <3>2. expr' # NoTree <=> \E m \in 1..(at' - 1) : IsExpr(m)
        BY <2>1, <2>2, <2>3, <2>5, <3>1
      <3>3. \A m, n \in 1..(at' - 1) : IsExpr(m) /\ IsExpr(n) => m = n
        BY <2>1, <2>2, <3>1
      <3> QED
        BY <1>2, <2>4, <3>2, <3>3 DEF RightSoFar
    <2>6. CASE Here.kind = "expr" /\ expr = NoTree /\ expr' = Here.body
      <3>1. IsExpr(at) /\ expr' # NoTree
        BY <1>1, <2>6, MergedLines DEF IsExpr, Here, IInv, Basics
      <3>2. \A m \in 1..(at - 1) : ~IsExpr(m)
        BY <2>1, <2>6
      <3>3. \A m, n \in 1..(at' - 1) : IsExpr(m) /\ IsExpr(n) => m = n
        BY <2>2, <3>2
      <3> QED
        BY <1>2, <2>3, <2>4, <3>1, <3>3 DEF RightSoFar
    <2> QED
      BY <2>5, <2>6
  <1> QED
    BY <1>3, <1>5, <1>6 DEF IInv

(* A line that is no definition leaves those collected as they are.        *)
LEMMA DefsStay ==
    ASSUME IInv, phase = "parse", at' = at + 1, UNCHANGED <<options, source, phase, defs>>
    PROVE  DefsAreLines' /\ Len(defs') <= at
  <1>1. Len(Merged) \in Nat /\ at \in 1..(Len(Merged) + 1)
    BY MergedAt DEF IInv, Basics
  <1>2. Merged' = Merged /\ Duplicates' = Duplicates
    BY SameText
  <1>3. Len(defs) \in Nat /\ Len(defs) <= at - 1
    BY ListFacts DEF IInv, DefsAreLines, Counters
  <1>4. \A i \in 1..Len(defs) : \E m \in 1..Len(Merged) : m < at' /\ MakesDef(defs[i], Merged[m])
    <2>1. \A i \in 1..Len(defs) : \E m \in 1..Len(Merged) : m < at /\ MakesDef(defs[i], Merged[m])
      BY DEF IInv, DefsAreLines
    <2>2. \A m \in 1..Len(Merged) : m < at => m < at'
      BY <1>1
    <2> QED
      BY <2>1, <2>2
  <1> QED
    BY <1>1, <1>2, <1>3, <1>4 DEF IInv, DefsAreLines

(* A definition collected is that of a line that repeats none.             *)
LEMMA DefinitionStep ==
    ASSUME IInv, phase = "parse", at <= Len(Merged), NEW body, AddDefinition(body),
           MakesDef([name |-> Here.name, body |-> body], Here)
    PROVE  IInv'
  <1> DEFINE d == [name |-> Here.name, body |-> body]
  <1>1. /\ defs' = Append(defs, d) /\ at' = at + 1
        /\ UNCHANGED <<options, source, phase, expr, values, error>>
    BY DEF AddDefinition
  <1>2. Len(Merged) \in Nat /\ at \in 1..Len(Merged)
    BY MergedAt DEF IInv, Basics
  <1>3. Merged' = Merged /\ Duplicates' = Duplicates
    BY <1>1, SameText
  <1>4. IsAppended(defs', defs, d)
    BY <1>1, AppendedList DEF IInv, DefsAreLines
  <1>5. Len(defs) \in Nat /\ Len(defs) <= at - 1 /\ Duplicates = {}
    BY ListFacts DEF IInv, DefsAreLines, Counters
  <1>6. MakesDef(d, Merged[at]) /\ d.name = Merged[at].name
    BY DEF Here
  <1> HIDE DEF d
  <1>7. IsDef(Merged[at])
    BY <1>2, <1>6, MergedLines DEF IInv, Basics, MakesDef
  <1>8. \A i \in 1..Len(defs) : \E m \in 1..Len(Merged) : m < at /\ MakesDef(defs[i], Merged[m])
    BY DEF IInv, DefsAreLines
  <1>9. \A i \in 1..Len(defs) : defs[i].name # d.name
    <2> SUFFICES ASSUME NEW i \in 1..Len(defs), defs[i].name = d.name PROVE FALSE
      OBVIOUS
    <2>1. PICK m \in 1..Len(Merged) : m < at /\ MakesDef(defs[i], Merged[m])
      BY <1>8
    <2>2. Merged[m].name = Merged[at].name /\ IsDef(Merged[m])
      BY <1>6, <1>7, <2>1 DEF MakesDef, IsDef
    <2>3. Repeats(at)
      BY <1>2, <2>1, <2>2 DEF Repeats
    <2>4. at \in Duplicates
      BY <1>2, <1>7, <2>3 DEF Duplicates
    <2> QED
      BY <1>5, <2>4
  <1>10. \A i \in 1..Len(defs') : i \in 1..Len(defs) \/ i = Len(defs) + 1
    BY <1>4, <1>5 DEF IsAppended
  <1>11. /\ \A i \in 1..Len(defs) : defs'[i] = defs[i]
         /\ defs'[Len(defs) + 1] = d
    BY <1>4 DEF IsAppended
  <1>12. \A i \in 1..Len(defs') :
            \E m \in 1..Len(Merged) : m < at' /\ MakesDef(defs'[i], Merged[m])
    <2>1. at < at' /\ \A m \in 1..Len(Merged) : m < at => m < at'
      BY <1>1, <1>2
    <2> QED
      BY <1>2, <1>6, <1>8, <1>10, <1>11, <2>1
  <1>13. \A i, j \in 1..Len(defs') : defs'[i].name = defs'[j].name => i = j
    <2>1. \A i, j \in 1..Len(defs) : defs[i].name = defs[j].name => i = j
      BY DEF IInv, DefsAreLines
    <2> QED
      BY <1>9, <1>10, <1>11, <2>1
  <1>14. DefsAreLines' /\ Len(defs') <= at
    BY <1>1, <1>2, <1>3, <1>4, <1>5, <1>12, <1>13 DEF DefsAreLines, IsAppended
  <1>15. Here.kind # "bad" /\ Here.kind # "expr"
    BY <1>6 DEF MakesDef, CompoundOp, Here
  <1> QED
    BY <1>1, <1>14, <1>15, LineTaken

LEMMA ParseSteps ==
    IInv /\ (ParseBlank \/ ParseDefinition \/ ParseCompound \/ ParseExpression) => IInv'
  <1> SUFFICES ASSUME IInv PROVE (ParseBlank \/ ParseDefinition \/ ParseCompound
                                    \/ ParseExpression) => IInv'
    OBVIOUS
  <1>1. ASSUME ParseBlank PROVE IInv'
    <2>1. /\ phase = "parse" /\ at <= Len(Merged) /\ Here.kind = "blank" /\ at' = at + 1
          /\ UNCHANGED <<options, source, phase, defs, expr, values, error>>
      BY <1>1 DEF ParseBlank, Parsing
    <2> QED
      BY <2>1, DefsStay, LineTaken
  <1>2. ASSUME ParseDefinition PROVE IInv'
    <2>1. /\ phase = "parse" /\ at <= Len(Merged) /\ Here.kind = "def"
          /\ AddDefinition(Here.body)
      BY <1>2 DEF ParseDefinition, Parsing
    <2>2. MakesDef([name |-> Here.name, body |-> Here.body], Here)
      BY <2>1 DEF MakesDef
    <2> QED
      BY <2>1, <2>2, DefinitionStep
  <1>3. ASSUME ParseCompound PROVE IInv'
    <2>1. PICK op \in DOMAIN CompoundOp :
             /\ Parsing(op)
             /\ AddDefinition(NApp2(V(CompoundOp[op]), V(Here.name), Here.body))
      BY <1>3 DEF ParseCompound
    <2> DEFINE body == NApp2(V(CompoundOp[op]), V(Here.name), Here.body)
    <2>2. Here.kind \in DOMAIN CompoundOp /\ Here.kind # "def" /\ phase = "parse"
          /\ at <= Len(Merged) /\ AddDefinition(body)
      BY <2>1 DEF Parsing, CompoundOp
    <2> HIDE DEF body
    <2>3. MakesDef([name |-> Here.name, body |-> body], Here)
      BY <2>2 DEF MakesDef
    <2> QED
      BY <2>2, <2>3, DefinitionStep
  <1>4. ASSUME ParseExpression PROVE IInv'
    <2>1. /\ phase = "parse" /\ at <= Len(Merged) /\ Here.kind = "expr" /\ at' = at + 1
          /\ expr = NoTree /\ expr' = Here.body
          /\ UNCHANGED <<options, source, phase, defs, values, error>>
      BY <1>4 DEF ParseExpression, Parsing
    <2> QED
      BY <2>1, DefsStay, LineTaken
  <1> QED
    BY <1>1, <1>2, <1>3, <1>4

(* The end of the text, with its one expression.                           *)
LEMMA ParseEndStep == IInv /\ ParseEnd => IInv'
  <1> SUFFICES ASSUME IInv, ParseEnd PROVE IInv'
    OBVIOUS
  <1>1. /\ phase = "parse" /\ phase' = "lower" /\ at > Len(Merged) /\ at' = 1
        /\ UNCHANGED <<options, source, defs, expr, values, error>>
    BY DEF ParseEnd
  <1>2. Len(Merged) \in Nat /\ at \in 1..(Len(Merged) + 1)
    BY MergedAt DEF IInv, Basics
  <1>3. Merged' = Merged /\ Duplicates' = Duplicates
    BY <1>1, SameText
  <1>4. Len(defs) \in Nat /\ Len(defs) <= at - 1 /\ Len(values) = 0 /\ Duplicates = {}
    BY <1>1, ListFacts DEF IInv, DefsAreLines, Counters
  <1>5. Basics' /\ RejectedLineIsTheFirstWrong'
    BY <1>1, <1>2, NothingRefused DEF IInv
  <1>6. DefsAreLines'
    <2>1. \A i \in 1..Len(defs) : \E m \in 1..Len(Merged) : MakesDef(defs[i], Merged[m])
      BY DEF IInv, DefsAreLines
    <2> QED
      BY <1>1, <1>3, <1>4, <2>1 DEF IInv, DefsAreLines
  <1>7. ValuesAreDefs' /\ Counters' /\ RightSoFar'
    BY <1>1, <1>2, <1>3, <1>4 DEF IInv, ValuesAreDefs, Counters, RightSoFar
  <1> QED
    BY <1>5, <1>6, <1>7 DEF IInv

(* A definition lowered, those before it in sight.                         *)
LEMMA LowerDefinitionStep == IInv /\ LowerDefinition => IInv'
  <1> SUFFICES ASSUME IInv, LowerDefinition PROVE IInv'
    OBVIOUS
  <1> DEFINE w == [name |-> defs[at].name, value |-> LowerTree(defs[at].body, values)]
  <1>1. /\ phase = "lower" /\ phase' = "lower" /\ at <= Len(defs) /\ at' = at + 1
        /\ values' = Append(values, w)
        /\ UNCHANGED <<options, source, defs, expr, error>>
    BY DEF LowerDefinition
  <1>2. Len(Merged) \in Nat /\ Len(defs) \in Nat /\ Len(values) \in Nat
    BY MergedAt, ListFacts DEF IInv, Basics, DefsAreLines, ValuesAreDefs
  <1>3. Len(defs) <= Len(Merged) /\ at = Len(values) + 1 /\ at \in 1..Len(defs)
    BY <1>1, <1>2 DEF IInv, Counters
  <1>4. Merged' = Merged /\ Duplicates' = Duplicates
    BY <1>1, SameText
  <1>5. IsAppended(values', values, w)
    BY <1>1, AppendedList DEF IInv, ValuesAreDefs
  <1>6. w.name = defs[at].name /\ w.value = LowerTree(defs[at].body, values)
    OBVIOUS
  <1> HIDE DEF w
  <1>7. Basics' /\ RejectedLineIsTheFirstWrong'
    BY <1>1, <1>2, <1>3, NothingRefused DEF IInv
  <1>8. DefsAreLines'
    BY <1>1, <1>4 DEF IInv, DefsAreLines
  <1>9. Len(values') = Len(values) + 1 /\ IsList(values')
    BY <1>5 DEF IsAppended
  <1>10. \A i \in 1..Len(values') :
            /\ values'[i].name = defs[i].name
            /\ values'[i].value = LowerTree(defs[i].body, SubSeq(values', 1, i - 1))
    <2>1. ASSUME NEW i \in 1..Len(values)
          PROVE  /\ values'[i].name = defs[i].name
                 /\ values'[i].value = LowerTree(defs[i].body, SubSeq(values', 1, i - 1))
      <3>1. i - 1 \in 0..Len(values)
        BY <1>2
      <3>2. values'[i] = values[i] /\ SubSeq(values', 1, i - 1) = SubSeq(values, 1, i - 1)
        BY <1>5, <3>1 DEF IsAppended
      <3> QED
        BY <3>2 DEF IInv, ValuesAreDefs
    <2>2. /\ values'[at].name = defs[at].name
          /\ values'[at].value = LowerTree(defs[at].body, SubSeq(values', 1, at - 1))
      <3>1. at - 1 = Len(values)
        BY <1>2, <1>3
      <3>2. values'[at] = w /\ SubSeq(values', 1, at - 1) = values
        BY <1>3, <1>5, <3>1 DEF IsAppended
      <3> QED
        BY <1>6, <3>2
    <2>3. \A i \in 1..Len(values') : i \in 1..Len(values) \/ i = at
      BY <1>2, <1>3, <1>9
    <2> QED
      BY <2>1, <2>2, <2>3
  <1>11. ValuesAreDefs' /\ Counters' /\ RightSoFar'
    BY <1>1, <1>2, <1>3, <1>4, <1>9, <1>10 DEF ValuesAreDefs, Counters, RightSoFar
  <1> QED
    BY <1>7, <1>8, <1>11 DEF IInv

LEMMA LowerExpressionStep == IInv /\ LowerExpression => IInv'
  <1> SUFFICES ASSUME IInv, LowerExpression PROVE IInv'
    OBVIOUS
  <1>1. /\ phase = "lower" /\ phase' = "lowered"
        /\ UNCHANGED <<options, source, at, defs, expr, values, error>>
    BY DEF LowerExpression
  <1>2. Merged' = Merged /\ Duplicates' = Duplicates
    BY <1>1, SameText
  <1>3. Basics' /\ RejectedLineIsTheFirstWrong'
    BY <1>1, NothingRefused DEF IInv, Basics
  <1>4. DefsAreLines' /\ ValuesAreDefs' /\ Counters' /\ RightSoFar'
    BY <1>1, <1>2 DEF IInv, DefsAreLines, ValuesAreDefs, Counters, RightSoFar
  <1> QED
    BY <1>3, <1>4 DEF IInv

-----------------------------------------------------------------------------
(* No name is injected twice: a name defined twice is defined again by the *)
(* source, on a line that is rebased to one of it.                         *)
LEMMA DuplicateInSource ==
    ASSUME options \in Options, source \in Sources, NEW n \in Duplicates
    PROVE  /\ Rebase(n) = n - Len(Injected) /\ Rebase(n) \in 1..Len(source)
           /\ n = Len(Injected) + Rebase(n)
           /\ Merged[n] = source[Rebase(n)]
  <1>1. /\ Len(Injected) \in Nat /\ Len(source) \in Nat
        /\ Len(Merged) = Len(Injected) + Len(source)
    BY MergedAt
  <1>2. n \in 1..Len(Merged) /\ Repeats(n)
    BY DEF Duplicates
  <1>3. PICK m \in 1..(n - 1) : IsDef(Merged[m]) /\ Merged[m].name = Merged[n].name
    BY <1>2 DEF Repeats
  <1>4. n > Len(Injected)
    <2> SUFFICES ASSUME n <= Len(Injected) PROVE FALSE
      BY <1>1, <1>2
    <2>1. m \in 1..Len(Injected) /\ n \in 1..Len(Injected) /\ m # n
      BY <1>1, <1>2
    <2>2. Merged[m] = Injected[m] /\ Merged[n] = Injected[n]
      BY <2>1, MergedAt
    <2> QED
      BY <1>3, <2>1, <2>2, InjectedDiffer
  <1> QED
    BY <1>1, <1>2, <1>4, MergedAt DEF Rebase

(* What a program is refused for.                                          *)
LEMMA DuplicateStep == IInv /\ RejectDuplicate => IInv'
  <1> SUFFICES ASSUME IInv, RejectDuplicate PROVE IInv'
    OBVIOUS
  <1>1. phase = "scan"
    BY DEF RejectDuplicate
  <1>2. PICK n \in Duplicates : /\ \A m \in Duplicates : n <= m
                                /\ Fail(Error("duplicate", Rebase(n), Merged[n].name))
    BY DEF RejectDuplicate
  <1>3. /\ Len(Injected) \in Nat /\ Len(source) \in Nat
        /\ Len(Merged) = Len(Injected) + Len(source)
    BY MergedAt DEF IInv, Basics
  <1>4. n \in 1..Len(Merged) /\ IsDef(Merged[n]) /\ Repeats(n)
    BY DEF Duplicates
  <1>5. /\ Rebase(n) = n - Len(Injected) /\ Rebase(n) \in 1..Len(source)
        /\ Merged[n] = source[Rebase(n)]
    BY DuplicateInSource DEF IInv, Basics
  <1> DEFINE e == Error("duplicate", Rebase(n), Merged[n].name)
  <1>6. e.kind = "duplicate" /\ e.line = Rebase(n) /\ e.name = Merged[n].name
    BY DEF Error
  <1> HIDE DEF e
  <1>7. \A k \in 1..(Rebase(n) - 1) : ~Repeats(Len(Injected) + k)
    <2> SUFFICES ASSUME NEW k \in 1..(Rebase(n) - 1), Repeats(Len(Injected) + k) PROVE FALSE
      OBVIOUS
    <2> DEFINE l == Len(Injected) + k
    <2>1. l \in 1..Len(Merged) /\ l < n
      BY <1>3, <1>4, <1>5
    <2>2. IsDef(Merged[l])
      BY DEF Repeats, IsDef
    <2>3. l \in Duplicates
      BY <2>1, <2>2 DEF Duplicates
    <2> QED
      BY <1>2, <1>4, <2>1, <2>3
  <1>8. RightlyRejected(e)
    BY <1>4, <1>5, <1>6, <1>7 DEF RightlyRejected
  <1>9. e.line \in 0..Len(Merged)
    BY <1>3, <1>5, <1>6
  <1>10. Fail(e)
    BY <1>2 DEF e
  <1> QED
    BY <1>1, <1>6, <1>8, <1>9, <1>10, Refused

(* Once the source is reached no word has come, and nothing was wrong.     *)
LEMMA RightAbove ==
    ASSUME IInv, phase = "parse", at <= Len(Merged), at > Len(Injected)
    PROVE  Words = {} /\ \A n \in 1..(at - Len(Injected) - 1) : ~WrongLine(n)
  <1>1. /\ Len(Injected) \in Nat /\ Len(source) \in Nat /\ at \in 1..Len(Merged)
        /\ Len(Merged) = Len(Injected) + Len(source)
    BY MergedAt DEF IInv, Basics
  <1>2. /\ \A m \in 1..(at - 1) : Merged[m].kind # "bad"
        /\ \A m, n \in 1..(at - 1) : IsExpr(m) /\ IsExpr(n) => m = n
    BY DEF IInv, RightSoFar
  <1>3. Words = {}
    <2> SUFFICES ASSUME NEW w \in Words PROVE FALSE
      OBVIOUS
    <2>1. WordLine(w) \in 1..Len(Injected) /\ Injected[WordLine(w)].kind = "bad"
      BY BadLines DEF IInv, Basics
    <2>2. Merged[WordLine(w)].kind = "bad" /\ WordLine(w) \in 1..(at - 1)
      BY <1>1, <2>1, MergedAt DEF IInv, Basics
    <2> QED
      BY <1>2, <2>2
  <1>4. ASSUME NEW n \in 1..(at - Len(Injected) - 1), WrongLine(n) PROVE FALSE
    <2>1. /\ Len(Injected) + n \in 1..(at - 1) /\ n \in 1..Len(source)
          /\ \A m \in 1..(n - 1) : /\ Len(Injected) + m \in 1..(at - 1) /\ m \in 1..Len(source)
                                   /\ Len(Injected) + m # Len(Injected) + n
      BY <1>1
    <2>2. Merged[Len(Injected) + n] = source[n]
      BY <2>1, MergedAt DEF IInv, Basics
    <2>3. source[n].kind # "bad"
      BY <1>2, <2>1, <2>2
    <2>4. PICK m \in 1..(n - 1) : source[n].kind = "expr" /\ source[m].kind = "expr"
      BY <1>4, <2>3 DEF WrongLine
    <2>5. Merged[Len(Injected) + m] = source[m]
      BY <2>1, MergedAt DEF IInv, Basics
    <2>6. IsExpr(Len(Injected) + n) /\ IsExpr(Len(Injected) + m)
      BY <2>2, <2>4, <2>5 DEF IsExpr
    <2> QED
      BY <1>2, <2>1, <2>6
  <1> QED
    BY <1>3, <1>4

LEMMA SyntaxStep == IInv /\ RejectSyntax => IInv'
  <1> SUFFICES ASSUME IInv, RejectSyntax PROVE IInv'
    OBVIOUS
  <1> DEFINE e == Error("syntax", Rebase(at), "")
  <1>1. phase = "parse" /\ at <= Len(Merged) /\ Merged[at].kind = "bad" /\ Fail(e)
    BY DEF RejectSyntax, Parsing, Here
  <1>2. e.kind = "syntax" /\ e.line = Rebase(at)
    BY DEF Error
  <1> HIDE DEF e
  <1>3. /\ Len(Injected) \in Nat /\ Len(source) \in Nat /\ at \in 1..Len(Merged)
        /\ Len(Merged) = Len(Injected) + Len(source)
    BY <1>1, MergedAt DEF IInv, Basics
  <1>4. CASE at > Len(Injected)
    <2>1. /\ Rebase(at) = at - Len(Injected) /\ Rebase(at) \in 1..Len(source)
          /\ Merged[at] = source[Rebase(at)]
      BY <1>3, <1>4, MergedAt DEF IInv, Basics, Rebase
    <2>2. Words = {} /\ \A n \in 1..(Rebase(at) - 1) : ~WrongLine(n)
      BY <1>1, <1>4, <2>1, RightAbove
    <2>3. WrongLine(Rebase(at))
      BY <1>1, <2>1 DEF WrongLine
    <2>4. RightlyRejected(e) /\ e.line \in 0..Len(Merged)
      BY <1>2, <1>3, <2>1, <2>2, <2>3 DEF RightlyRejected
    <2> QED
      BY <1>1, <1>2, <2>4, Refused
  <1>5. CASE ~(at > Len(Injected))
    <2>1. Rebase(at) = at /\ at \in 1..Len(Injected)
      BY <1>3, <1>5 DEF Rebase
    <2>2. \A m \in 1..(at - 1) : m \in 1..Len(Injected) /\ Merged[m].kind # "bad"
      BY <1>1, <1>3, <2>1 DEF IInv, RightSoFar
    <2>3. Merged[at] = Injected[at] /\ \A m \in 1..(at - 1) : Merged[m] = Injected[m]
      BY <2>1, <2>2, MergedAt DEF IInv, Basics
    <2>4. Injected[at].name = GivenNames[Earliest(Words)]
      BY <1>1, <2>1, <2>2, <2>3, FirstBadLine DEF IInv, Basics
    <2>5. Words # {}
      BY <1>1, <2>1, <2>3, BadLines DEF IInv, Basics
    <2>6. RightlyRejected(e) /\ e.line \in 0..Len(Merged)
      BY <1>2, <1>3, <2>1, <2>3, <2>4, <2>5 DEF RightlyRejected
    <2> QED
      BY <1>1, <1>2, <2>6, Refused
  <1> QED
    BY <1>4, <1>5

LEMMA SecondExpressionStep == IInv /\ RejectSecondExpression => IInv'
  <1> SUFFICES ASSUME IInv, RejectSecondExpression PROVE IInv'
    OBVIOUS
  <1> DEFINE e == Error("multiple expressions", Rebase(at), "")
  <1>1. /\ phase = "parse" /\ at <= Len(Merged) /\ Merged[at].kind = "expr" /\ Fail(e)
        /\ expr # NoTree
    BY DEF RejectSecondExpression, Parsing, Here
  <1>2. e.kind = "multiple expressions" /\ e.line = Rebase(at)
    BY DEF Error
  <1> HIDE DEF e
  <1>3. /\ Len(Injected) \in Nat /\ Len(source) \in Nat /\ at \in 1..Len(Merged)
        /\ Len(Merged) = Len(Injected) + Len(source)
    BY <1>1, MergedAt DEF IInv, Basics
  <1>4. at > Len(Injected)
    BY <1>1, <1>3, MergedLines DEF IInv, Basics
  <1>5. /\ Rebase(at) = at - Len(Injected) /\ Rebase(at) \in 1..Len(source)
        /\ Merged[at] = source[Rebase(at)]
    BY <1>3, <1>4, MergedAt DEF IInv, Basics, Rebase
  <1>6. Words = {} /\ \A n \in 1..(Rebase(at) - 1) : ~WrongLine(n)
    BY <1>1, <1>4, <1>5, RightAbove
  <1>7. PICK m \in 1..(at - 1) : IsExpr(m)
    BY <1>1 DEF IInv, RightSoFar
  <1>8. m > Len(Injected) /\ m \in 1..Len(Merged)
    BY <1>3, <1>7, MergedLines DEF IInv, Basics, IsExpr
  <1>9. m - Len(Injected) \in 1..(Rebase(at) - 1) /\ source[m - Len(Injected)].kind = "expr"
    BY <1>3, <1>5, <1>7, <1>8, MergedAt DEF IInv, Basics, IsExpr
  <1>10. WrongLine(Rebase(at))
    BY <1>1, <1>5, <1>9 DEF WrongLine
  <1>11. RightlyRejected(e)
    BY <1>2, <1>6, <1>10 DEF RightlyRejected
  <1>12. Rebase(at) \in 0..Len(Merged)
    BY <1>3, <1>5
  <1>13. e.line \in 0..Len(Merged)
    BY <1>2, <1>12, Zenon
  <1> QED
    BY <1>1, <1>2, <1>11, <1>13, Refused

LEMMA NoExpressionStep == IInv /\ RejectNoExpression => IInv'
  <1> SUFFICES ASSUME IInv, RejectNoExpression PROVE IInv'
    OBVIOUS
  <1> DEFINE e == Error("no expression", 0, "")
  <1>1. phase = "parse" /\ Fail(e)
    BY DEF RejectNoExpression
  <1>2. e.kind = "no expression" /\ e.line = 0
    BY DEF Error
  <1> HIDE DEF e
  <1>3. Len(Merged) \in Nat
    BY MergedAt DEF IInv, Basics
  <1>4. RightlyRejected(e)
    BY <1>2 DEF RightlyRejected
  <1>5. 0 \in 0..Len(Merged)
    BY <1>3
  <1>6. e.line \in 0..Len(Merged)
    BY <1>2, <1>5, Zenon
  <1> QED
    BY <1>1, <1>2, <1>4, <1>6, Refused

LEMMA ForwardStep == IInv /\ RefuseForward => IInv'
  <1> SUFFICES ASSUME IInv, RefuseForward PROVE IInv'
    OBVIOUS
  <1> DEFINE x == Unresolved(LowerTree(expr, values))[1]
             e == Error("forward", 0, x)
  <1>1. phase = "lower" /\ Fail(e)
    BY DEF RefuseForward
  <1>2. e.kind = "forward" /\ e.line = 0
    BY DEF Error
  <1> HIDE DEF e
  <1>3. Len(Merged) \in Nat
    BY MergedAt DEF IInv, Basics
  <1>4. RightlyRejected(e)
    BY <1>2 DEF RightlyRejected
  <1>5. 0 \in 0..Len(Merged)
    BY <1>3
  <1>6. e.line \in 0..Len(Merged)
    BY <1>2, <1>5, Zenon
  <1> QED
    BY <1>1, <1>2, <1>4, <1>6, Refused

-----------------------------------------------------------------------------
LEMMA NextInv == IInv /\ [Next]_vars => IInv'
  <1>1. IInv /\ Next => IInv'
    BY ScanStep, DuplicateStep, ParseSteps, SecondExpressionStep, SyntaxStep, ParseEndStep,
       NoExpressionStep, LowerDefinitionStep, LowerExpressionStep, ForwardStep DEF Next
  <1>2. IInv /\ UNCHANGED vars => IInv'
    <2> SUFFICES ASSUME IInv, UNCHANGED vars PROVE IInv'
      OBVIOUS
    <2>1. UNCHANGED <<options, source, phase, at, defs, expr, values, error>>
      BY DEF vars
    <2>2. Merged' = Merged /\ Duplicates' = Duplicates
      BY <2>1, SameText
    <2>3. Basics' /\ DefsAreLines' /\ ValuesAreDefs' /\ Counters' /\ RightSoFar'
      BY <2>1, <2>2 DEF IInv, Basics, DefsAreLines, ValuesAreDefs, Counters, RightSoFar, IsExpr
    <2>4. RejectedLineIsTheFirstWrong'
      BY <2>1, SameText DEF IInv, RejectedLineIsTheFirstWrong, GivenNames
    <2> QED
      BY <2>3, <2>4 DEF IInv
  <1> QED
    BY <1>1, <1>2

(* The inductive invariant holds throughout.                               *)
THEOREM InvariantHolds == Spec => []IInv
  BY InitInv, NextInv, PTL DEF Spec

(* The counter stays in the merged text (parser_parse_program) and in the  *)
(* definitions (value_from_program), the definitions lowered are the first *)
(* ones under their own names, and an error is on a line that is.          *)
THEOREM TypeCorrect == Spec => []TypeOK
  <1>1. IInv => TypeOK
    BY DEF IInv, Basics, ValuesAreDefs, TypeOK
  <1> QED
    BY <1>1, InvariantHolds, PTL

(* The line an error is reported on, rebased (rebase_parse_error_lines), is *)
(* the first wrong line of the source the user sees, unless an argument is *)
(* a word of the language.                                                 *)
THEOREM FirstWrongLine == Spec => []RejectedLineIsTheFirstWrong
  <1>1. IInv => RejectedLineIsTheFirstWrong
    BY DEF IInv
  <1> QED
    BY <1>1, InvariantHolds, PTL

-----------------------------------------------------------------------------
(* The definition of an argument's name is the line that was put there for *)
(* the argument: it is the only one of that name.                          *)
LEMMA ArgumentLine ==
    ASSUME IInv, NEW n \in 1..Argc, NEW i \in 1..Len(defs), defs[i].name = ArgNames[n]
    PROVE  defs[i].body = NVar(SymbolFromText(options.args[n]))
  <1> DEFINE line == SymbolDef(ArgNames[n], options.args[n])
             p == PreludeLen + 7 + n
  <1>1. PICK m \in 1..Len(Merged) : MakesDef(defs[i], Merged[m])
    BY DEF IInv, DefsAreLines
  <1>2. Len(defs) \in Nat /\ Len(defs) > 0
    BY ListFacts DEF IInv, DefsAreLines
  <1>3. Duplicates = {}
    BY <1>2 DEF IInv, DefsAreLines
  <1>4. /\ PreludeLen \in Nat /\ Argc \in Nat /\ Argc <= Len(ArgNames) /\ Len(ArgNames) \in Nat
        /\ Len(Injected) = PreludeLen + 9 + Argc /\ Len(source) \in Nat
        /\ Len(Merged) = Len(Injected) + Len(source)
    <2>1. options \in Options /\ source \in Sources
      BY DEF IInv, Basics
    <2>2. PreludeLen \in Nat
      BY <2>1, Pieces
    <2> QED
      BY <2>1, <2>2, OptionFacts, InjectedAt, MergedAt
  <1>5. p \in 1..Len(Injected) /\ p \in 1..Len(Merged) /\ n \in 1..Len(ArgNames)
    BY <1>4
  <1>6. Merged[p] = line
    <2>1. Injected[p] = line
      BY InjectedAt DEF IInv, Basics
    <2> QED
      BY <1>5, <2>1, MergedAt DEF IInv, Basics
  <1> HIDE DEF p, line
  <1>7. /\ line.name = ArgNames[n] /\ line.kind \in {"bad", "def"}
        /\ line.kind = "def" => line.body = NVar(SymbolFromText(options.args[n]))
    BY SymbolLines DEF line
  <1>8. ArgNames[n] # ""
    <2>1. ArgNames[n] \in STRING \ ({""} \cup Builtins)
      BY <1>5, ArgsAssumption, ElementOfSeq
    <2> QED
      BY <2>1
  <1>9. IsDef(Merged[m]) /\ IsDef(Merged[p]) /\ Merged[m].name = Merged[p].name
    BY <1>1, <1>6, <1>7, <1>8 DEF MakesDef, IsDef
  <1>10. m = p
    <2>1. ASSUME m < p PROVE FALSE
      <3>1. Repeats(p)
        BY <1>5, <1>9, <2>1 DEF Repeats
      <3> QED
        BY <1>3, <1>5, <1>9, <3>1 DEF Duplicates
    <2>2. ASSUME p < m PROVE FALSE
      <3>1. Repeats(m)
        BY <1>5, <1>9, <2>2 DEF Repeats
      <3> QED
        BY <1>3, <1>9, <3>1 DEF Duplicates
    <2> QED
      BY <1>5, <2>1, <2>2
  <1>11. line.kind = "def" /\ defs[i].body = line.body
    BY <1>1, <1>6, <1>7, <1>10 DEF MakesDef, CompoundOp
  <1> QED
    BY <1>7, <1>11

(* What the trees of the symbols are lowered to (lower_name_reference).    *)
SymbolsAreReferences ==
    \A t \in STRING : \A vals : IsList(vals) => NameRule(SymbolFromText(t), vals)

LEMMA ArgumentValues == IInv /\ SymbolsAreReferences => ArgsAreSymbolsUnlessDefined
  <1> SUFFICES ASSUME IInv, SymbolsAreReferences, NEW n \in 1..Argc,
                      Lowered(ArgNames[n], values) # {}
               PROVE  LET arg   == SymbolFromText(options.args[n])
                          place == Lowered(ArgNames[n], values)
                          above == SubSeq(values, 1, Latest(place) - 1)
                          value == values[Latest(place)].value
                      IN  /\ Lowered(arg, above) # {}
                                => value = above[Latest(Lowered(arg, above))].value
                          /\ Lowered(arg, above) = {} /\ Subscript(arg).index = <<>>
                                => value = FreeVar(arg)
                          /\ Lowered(arg, above) = {} /\ Subscript(arg).index # <<>>
                                => value = LowerTree(V(arg), above)
    BY DEF ArgsAreSymbolsUnlessDefined, Argc
  <1> DEFINE arg   == SymbolFromText(options.args[n])
             place == Lowered(ArgNames[n], values)
             i     == Latest(place)
             above == SubSeq(values, 1, i - 1)
  <1>1. PICK k : k \in place
    OBVIOUS
  <1>2. /\ IsList(values) /\ Len(values) \in Nat /\ Len(defs) \in Nat
        /\ Len(values) <= Len(defs)
    BY ListFacts DEF IInv, ValuesAreDefs, DefsAreLines
  <1>3. \A j \in 1..Len(values) :
           /\ j \in 1..Len(defs) /\ values[j].name = defs[j].name
           /\ values[j].value = LowerTree(defs[j].body, SubSeq(values, 1, j - 1))
    BY <1>2 DEF IInv, ValuesAreDefs
  <1>4. \A j \in place : /\ j \in 1..Len(values) /\ values[j].name = ArgNames[n]
                         /\ defs[j].name = ArgNames[n]
    BY <1>3 DEF Lowered
  <1>5. \A j \in place : j = k
    BY <1>1, <1>3, <1>4 DEF IInv, DefsAreLines
  <1>6. i = k
    <2>1. place = {k}
      BY <1>1, <1>5
    <2>2. k \in Int
      BY <1>1, <1>4
    <2> HIDE DEF place
    <2> QED
      BY <2>1, <2>2 DEF Latest
  <1>7. i \in 1..Len(values) /\ i \in 1..Len(defs) /\ defs[i].name = ArgNames[n]
    BY <1>1, <1>3, <1>4, <1>6
  <1> HIDE DEF place, i
  <1>8. values[i].value = LowerTree(V(arg), above)
    BY <1>3, <1>7, ArgumentLine DEF V
  <1>9. NameRule(arg, above)
    <2>1. i - 1 \in 0..Len(values) /\ options.args[n] \in STRING
      <3>1. options.args \in Seq(STRING)
        BY OptionFacts DEF IInv, Basics
      <3> QED
        BY <1>2, <1>7, <3>1, ElementOfSeq DEF Argc
    <2>2. IsList(above)
      BY <1>2, <2>1, FirstOnes
    <2> QED
      BY <2>1, <2>2 DEF SymbolsAreReferences
  <1> HIDE DEF arg, above
  <1>10. /\ Lowered(arg, above) # {} => values[i].value = above[Latest(Lowered(arg, above))].value
         /\ Lowered(arg, above) = {} /\ Subscript(arg).index = <<>> => values[i].value = FreeVar(arg)
         /\ Lowered(arg, above) = {} /\ Subscript(arg).index # <<>>
               => values[i].value = LowerTree(V(arg), above)
    BY <1>8, <1>9 DEF NameRule
  <1> QED
    BY <1>10 DEF arg, above, i, place

(* An argument (buf_append_arg_builtins) is the symbol it was given as,    *)
(* unless a definition above it has that name or it is a subscript; what   *)
(* stands below it changes nothing.  This is for any lowering of trees     *)
(* that looks a name up as lower_name_reference does.                      *)
THEOREM ArgumentsAreSymbols ==
    ASSUME SymbolsAreReferences
    PROVE  Spec => []ArgsAreSymbolsUnlessDefined
  <1>1. IInv => ArgsAreSymbolsUnlessDefined
    BY ArgumentValues
  <1> QED
    BY <1>1, InvariantHolds, PTL

-----------------------------------------------------------------------------
(* What a program that is lowered was read from: every definition line of  *)
(* the merged text has become one definition, in the order of the lines,   *)
(* and the only expression line the expression.                            *)
Assigns(l) == l.kind \in {"def"} \cup DOMAIN CompoundOp
LineDef(l) ==
    [name |-> l.name,
     body |-> IF l.kind = "def" THEN l.body
              ELSE NApp2(V(CompoundOp[l.kind]), V(l.name), l.body)]
Makes(l, d) == Assigns(l) /\ d = LineDef(l)

DefsRead(lines, k, ds) ==
    /\ \A m \in 1..k : Assigns(lines[m]) => \E i \in 1..Len(ds) : Makes(lines[m], ds[i])
    /\ \A i \in 1..Len(ds) : \E m \in 1..k : Makes(lines[m], ds[i])
    /\ \A m, n \in 1..k : \A i, j \in 1..Len(ds) :
          Makes(lines[m], ds[i]) /\ Makes(lines[n], ds[j]) => (m < n <=> i < j)

ExprRead(lines, k, e) ==
    /\ \A m \in 1..k : lines[m].kind = "expr" => e = lines[m].body
    /\ \A m, n \in 1..k : lines[m].kind = "expr" /\ lines[n].kind = "expr" => m = n
    /\ e # NoTree => \E m \in 1..k : lines[m].kind = "expr"

Read(lines, k, ds, e) ==
    /\ \A m \in 1..k : lines[m].kind # "bad"
    /\ DefsRead(lines, k, ds)
    /\ ExprRead(lines, k, e)

(* A name reported as defined twice is defined above the line reported.    *)
DuplicateIsDuplicate ==
    error.kind = "duplicate" =>
        /\ error.line \in 1..Len(source)
        /\ source[error.line].name = error.name
        /\ Repeats(Len(Injected) + error.line)

ReadInv ==
    /\ phase = "parse" => Read(Merged, at - 1, defs, expr)
    /\ phase \in {"lower", "lowered"} =>
          Read(Merged, Len(Merged), defs, expr) /\ expr # NoTree
    /\ DuplicateIsDuplicate

LEMMA OneLine ==
    ASSUME options \in Options, source \in Sources, Duplicates = {},
           NEW m \in 1..Len(Merged), NEW n \in 1..Len(Merged),
           IsDef(Merged[m]), Merged[m].name = Merged[n].name
    PROVE  m = n
  <1>1. Len(Merged) \in Nat /\ IsDef(Merged[n])
    <2>1. Len(Merged) \in Nat
      BY MergedAt
    <2> QED
      BY <2>1 DEF IsDef
  <1>2. ASSUME m < n PROVE FALSE
    <2>1. Repeats(n)
      BY <1>1, <1>2 DEF Repeats
    <2> QED
      BY <1>1, <2>1 DEF Duplicates
  <1>3. ASSUME n < m PROVE FALSE
    <2>1. Repeats(m)
      BY <1>1, <1>3 DEF Repeats
    <2> QED
      BY <1>1, <2>1 DEF Duplicates
  <1> QED
    BY <1>1, <1>2, <1>3

LEMMA ReportStays ==
    ASSUME UNCHANGED <<options, source>>, DuplicateIsDuplicate,
           error' = error \/ error'.kind # "duplicate"
    PROVE  DuplicateIsDuplicate'
  BY SameText DEF DuplicateIsDuplicate

LEMMA ReadInit == Init => ReadInv
  BY NoErrorIs DEF Init, ReadInv, DuplicateIsDuplicate

(* The lines down to the one being parsed.                                 *)
LEMMA LinesTo ==
    ASSUME IInv, phase = "parse", at <= Len(Merged)
    PROVE  /\ at \in Nat \ {0} /\ at \in 1..Len(Merged) /\ Len(Merged) \in Nat /\ at \in 1..at
           /\ \A m \in 1..at : m \in 1..(at - 1) \/ m = at
           /\ \A m \in 1..(at - 1) : m \in 1..at /\ m \in 1..Len(Merged) /\ m < at /\ m # at
                                     /\ ~ (at < m)
  BY MergedAt DEF IInv, Basics

(* One line more that defines nothing.                                     *)
LEMMA ReadOn ==
    ASSUME IInv, phase = "parse", at <= Len(Merged), ~ Assigns(Merged[at]),
           DefsRead(Merged, at - 1, defs)
    PROVE  DefsRead(Merged, at, defs)
  BY LinesTo DEF DefsRead, Makes

LEMMA ReadNoExpression ==
    ASSUME IInv, phase = "parse", at <= Len(Merged), Merged[at].kind # "expr",
           ExprRead(Merged, at - 1, expr)
    PROVE  ExprRead(Merged, at, expr)
  BY LinesTo DEF ExprRead

(* The one expression.                                                     *)
LEMMA ReadExpression ==
    ASSUME IInv, phase = "parse", at <= Len(Merged), Merged[at].kind = "expr",
           expr = NoTree, ExprRead(Merged, at - 1, expr)
    PROVE  ExprRead(Merged, at, Merged[at].body)
  <1>1. \A m \in 1..(at - 1) : Merged[m].kind # "expr"
    <2> SUFFICES ASSUME NEW m \in 1..(at - 1), Merged[m].kind = "expr" PROVE FALSE
      OBVIOUS
    <2>1. m \in 1..Len(Merged) /\ expr = Merged[m].body
      BY LinesTo DEF ExprRead
    <2> QED
      BY <2>1, MergedLines DEF IInv, Basics
  <1> QED
    BY <1>1, LinesTo DEF ExprRead

(* One definition more, of a name no line above defines.                   *)
LEMMA ReadDefinition ==
    ASSUME IInv, phase = "parse", at <= Len(Merged), Assigns(Merged[at]),
           DefsRead(Merged, at - 1, defs), NEW ds, IsAppended(ds, defs, LineDef(Merged[at]))
    PROVE  DefsRead(Merged, at, ds)
  <1> DEFINE d == LineDef(Merged[at])
             n == Len(defs)
  <1>1. /\ at \in 1..at
        /\ \A m \in 1..at : m \in 1..(at - 1) \/ m = at
        /\ \A m \in 1..(at - 1) : m \in 1..at /\ m \in 1..Len(Merged) /\ m < at /\ ~ (at < m)
        /\ at \in 1..Len(Merged) /\ ~ (at < at)
    BY LinesTo
  <1>2. /\ Len(ds) = n + 1 /\ ds[n + 1] = d /\ n \in Nat
        /\ \A i \in 1..n : ds[i] = defs[i]
        /\ \A i \in 1..(n + 1) : i \in 1..n \/ i = n + 1
        /\ \A i \in 1..n : i \in 1..(n + 1) /\ i < n + 1 /\ ~ (n + 1 < i)
        /\ n + 1 \in 1..(n + 1) /\ ~ (n + 1 < n + 1)
    <2>1. n \in Nat
      BY ListFacts DEF IInv, DefsAreLines
    <2> QED
      BY <2>1 DEF IsAppended
  <1>3. Makes(Merged[at], d) /\ d.name = Merged[at].name /\ IsDef(Merged[at])
    BY <1>1, MergedLines DEF IInv, Basics, Assigns, LineDef, Makes
  <1>4. Duplicates = {}
    BY DEF IInv, DefsAreLines
  <1> HIDE DEF d
  <1>5. \A m \in 1..(at - 1) : ~ Makes(Merged[m], d)
    <2> SUFFICES ASSUME NEW m \in 1..(at - 1), Makes(Merged[m], d) PROVE FALSE
      OBVIOUS
    <2>1. Merged[m].name = Merged[at].name
      BY <1>3 DEF LineDef, Makes
    <2>2. IsDef(Merged[m])
      BY <1>3, <2>1 DEF IsDef
    <2>3. m = at
      BY <1>1, <1>4, <2>1, <2>2, OneLine DEF IInv, Basics
    <2> QED
      BY <1>1, <2>3
  <1>6. \A i \in 1..n : ~ Makes(Merged[at], defs[i])
    <2> SUFFICES ASSUME NEW i \in 1..n, Makes(Merged[at], defs[i]) PROVE FALSE
      OBVIOUS
    <2>1. PICK m \in 1..(at - 1) : Makes(Merged[m], defs[i])
      BY DEF DefsRead
    <2>2. defs[i] = d
      BY DEF Makes, d
    <2> QED
      BY <1>5, <2>1, <2>2
  <1> HIDE DEF n
  <1>7. \A m \in 1..at : Assigns(Merged[m]) => \E i \in 1..(n + 1) : Makes(Merged[m], ds[i])
    BY <1>1, <1>2, <1>3 DEF DefsRead, n
  <1>8. \A i \in 1..(n + 1) : \E m \in 1..at : Makes(Merged[m], ds[i])
    BY <1>1, <1>2, <1>3 DEF DefsRead, n
  <1>9. ASSUME NEW a \in 1..at, NEW b \in 1..at, NEW i \in 1..(n + 1), NEW j \in 1..(n + 1),
               Makes(Merged[a], ds[i]), Makes(Merged[b], ds[j])
        PROVE  a < b <=> i < j
    <2>1. /\ (a = at /\ i = n + 1) \/ (a \in 1..(at - 1) /\ i \in 1..n)
          /\ (b = at /\ j = n + 1) \/ (b \in 1..(at - 1) /\ j \in 1..n)
      BY <1>1, <1>2, <1>5, <1>6, <1>9
    <2>2. CASE a \in 1..(at - 1) /\ i \in 1..n /\ b \in 1..(at - 1) /\ j \in 1..n
      BY <1>2, <1>9, <2>2 DEF DefsRead, n
    <2> QED
      BY <1>1, <1>2, <2>1, <2>2
  <1> QED
    BY <1>2, <1>7, <1>8, <1>9 DEF DefsRead

-----------------------------------------------------------------------------
(* The text merged is the same throughout, and so is what was read of it.  *)
LEMMA ReadRests ==
    ASSUME ReadInv, UNCHANGED <<options, source, defs, expr>>, DuplicateIsDuplicate',
           phase' = "parse" => phase = "parse" /\ at' = at,
           phase' \in {"lower", "lowered"} => phase \in {"lower", "lowered"}
    PROVE  ReadInv'
  <1>1. Merged' = Merged
    BY SameText
  <1> QED
    BY <1>1 DEF ReadInv

LEMMA ReadLine ==
    ASSUME IInv, ReadInv, phase = "parse", at <= Len(Merged), Merged[at].kind # "bad",
           UNCHANGED <<options, source, phase, error>>, at' = at + 1,
           DefsRead(Merged, at, defs'), ExprRead(Merged, at, expr')
    PROVE  ReadInv'
  <1>1. Merged' = Merged
    BY SameText
  <1>2. at' - 1 = at
    BY LinesTo
  <1>3. \A m \in 1..at : Merged[m].kind # "bad"
    BY LinesTo DEF ReadInv, Read
  <1>4. Read(Merged, at, defs', expr')
    BY <1>3 DEF Read
  <1>5. DuplicateIsDuplicate'
    BY ReportStays DEF ReadInv
  <1> QED
    BY <1>1, <1>2, <1>4, <1>5 DEF ReadInv

LEMMA ReadScan == IInv /\ ReadInv /\ Scan => ReadInv'
  <1> SUFFICES ASSUME IInv, ReadInv, Scan PROVE ReadInv'
    OBVIOUS
  <1>1. /\ phase = "scan" /\ phase' = "parse"
        /\ UNCHANGED <<options, source, at, defs, expr, values, error>>
    BY DEF Scan
  <1>2. at = 1 /\ Len(defs) = 0 /\ expr = NoTree
    BY <1>1 DEF IInv, Counters
  <1>3. DuplicateIsDuplicate'
    BY <1>1, ReportStays DEF ReadInv
  <1>4. Read(Merged', at' - 1, defs', expr')
    BY <1>1, <1>2 DEF Read, DefsRead, ExprRead
  <1> QED
    BY <1>1, <1>3, <1>4 DEF ReadInv

LEMMA ReadParse ==
    IInv /\ ReadInv /\ (ParseBlank \/ ParseDefinition \/ ParseCompound \/ ParseExpression)
      => ReadInv'
  <1> SUFFICES ASSUME IInv, ReadInv
               PROVE  (ParseBlank \/ ParseDefinition \/ ParseCompound \/ ParseExpression)
                         => ReadInv'
    OBVIOUS
  <1>0. phase = "parse" => /\ DefsRead(Merged, at - 1, defs)
                           /\ ExprRead(Merged, at - 1, expr)
    BY DEF ReadInv, Read
  <1>1. ASSUME ParseBlank PROVE ReadInv'
    <2>1. /\ phase = "parse" /\ at <= Len(Merged) /\ Merged[at].kind = "blank" /\ at' = at + 1
          /\ UNCHANGED <<options, source, phase, defs, expr, values, error>>
      BY <1>1 DEF ParseBlank, Parsing, Here
    <2>2. ~ Assigns(Merged[at])
      BY <2>1 DEF Assigns, CompoundOp
    <2>3. DefsRead(Merged, at, defs) /\ ExprRead(Merged, at, expr)
      BY <1>0, <2>1, <2>2, ReadOn, ReadNoExpression
    <2> QED
      BY <2>1, <2>3, ReadLine
  <1>2. ASSUME phase = "parse", at <= Len(Merged), Assigns(Merged[at]), NEW body,
               AddDefinition(body), body = LineDef(Merged[at]).body
        PROVE  ReadInv'
    <2>1. /\ defs' = Append(defs, LineDef(Merged[at])) /\ at' = at + 1
          /\ UNCHANGED <<options, source, phase, expr, values, error>>
      BY <1>2 DEF AddDefinition, LineDef, Here
    <2>2. IsAppended(defs', defs, LineDef(Merged[at]))
      BY <2>1, AppendedList DEF IInv, DefsAreLines
    <2>3. Merged[at].kind # "expr" /\ Merged[at].kind # "bad"
      BY <1>2 DEF Assigns, CompoundOp
    <2>4. DefsRead(Merged, at, defs') /\ ExprRead(Merged, at, expr)
      BY <1>0, <1>2, <2>2, <2>3, ReadDefinition, ReadNoExpression
    <2> QED
      BY <1>2, <2>1, <2>3, <2>4, ReadLine
  <1>3. ASSUME ParseDefinition PROVE ReadInv'
    <2>1. /\ phase = "parse" /\ at <= Len(Merged) /\ Merged[at].kind = "def"
          /\ AddDefinition(Merged[at].body)
      BY <1>3 DEF ParseDefinition, Parsing, Here
    <2>2. Assigns(Merged[at]) /\ Merged[at].body = LineDef(Merged[at]).body
      BY <2>1 DEF Assigns, LineDef
    <2> QED
      BY <1>2, <2>1, <2>2
  <1>4. ASSUME ParseCompound PROVE ReadInv'
    <2> DEFINE l == Merged[at]
               body == NApp2(V(CompoundOp[l.kind]), V(l.name), l.body)
    <2>1. PICK op \in DOMAIN CompoundOp :
             /\ Parsing(op)
             /\ AddDefinition(NApp2(V(CompoundOp[op]), V(Here.name), Here.body))
      BY <1>4 DEF ParseCompound
    <2>2. /\ phase = "parse" /\ at <= Len(Merged) /\ l.kind = op /\ l.kind # "def"
          /\ AddDefinition(body)
      BY <2>1 DEF Parsing, Here, CompoundOp
    <2>3. Assigns(l) /\ body = LineDef(l).body
      BY <2>2 DEF Assigns, LineDef
    <2> HIDE DEF body
    <2> QED
      BY <1>2, <2>2, <2>3
  <1>5. ASSUME ParseExpression PROVE ReadInv'
    <2>1. /\ phase = "parse" /\ at <= Len(Merged) /\ Merged[at].kind = "expr" /\ at' = at + 1
          /\ expr = NoTree /\ expr' = Merged[at].body
          /\ UNCHANGED <<options, source, phase, defs, values, error>>
      BY <1>5 DEF ParseExpression, Parsing, Here
    <2>2. ~ Assigns(Merged[at])
      BY <2>1 DEF Assigns, CompoundOp
    <2>3. DefsRead(Merged, at, defs) /\ ExprRead(Merged, at, Merged[at].body)
      BY <1>0, <2>1, <2>2, ReadOn, ReadExpression
    <2> QED
      BY <2>1, <2>3, ReadLine
  <1> QED
    BY <1>1, <1>3, <1>4, <1>5

LEMMA ReadEnd == IInv /\ ReadInv /\ ParseEnd => ReadInv'
  <1> SUFFICES ASSUME IInv, ReadInv, ParseEnd PROVE ReadInv'
    OBVIOUS
  <1>1. /\ phase = "parse" /\ phase' = "lower" /\ at > Len(Merged) /\ expr # NoTree
        /\ UNCHANGED <<options, source, defs, expr, values, error>>
    BY DEF ParseEnd
  <1>2. at - 1 = Len(Merged)
    BY <1>1, MergedAt DEF IInv, Basics
  <1>3. Merged' = Merged
    BY <1>1, SameText
  <1>4. Read(Merged, Len(Merged), defs, expr)
    BY <1>1, <1>2 DEF ReadInv
  <1>5. DuplicateIsDuplicate'
    BY <1>1, ReportStays DEF ReadInv
  <1> QED
    BY <1>1, <1>3, <1>4, <1>5 DEF ReadInv

LEMMA ReadDuplicate == IInv /\ ReadInv /\ RejectDuplicate => ReadInv'
  <1> SUFFICES ASSUME IInv, ReadInv, RejectDuplicate PROVE ReadInv'
    OBVIOUS
  <1>1. PICK n \in Duplicates : Fail(Error("duplicate", Rebase(n), Merged[n].name))
    BY DEF RejectDuplicate
  <1>2. /\ error'.kind = "duplicate" /\ error'.line = Rebase(n)
        /\ error'.name = Merged[n].name /\ phase' = "failed"
        /\ UNCHANGED <<options, source, defs, expr>>
    BY <1>1 DEF Fail, Error
  <1>3. /\ Rebase(n) \in 1..Len(source) /\ n = Len(Injected) + Rebase(n)
        /\ Merged[n] = source[Rebase(n)]
    BY DuplicateInSource DEF IInv, Basics
  <1>4. Repeats(n)
    BY DEF Duplicates
  <1>5. Injected' = Injected /\ \A k : Repeats(k)' <=> Repeats(k)
    BY <1>2, SameText
  <1>6. /\ error'.line \in 1..Len(source) /\ source[error'.line].name = error'.name
        /\ Repeats(Len(Injected) + error'.line)
    BY <1>2, <1>3, <1>4
  <1>7. DuplicateIsDuplicate'
    BY <1>2, <1>5, <1>6 DEF DuplicateIsDuplicate, Repeats
  <1> QED
    BY <1>2, <1>7 DEF ReadInv

LEMMA ReadOther ==
    ReadInv /\ (\/ RejectSecondExpression \/ RejectSyntax \/ RejectNoExpression
                \/ LowerDefinition \/ LowerExpression \/ RefuseForward \/ UNCHANGED vars)
      => ReadInv'
  <1> SUFFICES ASSUME ReadInv,
                      \/ RejectSecondExpression \/ RejectSyntax \/ RejectNoExpression
                      \/ LowerDefinition \/ LowerExpression \/ RefuseForward
                      \/ UNCHANGED vars
               PROVE  ReadInv'
    OBVIOUS
  <1>1. CASE RejectSecondExpression \/ RejectSyntax \/ RejectNoExpression \/ RefuseForward
    <2>1. /\ phase' = "failed" /\ error'.kind # "duplicate"
          /\ UNCHANGED <<options, source, defs, expr>>
      <3>1. ASSUME NEW k, NEW l, NEW x, k # "duplicate", Fail(Error(k, l, x))
            PROVE  /\ phase' = "failed" /\ error'.kind # "duplicate"
                   /\ UNCHANGED <<options, source, defs, expr>>
        BY <3>1 DEF Fail, Error
      <3> QED
        BY <1>1, <3>1 DEF RejectSecondExpression, RejectSyntax, RejectNoExpression, RefuseForward
    <2> QED
      BY <2>1, ReportStays, ReadRests DEF ReadInv
  <1>2. CASE LowerDefinition \/ LowerExpression
    <2>1. /\ phase = "lower" /\ phase' \in {"lower", "lowered"} /\ error' = error
          /\ UNCHANGED <<options, source, defs, expr>>
      BY <1>2 DEF LowerDefinition, LowerExpression
    <2> QED
      BY <2>1, ReportStays, ReadRests DEF ReadInv
  <1>3. CASE UNCHANGED vars
    BY <1>3, ReportStays, ReadRests DEF ReadInv, vars
  <1> QED
    BY <1>1, <1>2, <1>3

LEMMA ReadNext == IInv /\ ReadInv /\ [Next]_vars => ReadInv'
  BY ReadScan, ReadParse, ReadEnd, ReadDuplicate, ReadOther DEF Next

(* What is lowered has nothing wrong with it: no name is defined twice, no *)
(* argument is a word, no line is bad, and there is one expression.        *)
RightlyAccepted ==
    phase \in {"lower", "lowered"} =>
        /\ Duplicates = {}
        /\ Words = {}
        /\ \A n \in 1..Len(source) : ~ WrongLine(n)
        /\ expr # NoTree

LEMMA NothingWrong == IInv /\ ReadInv => RightlyAccepted
  <1> SUFFICES ASSUME IInv, ReadInv, phase \in {"lower", "lowered"}
               PROVE  /\ Duplicates = {} /\ Words = {}
                      /\ \A n \in 1..Len(source) : ~ WrongLine(n)
                      /\ expr # NoTree
    BY DEF RightlyAccepted
  <1>1. Duplicates = {} /\ expr # NoTree
    BY DEF IInv, DefsAreLines, ReadInv
  <1>2. /\ \A m \in 1..Len(Merged) : Merged[m].kind # "bad"
        /\ \A m, n \in 1..Len(Merged) :
              Merged[m].kind = "expr" /\ Merged[n].kind = "expr" => m = n
    BY DEF ReadInv, Read, ExprRead
  <1>3. /\ Len(Injected) \in Nat /\ Len(source) \in Nat
        /\ Len(Merged) = Len(Injected) + Len(source)
        /\ \A n \in 1..Len(Injected) : Merged[n] = Injected[n]
        /\ \A n \in 1..Len(source) : Merged[Len(Injected) + n] = source[n]
    BY MergedAt DEF IInv, Basics
  <1>4. Words = {}
    <2> SUFFICES ASSUME NEW w \in Words PROVE FALSE
      OBVIOUS
    <2>1. WordLine(w) \in 1..Len(Injected) /\ Injected[WordLine(w)].kind = "bad"
      BY BadLines DEF IInv, Basics
    <2>2. WordLine(w) \in 1..Len(Merged) /\ Merged[WordLine(w)].kind = "bad"
      BY <1>3, <2>1
    <2> QED
      BY <1>2, <2>2
  <1>5. ASSUME NEW n \in 1..Len(source), WrongLine(n) PROVE FALSE
    <2>1. /\ Len(Injected) + n \in 1..Len(Merged) /\ Merged[Len(Injected) + n] = source[n]
          /\ \A m \in 1..(n - 1) : /\ Len(Injected) + m \in 1..Len(Merged)
                                   /\ m \in 1..Len(source)
                                   /\ Len(Injected) + m # Len(Injected) + n
      BY <1>3
    <2>2. source[n].kind # "bad"
      BY <1>2, <2>1
    <2>3. PICK m \in 1..(n - 1) : source[n].kind = "expr" /\ source[m].kind = "expr"
      BY <1>5, <2>2 DEF WrongLine
    <2>4. Merged[Len(Injected) + m] = source[m]
      BY <1>3, <2>1
    <2> QED
      BY <1>2, <2>1, <2>3, <2>4
  <1> QED
    BY <1>1, <1>4, <1>5

(* A program that is lowered has nothing wrong with it, as one that is     *)
(* rejected has (RejectedLineIsTheFirstWrong).                             *)
THEOREM AcceptedIsRight == Spec => []RightlyAccepted
  BY NothingWrong, InitInv, NextInv, ReadInit, ReadNext, PTL DEF Spec

(* parser_parse_program loses nothing of such a program and adds nothing:  *)
(* its definitions are those of the lines that define a name, one each and *)
(* in their order, x += e as ADD x e and the like, and its expression is   *)
(* that of the one line that is an expression.                             *)
THEOREM ProgramIsRead ==
    Spec => [](phase \in {"lower", "lowered"} => Read(Merged, Len(Merged), defs, expr))
  <1>1. ReadInv => (phase \in {"lower", "lowered"} => Read(Merged, Len(Merged), defs, expr))
    BY DEF ReadInv
  <1> QED
    BY <1>1, InitInv, NextInv, ReadInit, ReadNext, PTL DEF Spec

(* A source that defines no name twice itself, as the preprocessor makes   *)
(* sure (NoNameTwice of Imports), is only refused for one when the name is *)
(* that of a definition injected before it.                                *)
OwnNamesOnce ==
    \A m, n \in 1..Len(source) :
        IsDef(source[m]) /\ source[m].name = source[n].name => m = n

DuplicatesAreOfBuiltins ==
    error.kind = "duplicate" /\ OwnNamesOnce =>
        \E n \in 1..Len(Injected) : IsDef(Injected[n]) /\ Injected[n].name = error.name

THEOREM OnlyBuiltinsAreRepeated == Spec => []DuplicatesAreOfBuiltins
  <1>1. IInv /\ ReadInv => DuplicatesAreOfBuiltins
    <2> SUFFICES ASSUME IInv, ReadInv, error.kind = "duplicate", OwnNamesOnce
                 PROVE  \E n \in 1..Len(Injected) :
                            IsDef(Injected[n]) /\ Injected[n].name = error.name
      BY DEF DuplicatesAreOfBuiltins
    <2>1. /\ Len(Injected) \in Nat /\ Len(source) \in Nat
          /\ Len(Merged) = Len(Injected) + Len(source)
          /\ \A n \in 1..Len(Injected) : Merged[n] = Injected[n]
          /\ \A n \in 1..Len(source) : Merged[Len(Injected) + n] = source[n]
      BY MergedAt DEF IInv, Basics
    <2>2. /\ error.line \in 1..Len(source) /\ source[error.line].name = error.name
          /\ Repeats(Len(Injected) + error.line)
      BY DEF ReadInv, DuplicateIsDuplicate
    <2>3. PICK m \in 1..(Len(Injected) + error.line - 1) :
             IsDef(Merged[m]) /\ Merged[m].name = error.name
      BY <2>1, <2>2 DEF Repeats
    <2>4. m \in 1..Len(Injected)
      <3> SUFFICES ASSUME m > Len(Injected) PROVE FALSE
        BY <2>1, <2>2
      <3> DEFINE k == m - Len(Injected)
      <3>1. k \in 1..Len(source) /\ m = Len(Injected) + k /\ k # error.line
        BY <2>1, <2>2
      <3> HIDE DEF k
      <3>2. source[k] = Merged[m]
        BY <2>1, <3>1
      <3> QED
        BY <2>2, <2>3, <3>1, <3>2 DEF OwnNamesOnce
    <2> QED
      BY <2>1, <2>3, <2>4
  <1> QED
    BY <1>1, InitInv, NextInv, ReadInit, ReadNext, PTL DEF Spec
=============================================================================
