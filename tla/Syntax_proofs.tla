--------------------------- MODULE Syntax_proofs ---------------------------
(***************************************************************************)
(* The two line scanners find the same definitions in every line, of       *)
(* whatever pieces and however long, and whatever the lexer, the parser    *)
(* and the printer make of it.                                             *)
(***************************************************************************)
EXTENDS Syntax, Lists_proofs, TLAPS

-----------------------------------------------------------------------------
(* The least and the greatest of some numbers.                             *)
LEMMA MinIs ==
    ASSUME NEW T \in SUBSET Nat, T # {}
    PROVE  Min(T) \in T
  <1>1. \E n \in T : \A m \in T : n <= m
    BY LeastNumber
  <1> QED
    BY <1>1 DEF Min

LEMMA MaxIs ==
    ASSUME NEW T \in SUBSET Nat, T # {}, NEW b \in Nat, \A x \in T : x <= b
    PROVE  Max(T) \in T /\ \A x \in T : x <= Max(T)
  <1> DEFINE U == {b - x : x \in T}
  <1>1. U \in SUBSET Nat /\ U # {}
    OBVIOUS
  <1>2. PICK n \in U : \A m \in U : n <= m
    BY <1>1, LeastNumber
  <1>3. PICK x \in T : n = b - x
    BY <1>2
  <1>4. \A y \in T : x >= y
    <2> TAKE y \in T
    <2>1. b - y \in U
      OBVIOUS
    <2>2. b - x <= b - y
      BY <1>2, <1>3, <2>1
    <2> QED
      BY <2>2
  <1> HIDE DEF U
  <1>5. Max(T) \in T /\ \A y \in T : Max(T) >= y
    BY <1>4 DEF Max
  <1> QED
    BY <1>5

-----------------------------------------------------------------------------
(* A line without the spaces on its left, and what is left of it without   *)
(* those on its right.                                                     *)
LEMMA TrimLeftIs ==
    ASSUME NEW s, IsList(s)
    PROVE  IsList(TrimLeft(s)) /\ Len(TrimLeft(s)) <= Len(s)
  <1> DEFINE places == {i \in DOMAIN s : IsSpace(s[i])}
             T == {1 - 1} \cup {e \in places : 1 <= e /\ 1..e \subseteq places}
             n == RunEnd(places, 1)
  <1>1. Len(s) \in Nat /\ DOMAIN s = 1..Len(s)
    BY ListFacts
  <1>2. T \in SUBSET Nat /\ T # {} /\ \A x \in T : x <= Len(s)
    BY <1>1
  <1>3. n = Max(T)
    BY DEF RunEnd
  <1> HIDE DEF places, T
  <1>4. n \in Nat
    BY <1>1, <1>2, <1>3, MaxIs
  <1>5. TrimLeft(s) = SubSeq(s, n + 1, Len(s))
    BY DEF TrimLeft, places
  <1> HIDE DEF n
  <1>6. IsCut(SubSeq(s, n + 1, Len(s)), s, n + 1, Len(s))
    <2>1. n + 1 \in Nat \ {0} /\ Len(s) \in Int /\ Len(s) <= Len(s)
      BY <1>1, <1>4
    <2> QED
      BY <2>1, PartOfList
  <1>7. IsList(TrimLeft(s)) /\ Len(TrimLeft(s)) = IF n + 1 <= Len(s) THEN Len(s) - (n + 1) + 1 ELSE 0
    BY <1>5, <1>6 DEF IsCut
  <1>8. CASE n + 1 <= Len(s)
    BY <1>1, <1>4, <1>7, <1>8
  <1>9. CASE ~(n + 1 <= Len(s))
    BY <1>1, <1>4, <1>7, <1>9
  <1> QED
    BY <1>8, <1>9

(* t is b up to its last piece that is no space.                           *)
IsRightTrimmed(t, b) ==
    /\ IsList(t) /\ Len(t) \in Nat
    /\ IsList(b) /\ Len(b) \in Nat
    /\ Len(t) <= Len(b)
    /\ \A i \in 1..Len(t) : t[i] = b[i]
    /\ \A i \in 1..Len(b) : ~IsSpace(b[i]) => i <= Len(t)

LEMMA TrimIs ==
    ASSUME NEW s, IsList(s)
    PROVE  IsRightTrimmed(Trim(s), TrimLeft(s))
  <1> DEFINE b == TrimLeft(s)
             T == {0} \cup {i \in 1..Len(b) : ~IsSpace(b[i])}
             k == Max(T)
  <1>1. IsList(b) /\ Len(b) \in Nat
    BY TrimLeftIs, ListFacts
  <1>2. Trim(s) = SubSeq(b, 1, k)
    BY DEF Trim
  <1> HIDE DEF b
  <1>3. T \in SUBSET Nat /\ T # {} /\ \A x \in T : x <= Len(b)
    BY <1>1
  <1>4. k \in T /\ \A x \in T : x <= k
    BY <1>1, <1>3, MaxIs
  <1>5. k \in Nat /\ k <= Len(b) /\ \A i \in 1..Len(b) : ~IsSpace(b[i]) => i <= k
    BY <1>1, <1>4
  <1> HIDE DEF k, T
  <1>6. IsCut(SubSeq(b, 1, k), b, 1, k)
    BY <1>1, <1>5, PartOfList
  <1>7. Len(Trim(s)) = k /\ IsList(Trim(s)) /\ \A i \in 1..k : Trim(s)[i] = b[i]
    BY <1>2, <1>5, <1>6 DEF IsCut
  <1> QED
    BY <1>1, <1>5, <1>7 DEF IsRightTrimmed, b

LEMMA NoSpaces ==
    /\ ~IsSpace("=") /\ ~IsSpace("<") /\ ~IsSpace(">") /\ ~IsSpace(";") /\ ~IsSpace("-")
  BY DEF IsSpace, Spaces

-----------------------------------------------------------------------------
(* The places of the = that assign.                                        *)
Assigns(s) ==
    {i \in 1..Len(s) : /\ s[i] = "="
                       /\ ~(i > 1 /\ s[i - 1] = "<" /\ i < Len(s) /\ s[i + 1] = ">")}

LEMMA SameAssigns ==
    ASSUME NEW t, NEW b, IsRightTrimmed(t, b)
    PROVE  Assigns(t) = Assigns(b)
  <1>1. /\ Len(t) \in Nat /\ Len(b) \in Nat /\ Len(t) <= Len(b)
        /\ \A i \in 1..Len(t) : t[i] = b[i]
        /\ \A i \in 1..Len(b) : ~IsSpace(b[i]) => i <= Len(t)
    BY DEF IsRightTrimmed
  <1>2. ASSUME NEW i \in 1..Len(t), i > 1 PROVE t[i - 1] = b[i - 1]
    BY <1>1, <1>2
  <1>3. ASSUME NEW i \in 1..Len(t)
        PROVE  (i < Len(t) /\ t[i + 1] = ">") <=> (i < Len(b) /\ b[i + 1] = ">")
    <2>1. CASE i < Len(t)
      BY <1>1, <2>1
    <2>2. CASE ~(i < Len(t))
      <3> SUFFICES ASSUME i < Len(b), b[i + 1] = ">" PROVE FALSE
        BY <2>2
      <3>1. i + 1 \in 1..Len(b)
        BY <1>1
      <3>2. ~IsSpace(b[i + 1])
        BY NoSpaces
      <3> QED
        BY <1>1, <2>2, <3>1, <3>2
    <2> QED
      BY <2>1, <2>2
  <1>4. \A i : i \in Assigns(t) => i \in Assigns(b)
    BY <1>1, <1>2, <1>3 DEF Assigns
  <1>5. ASSUME NEW i \in Assigns(b) PROVE i \in Assigns(t)
    <2>1. i \in 1..Len(b) /\ b[i] = "=" /\ ~IsSpace(b[i])
      BY NoSpaces DEF Assigns
    <2>2. i \in 1..Len(t) /\ t[i] = "="
      BY <1>1, <2>1
    <2> QED
      BY <1>2, <1>3, <2>2 DEF Assigns
  <1> QED
    BY <1>4, <1>5

LEMMA SameComment ==
    ASSUME NEW t, NEW b, IsRightTrimmed(t, b)
    PROVE  IsCommentLine(t) <=> IsCommentLine(b)
  <1>1. /\ Len(t) \in Nat /\ Len(b) \in Nat /\ Len(t) <= Len(b)
        /\ \A i \in 1..Len(t) : t[i] = b[i]
        /\ \A i \in 1..Len(b) : ~IsSpace(b[i]) => i <= Len(t)
        /\ IsList(t) /\ IsList(b)
    BY DEF IsRightTrimmed
  <1>2. /\ t # <<>> <=> Len(t) > 0
        /\ b # <<>> <=> Len(b) > 0
    BY <1>1, EmptySeq DEF IsList
  <1>0. ASSUME NEW i \in 1..Len(b), b[i] = ";" \/ b[i] = "-"
        PROVE  i <= Len(t) /\ t[i] = b[i]
    <2>1. ~IsSpace(b[i])
      BY <1>0, NoSpaces
    <2>2. i <= Len(t)
      BY <1>1, <2>1
    <2>3. i \in 1..Len(t)
      BY <1>1, <2>2
    <2> QED
      BY <1>1, <2>2, <2>3
  <1>3. ASSUME IsCommentLine(t) PROVE IsCommentLine(b)
    <2>1. 1 \in 1..Len(t) /\ 0 < Len(b)
      BY <1>1, <1>2, <1>3 DEF IsCommentLine
    <2>2. t[1] = b[1]
      BY <1>1, <2>1
    <2>3. 1 < Len(t) => 1 < Len(b) /\ t[2] = b[2]
      <3> SUFFICES ASSUME 1 < Len(t) PROVE 1 < Len(b) /\ t[2] = b[2]
        OBVIOUS
      <3>1. 2 \in 1..Len(t) /\ 1 < Len(b)
        BY <1>1
      <3> QED
        BY <1>1, <3>1
    <2>4. t[1] = ";" \/ (1 < Len(t) /\ t[1] = "-" /\ t[2] = "-")
      <3>1. 1 + 1 = 2
        OBVIOUS
      <3> QED
        BY <1>3, <3>1, Zenon DEF IsCommentLine, IsComment
    <2>5. b[1] = ";" \/ (1 < Len(b) /\ b[1] = "-" /\ b[2] = "-")
      BY <2>2, <2>3, <2>4
    <2> QED
      <3>1. 1 + 1 = 2 /\ b # <<>>
        BY <1>2, <2>1
      <3> QED
        BY <2>5, <3>1, Zenon DEF IsCommentLine, IsComment
  <1>4. ASSUME IsCommentLine(b) PROVE IsCommentLine(t)
    <2>1. b[1] = ";" \/ (1 < Len(b) /\ b[1] = "-" /\ b[2] = "-")
      <3>1. 1 + 1 = 2
        OBVIOUS
      <3> QED
        BY <1>4, <3>1, Zenon DEF IsCommentLine, IsComment
    <2>2. 1 \in 1..Len(b)
      BY <1>1, <1>2, <1>4 DEF IsCommentLine
    <2>3. 0 < Len(t) /\ t[1] = b[1]
      <3>1. 1 <= Len(t) /\ t[1] = b[1]
        BY <1>0, <2>1, <2>2, Zenon
      <3> QED
        BY <1>1, <3>1
    <2>4. ASSUME 1 < Len(b), b[2] = "-" PROVE 1 < Len(t) /\ t[2] = b[2]
      <3>1. 2 \in 1..Len(b)
        BY <1>1, <2>4
      <3>2. 2 <= Len(t) /\ t[2] = b[2]
        BY <1>0, <2>4, <3>1, Zenon
      <3> QED
        BY <1>1, <3>2
    <2>5. t[1] = ";" \/ (1 < Len(t) /\ t[1] = "-" /\ t[2] = "-")
      BY <2>1, <2>3, <2>4
    <2> QED
      <3>1. 1 + 1 = 2 /\ t # <<>>
        BY <1>1, <1>2, <2>3
      <3> QED
        BY <2>5, <3>1, Zenon DEF IsCommentLine, IsComment
  <1> QED
    BY <1>3, <1>4

(* How a line is split at the first = that assigns, or not at all.         *)
LEMMA SplitIs ==
    ASSUME NEW s
    PROVE  LET eq == IF Assigns(s) = {} THEN 0 ELSE Min(Assigns(s))
               op == IF eq > 1 /\ s[eq - 1] \in DOMAIN CompoundCalls THEN s[eq - 1] ELSE ""
               lhs == Trim(SubSeq(s, 1, eq - (IF op = "" THEN 1 ELSE 2)))
           IN  /\ AssignmentSplit(s).eq = eq
               /\ AssignmentSplit(s).name
                     = IF eq > 0 /\ IsIdentSpan(lhs) THEN Spelled(lhs) ELSE ""
  <1> DEFINE eq == IF Assigns(s) = {} THEN 0 ELSE Min(Assigns(s))
             op == IF eq > 1 /\ s[eq - 1] \in DOMAIN CompoundCalls THEN s[eq - 1] ELSE ""
             lhs == Trim(SubSeq(s, 1, eq - (IF op = "" THEN 1 ELSE 2)))
             c == IF op = "" THEN "" ELSE CompoundCalls[op]
             n == IF eq > 0 /\ IsIdentSpan(lhs) THEN Spelled(lhs) ELSE ""
  <1>1. AssignmentSplit(s) = [eq |-> eq, call |-> c, name |-> n]
    BY Zenon DEF AssignmentSplit, Assigns
  <1> HIDE DEF eq, op, lhs, c, n
  <1>2. AssignmentSplit(s).eq = eq /\ AssignmentSplit(s).name = n
    BY <1>1
  <1> QED
    BY <1>2, Zenon DEF eq, op, lhs, n

(* What the parser takes for the name is what the preprocessor does.       *)
LEMMA SameName ==
    ASSUME NEW s, IsList(s), ~IsCommentLine(Trim(s))
    PROVE  AssignmentSplit(Trim(s)).name = PreDefScan(s)
  <1> DEFINE b   == TrimLeft(s)
             t   == Trim(s)
             eqs == Assigns(b)
  <1>1. IsRightTrimmed(t, b)
    BY TrimIs
  <1> HIDE DEF b, t
  <1>2. Assigns(t) = eqs /\ ~IsCommentLine(b)
    BY <1>1, SameAssigns, SameComment DEF t
  <1>3. CASE eqs = {}
    <2>1. AssignmentSplit(t).eq = 0 /\ AssignmentSplit(t).name = ""
      <3>1. ~(0 > 0)
        OBVIOUS
      <3> QED
        BY <1>2, <1>3, <3>1, SplitIs, Zenon
    <2>2. PreDefScan(s) = ""
      BY <1>3 DEF PreDefScan, Assigns, b
    <2> QED
      BY <2>1, <2>2 DEF t
  <1>4. CASE eqs # {}
    <2> DEFINE e    == Min(eqs)
               op   == IF e > 1 /\ t[e - 1] \in DOMAIN CompoundCalls THEN t[e - 1] ELSE ""
               stop == IF e > 1 /\ b[e - 1] \in DOMAIN CompoundCalls THEN e - 2 ELSE e - 1
               lhs  == Trim(SubSeq(b, 1, stop))
    <2>1. eqs \in SUBSET Nat
      BY DEF Assigns
    <2>2. e \in eqs
      BY <1>4, <2>1, MinIs
    <2>3. e \in 1..Len(t)
      BY <1>2, <2>2 DEF Assigns
    <2>4. e > 1 => t[e - 1] = b[e - 1]
      BY <1>1, <2>3 DEF IsRightTrimmed
    <2>5. "" \notin DOMAIN CompoundCalls
      BY DEF CompoundCalls
    <2>6. stop = e - (IF op = "" THEN 1 ELSE 2)
      BY <2>3, <2>4, <2>5
    <2>7. stop \in Nat /\ stop <= Len(t) /\ stop <= Len(b)
      BY <1>1, <2>3 DEF IsRightTrimmed
    <2>8. AssignmentSplit(t).name
             = IF e > 0 /\ IsIdentSpan(Trim(SubSeq(t, 1, e - (IF op = "" THEN 1 ELSE 2))))
               THEN Spelled(Trim(SubSeq(t, 1, e - (IF op = "" THEN 1 ELSE 2)))) ELSE ""
      BY <1>2, <1>4, SplitIs, Zenon
    <2>9. PreDefScan(s) = IF IsIdentSpan(lhs) THEN Spelled(lhs) ELSE ""
      BY <1>2, <1>4 DEF PreDefScan, Assigns, b
    <2> HIDE DEF e, op, stop
    <2>10. SubSeq(t, 1, stop) = SubSeq(b, 1, stop)
      <3>1. IsList(t) /\ IsList(b) /\ \A i \in 1..stop : t[i] = b[i]
        BY <1>1, <2>7 DEF IsRightTrimmed
      <3> QED
        BY <2>7, <3>1, SameParts
    <2>11. AssignmentSplit(t).name = IF IsIdentSpan(lhs) THEN Spelled(lhs) ELSE ""
      <3>1. e > 0
        BY <2>3
      <3> QED
        BY <2>6, <2>8, <2>10, <3>1, Zenon
    <2> QED
      BY <2>9, <2>11 DEF t
  <1> QED
    BY <1>3, <1>4

LEMMA SkippedName ==
    ASSUME NEW s, IsList(s), Trim(s) = <<>> \/ IsCommentLine(Trim(s))
    PROVE  PreDefScan(s) = ""
  <1> DEFINE b == TrimLeft(s)
             t == Trim(s)
  <1>1. IsRightTrimmed(t, b)
    BY TrimIs
  <1> HIDE DEF b, t
  <1>2. CASE t = <<>>
    <2>1. Assigns(t) = {}
      BY <1>2 DEF Assigns
    <2>2. Assigns(b) = {}
      BY <1>1, <2>1, SameAssigns
    <2> QED
      BY <2>2 DEF PreDefScan, Assigns, b
  <1>3. CASE IsCommentLine(t)
    <2>1. IsCommentLine(b)
      BY <1>1, <1>3, SameComment
    <2> QED
      BY <2>1 DEF PreDefScan, b
  <1> QED
    BY <1>2, <1>3 DEF t

-----------------------------------------------------------------------------
(* A value that is to be printed, or that an expression has, is printed as *)
(* a text.                                                                 *)
IsParsed(t) == \E x : IsList(x) /\ t = ParseTree(x) /\ t # NoTree
PrintsTexts ==
    /\ \A v \in Values : IsList(Printed(v))
    /\ \A t : IsParsed(t) => IsList(Printed(LowerTree(t)))

(* The inductive invariant: what is printed is one of those.               *)
IInv ==
    /\ TypeOK
    /\ IsList(line)
    /\ phase = "text" => IsList(text)
    /\ phase = "tree" /\ name = "" => IsParsed(tree)
    /\ phase = "value" /\ name = "" =>
          value \in Values \/ \E t : IsParsed(t) /\ value = LowerTree(t)
    /\ phase = "line" => name = "" /\ call = ""
    /\ ScannersAgree

LEMMA InitInv == Init => IInv
  <1> SUFFICES ASSUME Init PROVE IInv
    OBVIOUS
  <1>1. IsList(line)
    <2>1. CASE \E l \in Lines : line = l.text
      BY <2>1, LinesAssumption DEF IsList
    <2>2. CASE line = <<>>
      BY <2>2 DEF IsList
    <2> QED
      BY <2>1, <2>2 DEF Init
  <1>2. phase = "line" \/ (phase = "value" /\ line = <<>>)
    BY DEF Init
  <1>3. name = "" /\ call = "" /\ tree = NoTree
    BY DEF Init
  <1>4. TypeOK
    BY <1>2, <1>3 DEF TypeOK
  <1>5. ScannersAgree
    <2>1. CASE phase = "value" /\ line = <<>>
      <3>1. IsRightTrimmed(Trim(line), TrimLeft(line)) /\ Len(TrimLeft(line)) <= Len(line)
        BY <1>1, TrimIs, TrimLeftIs
      <3>2. Len(Trim(line)) = 0 /\ IsList(Trim(line))
        BY <2>1, <3>1 DEF IsRightTrimmed
      <3>3. Trim(line) = <<>>
        BY <3>2, EmptySeq DEF IsList
      <3> QED
        BY <1>1, <1>3, <3>3, SkippedName DEF ScannersAgree
    <2> QED
      BY <1>2, <2>1 DEF ScannersAgree
  <1>6. phase = "value" => value \in Values
    BY DEF Init
  <1> QED
    BY <1>1, <1>2, <1>3, <1>4, <1>5, <1>6 DEF IInv

(* What is left of a line, and what stands behind its =, is a text.        *)
LEMMA PartsAreTexts ==
    ASSUME IsList(line)
    PROVE  IsList(Trimmed) /\ IsList(Body)
  <1>1. IsList(Trimmed) /\ Len(Trimmed) \in Nat
    BY TrimIs DEF Trimmed, IsRightTrimmed
  <1>2. Split.eq \in Nat
    <2>1. Split.eq = IF Assigns(Trimmed) = {} THEN 0 ELSE Min(Assigns(Trimmed))
      BY SplitIs, Zenon DEF Split
    <2>2. Assigns(Trimmed) \in SUBSET Nat
      BY <1>1, ListFacts DEF Assigns
    <2>3. Assigns(Trimmed) # {} => Min(Assigns(Trimmed)) \in Nat
      BY <2>2, MinIs
    <2> QED
      BY <2>1, <2>3
  <1>3. IsList(SubSeq(Trimmed, Split.eq + 1, Len(Trimmed)))
    BY <1>1, <1>2, PartOfList DEF IsCut
  <1> QED
    BY <1>1, <1>3, TrimIs DEF Body, IsRightTrimmed

(* The name a line was read to define, once it is behind.                  *)
LEMMA NameRead ==
    ASSUME IInv, Reading PROVE AssignmentSplit(Trim(line)).name = PreDefScan(line)
  BY SameName DEF IInv, Reading, Trimmed

LEMMA NextInv ==
    ASSUME PrintsTexts, IInv, [Next]_vars
    PROVE  IInv'
  <1>1. CASE SkipLine
    <2>1. phase = "line" /\ phase' = "skipped" /\ name = "" /\ call = ""
          /\ UNCHANGED <<line, name, call, text, tree>>
      BY <1>1 DEF SkipLine, IInv
    <2>2. PreDefScan(line) = ""
      BY <1>1, SkippedName DEF SkipLine, Trimmed, IInv
    <2> QED
      BY <2>1, <2>2 DEF IInv, TypeOK, ScannersAgree
  <1>2. CASE RejectAssignment \/ RejectNoBody
    <2>1. /\ phase = "line" /\ phase' = "rejected" /\ name' = Split.name /\ call = ""
          /\ UNCHANGED <<line, call, text, tree>> /\ Reading
      BY <1>2 DEF RejectAssignment, RejectNoBody, Reject, Reading, IInv
    <2>2. name' = PreDefScan(line)
      BY <2>1, NameRead DEF Split, Trimmed
    <2> QED
      BY <2>1, <2>2 DEF IInv, TypeOK, ScannersAgree
  <1>3. CASE TakeDefinition
    <2>1. /\ phase' = "text" /\ name' = Split.name /\ name' # "" /\ text' # <<>>
          /\ UNCHANGED <<line, tree>> /\ Reading /\ text' = Body
      BY <1>3 DEF TakeDefinition
    <2>2. name' = PreDefScan(line)
      BY <2>1, NameRead DEF Split, Trimmed
    <2>3. IsList(text')
      BY <2>1, PartsAreTexts DEF IInv
    <2> QED
      BY <2>1, <2>2, <2>3 DEF IInv, TypeOK, ScannersAgree
  <1>4. CASE TakeExpression
    <2>1. /\ phase' = "text" /\ text' # <<>> /\ name = "" /\ call = ""
          /\ UNCHANGED <<line, name, call, tree>> /\ Reading /\ text' = Trimmed
          /\ Split.eq = 0 \/ Split.name = ""
      BY <1>4 DEF TakeExpression, Reading, IInv
    <2>2. Split.eq = 0 => Split.name = ""
      <3>1. ~(0 > 0)
        OBVIOUS
      <3> QED
        BY <3>1, SplitIs, Zenon DEF Split
    <2>3. name' = PreDefScan(line)
      BY <2>1, <2>2, NameRead DEF Split, Trimmed
    <2>4. IsList(text')
      BY <2>1, PartsAreTexts DEF IInv
    <2> QED
      BY <2>1, <2>3, <2>4 DEF IInv, TypeOK, ScannersAgree
  <1>5. CASE Parse \/ RejectText \/ Lower
    <2>1. /\ phase \in {"text", "tree"} /\ phase' \in {"tree", "value", "rejected"}
          /\ UNCHANGED <<line, name, call, text>>
          /\ phase' = "tree" => ParseTree(text) # NoTree
      BY <1>5 DEF Parse, RejectText, Reject, Lower
    <2>2. phase' = "tree" => tree' # NoTree
      <3>1. \A f, a : NApp(f, a) # NoTree
        <4>1. NoTree.kind # "napp" /\ \A f, a : NApp(f, a).kind = "napp"
          BY DEF NoTree, NApp
        <4> QED
          BY <4>1, Zenon
      <3> QED
        BY <1>5, <2>1, <3>1, Zenon DEF Parse, RejectText, Reject, Lower, NApp2
    <2>3. phase' = "tree" /\ name = "" => IsParsed(tree')
      <3>1. CASE Parse
        BY <3>1 DEF Parse, IsParsed, IInv, TypeOK
      <3> QED
        BY <1>5, <3>1 DEF RejectText, Reject, Lower
    <2>4. phase' = "value" => phase = "tree" /\ value' = LowerTree(tree)
      BY <1>5 DEF Parse, RejectText, Reject, Lower
    <2> QED
      BY <2>1, <2>2, <2>3, <2>4 DEF IInv, TypeOK, ScannersAgree
  <1>6. CASE Show
    <2>1. /\ phase' = "line" /\ name = "" /\ line' = Printed(value)
          /\ UNCHANGED <<name, call, text, tree>>
      BY <1>6 DEF Show
    <2>2. phase = "value" /\ phase' = "line"
      BY <1>6 DEF Show
    <2>3. IsList(line') /\ call = ""
      BY <2>1, <2>2 DEF IInv, TypeOK, PrintsTexts
    <2> QED
      BY <2>1, <2>2, <2>3 DEF IInv, TypeOK, ScannersAgree
  <1>7. CASE UNCHANGED vars
    BY <1>7 DEF vars, IInv, TypeOK, ScannersAgree
  <1> QED
    BY <1>1, <1>2, <1>3, <1>4, <1>5, <1>6, <1>7 DEF Next

(* A text that is parsed is there, a tree is the outcome, and only a       *)
(* definition is a compound one (parser_parse_program).                    *)
THEOREM TypeCorrect ==
    ASSUME PrintsTexts
    PROVE  Spec => []TypeOK
  <1>1. Init => IInv
    BY InitInv
  <1>2. IInv /\ [Next]_vars => IInv'
    BY NextInv
  <1>3. IInv => TypeOK
    BY DEF IInv
  <1> QED
    BY <1>1, <1>2, <1>3, PTL DEF Spec

(* For every line, what pp_parse_definition_name takes for the name of a   *)
(* definition is what parser_parse_program defines, and none is defined    *)
(* behind the duplicate check's back.                                      *)
THEOREM ScannersSeeTheSame ==
    ASSUME PrintsTexts
    PROVE  Spec => []ScannersAgree
  <1>1. Init => IInv
    BY InitInv
  <1>2. IInv /\ [Next]_vars => IInv'
    BY NextInv
  <1>3. IInv => ScannersAgree
    BY DEF IInv
  <1> QED
    BY <1>1, <1>2, <1>3, PTL DEF Spec
=============================================================================
