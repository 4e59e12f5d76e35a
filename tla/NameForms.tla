----------------------------- MODULE NameForms -----------------------------
(***************************************************************************)
(* What lower_name_reference of value.c sees in a name: the subscripts it  *)
(* ends in, and the definitions of that name.                              *)
(***************************************************************************)
EXTENDS Naturals, Sequences
LOCAL INSTANCE SequencesExt
LOCAL INSTANCE FiniteSetsExt

CONSTANT Letters       \* the names with a subscript: name |-> its characters

-----------------------------------------------------------------------------
(* Subscripts.  "&_" and a letter is the subscript character of the letter *)
(* (decode_subscript_codepoint); no name here has 127 of them.             *)
Digits == <<"0", "1", "2", "3", "4", "5", "6", "7", "8", "9">>
Subscripted == ToSet(Digits) \cup {"a", "e", "h", "i", "j", "k", "l", "m", "n", "o", "p",
                                   "r", "s", "t", "u", "v", "x"}
Decode == [c \in {"&_" \o d : d \in Subscripted} |-> SubSeq(c, 3, 3)]
Decoded(cs) == [i \in 1..Len(cs) |-> Decode[cs[i]]]

AllIn(cs, S) == ToSet(cs) \subseteq S
AsciiLetters ==
    {"a", "b", "c", "d", "e", "f", "g", "h", "i", "j", "k", "l", "m", "n", "o", "p", "q", "r",
     "s", "t", "u", "v", "w", "x", "y", "z", "A", "B", "C", "D", "E", "F", "G", "H", "I", "J",
     "K", "L", "M", "N", "O", "P", "Q", "R", "S", "T", "U", "V", "W", "X", "Y", "Z"}

(* is_simple_ascii_sub_index: digits, or one letter.                       *)
IsSimpleIndex(cs) ==
    cs # <<>> /\ (AllIn(cs, ToSet(Digits)) \/ (Len(cs) = 1 /\ AllIn(cs, AsciiLetters)))

(* Mutant of UnderscoreIn: strchr for strrchr.                             *)
FirstUnderscoreIn(cs) == Min({Len(cs) + 1} \cup {i \in 1..Len(cs) : cs[i] = "_"})

UnderscoreIn(cs) == Max({0} \cup {i \in 1..Len(cs) : cs[i] = "_"})

(* try_lower_subscript_name: a name of subscripts only is its own index,   *)
(* without a base; a name that ends in them, or in _ and a simple index,   *)
(* has both; any other has no index.                                       *)
SplitName(cs) ==
    LET start  == Min({Len(cs) + 1} \cup {i \in 1..Len(cs) : cs[i] \in DOMAIN Decode})
        suffix == SubSeq(cs, start, Len(cs))
        under  == UnderscoreIn(cs)
    IN  IF suffix # <<>> /\ AllIn(suffix, DOMAIN Decode)
        THEN [base |-> SubSeq(cs, 1, start - 1), index |-> Decoded(suffix)]
        ELSE IF under > 1 /\ IsSimpleIndex(SubSeq(cs, under + 1, Len(cs)))
        THEN [base |-> SubSeq(cs, 1, under - 1), index |-> SubSeq(cs, under + 1, Len(cs))]
        ELSE [base |-> cs, index |-> <<>>]

Subscript(x) == SplitName(IF x \in DOMAIN Letters THEN Letters[x] ELSE <<x>>)

-----------------------------------------------------------------------------
(* The definitions of a name among those lowered so far.                   *)
Lowered(x, vals) == {i \in 1..Len(vals) : vals[i].name = x}

(* Mutant of Latest: the oldest definition.                                *)
Earliest(is) == CHOOSE i \in is : \A j \in is : i <= j

Latest(is) == CHOOSE i \in is : \A j \in is : j <= i
=============================================================================
