------------------------------- MODULE Pieces -------------------------------
(***************************************************************************)
(* Texts as sequences of pieces: words (letters, digits and underscores),  *)
(* runs of digits, single ASCII marks, spaces, and non-ASCII characters,   *)
(* each written with a name ("&and" for U+2227).  Pieces that may be part  *)
(* of a name and touch are one name, as they are in the bytes.             *)
(***************************************************************************)
EXTENDS Integers, Sequences, FiniteSetsExt

CONSTANT Numeral    \* runs of digits: text |-> [n, scale], scale 10^length

Spaces   == {" ", "\t", "\r", "\n"}
Marks    == {"\\", ".", ":", "(", ")", ",", "~", "^", "+", "-", "*", "/", "%",
             "=", "<", ">", ";", "@"}
IsDigits(p) == p \in DOMAIN Numeral
IsPart(p)   == p \notin Spaces \cup Marks          \* is_ident_part
IsStart(p)  == IsPart(p) /\ ~IsDigits(p)           \* is_ident_start

(* The last of the places from "at" on that are all in a set of places.    *)
RunEnd(places, at) == Max({at - 1} \cup {e \in places : at <= e /\ at..e \subseteq places})

IsComment(text, at) ==
    text[at] = ";" \/ (at < Len(text) /\ text[at] = "-" /\ text[at + 1] = "-")
=============================================================================
