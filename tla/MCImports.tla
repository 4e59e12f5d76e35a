----------------------------- MODULE MCImports -----------------------------
(***************************************************************************)
(* TLC instances of the import preprocessor: a program in /w that imports  *)
(* /w/a, /w/d/b and an official library, each with every short text over a *)
(* few lines, so that duplicates, diamonds, direct and mutual cycles, and  *)
(* cycles hidden behind "d/../a" all occur; so do imports of directories,  *)
(* which are empty texts, in the place of a file and of a library.         *)
(***************************************************************************)
EXTENDS Imports, FiniteSets, TLC

Plain(k)     == [kind |-> k, name |-> NoName, target |-> <<>>]
Def(n)       == [kind |-> "def", name |-> n, target |-> <<>>]
Compound(n)  == [kind |-> "compound", name |-> n, target |-> <<>>]
User(t)      == [kind |-> "user", name |-> NoName, target |-> t]
Library(l)   == [kind |-> "library", name |-> NoName, target |-> <<l>>]

TextsOf(ls, n) == UNION {[1..k -> ls] : k \in 1..n}

MCSegments == {".", "..", "/", "w", "d", "m", "a", "b", "lib", "L", "L.ls", "none"}
MCDotLs == [s \in MCSegments |-> IF s = "L" THEN "L.ls" ELSE "none"]

MCCwd == <<"w">>
MCLibraryDir == <<"/", "lib">>

PlaceA == <<"w", "a">>
PlaceB == <<"w", "d", "b">>

TextsA == TextsOf({Def("A"), User(<<"d", "b">>), User(<<"a">>), Plain("expr")}, 2)
            \cup { <<User(<<"d", "..", "a">>)>>, <<Def("B"), User(<<"d", "..", "a">>)>> }
TextsB == TextsOf({Def("A"), User(<<"..", "a">>)}, 2)
            \cup { <<Def("B")>>, <<Def("B"), User(<<"..", "a">>)>> }
LibraryDisks == { <<>>, (<<"lib", "L.ls">> :> <<Def("B")>>),
                  (<<"lib", "L">> :> <<Def("A"), Plain("blank")>>) }

Empty == <<Plain("blank")>>
Directories == (<<"w">> :> Empty) @@ (<<"w", "d">> :> Empty) @@ (<<"lib">> :> Empty)

(* The last two: a library that is a directory, and a file that imports    *)
(* the program back.                                                       *)
MCDisks ==
    {(PlaceA :> a) @@ (PlaceB :> b) @@ l @@ Directories :
        a \in TextsA, b \in TextsB, l \in LibraryDisks}
      \cup {(PlaceA :> <<Def("A")>>) @@ (PlaceB :> <<Def("B")>>) @@ (<<"lib", "L">> :> Empty)
               @@ Directories,
            (PlaceA :> <<User(<<"m">>)>>) @@ (<<"w", "m">> :> <<User(<<"a">>), Plain("expr")>>)
               @@ Directories}

MCPrograms ==
    [name : {<<"m">>},
     text : TextsOf({Def("A"), User(<<"a">>), User(<<"d", "b">>), Library("L")}, 2)
              \cup { <<User(<<"none">>)>>, <<Plain("badimport")>>,
                     <<User(<<"d">>), User(<<"a">>)>>,
                     <<Def("B"), Plain("expr"), User(<<"a">>)>> }]
      \cup [name : {Pseudo},
            text : { <<Compound("A"), Plain("blank"), User(<<"/", "w", "a">>)>>,
                     <<User(<<"a">>)>>, <<Library("L"), Def("A"), Plain("expr")>> }]

(* README.md, "Top-level compound definitions".                            *)
DocPrograms == [name : {<<"m">>}, text : {<<Def("A"), Compound("A"), Plain("expr")>>}]
DocDisks == { <<>> }

-----------------------------------------------------------------------------
(* README.md, "Top-level compound definitions": x = 10, x += 5, x is to    *)
(* print 15 - an update of a name defined above it is no duplicate.        *)
CompoundUpdatesAccepted == error.kind = "duplicate" => Line.kind # "compound"
=============================================================================
