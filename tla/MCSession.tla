----------------------------- MODULE MCSession -----------------------------
(***************************************************************************)
(* The command lines of CommandLine and the disks they meet.  Those that   *)
(* are meant are written from settings in the form of usage: the options   *)
(* in every order, the file among them, then -- and the arguments, or, if  *)
(* there is a file, the arguments as they are.                             *)
(***************************************************************************)
EXTENDS Usage, SequencesExt

MCOptionLike == {"--", "-e", "-n", "-q", "-t", "--no-prelude", "-h", "--help", "-z", "-1", "-9"}

Read(magnitude, negative, whole) ==
    [magnitude |-> magnitude, negative |-> negative, whole |-> whole]
MCNumbers == ("0" :> Read(0, FALSE, TRUE)) @@ ("2" :> Read(2, FALSE, TRUE))
          @@ ("9" :> Read(9, FALSE, TRUE)) @@ ("2x" :> Read(2, FALSE, FALSE))
          @@ ("-1" :> Read(1, TRUE, TRUE)) @@ ("-9" :> Read(9, TRUE, TRUE))

(* The prefixes of the library path: all there, some missing, a file or a  *)
(* link to nothing in the way or in the place of the directory.            *)
Stores == { <<"dir", "dir">>, <<"dir", "absent">>, <<"absent", "absent">>,
            <<"file", "absent">>, <<"dir", "file">>,
            <<"link", "absent">>, <<"dir", "link">> }
AllThere == <<"dir", "dir">>

Start(argv, meant, disk, denied) ==
    [argv |-> argv, meant |-> meant, store |-> disk, denied |-> denied]

Groups(s) ==
         (IF s.expr # Unset THEN {<<"-e", s.expr>>} ELSE {})
    \cup (IF s.file # Unset THEN {<<s.file>>} ELSE {})
    \cup (IF s.limit # DefaultLimit THEN {<<"-n", ToString(s.limit)>>} ELSE {})
    \cup (IF s.quiet THEN {<<"-q">>} ELSE {})
    \cup (IF s.trace THEN {<<"-t">>} ELSE {})
    \cup (IF s.prelude THEN {} ELSE {<<"--no-prelude">>})

Written(s) ==
    UNION { {FlattenSeq(gs) \o <<"--">> \o s.args}
              \cup (IF s.args = <<>> THEN {FlattenSeq(gs)} ELSE {})
              \cup (IF s.file # Unset /\ s.args # <<>> /\ Head(s.args) \notin OptionLike
                    THEN {FlattenSeq(gs) \o s.args} ELSE {}) :
            gs \in SetToSeqs(Groups(s)) }

Meanings ==
    { s \in [expr : {Unset, "E", "-q"}, file : {Unset, "F"}, limit : {2, DefaultLimit},
             quiet : BOOLEAN, trace : BOOLEAN, prelude : BOOLEAN,
             args : {<<>>, <<"F", "-t">>, <<"--", "E">>}] :
        s.expr = Unset \/ s.file = Unset }

Meant   == { Start(w, {s}, AllThere, {}) : <<s, w>> \in
             UNION { {s} \X Written(s) : s \in Meanings } }
Unmeant == { Start(w, {}, AllThere, {}) : w \in
             { <<"-e">>, <<"-n">>, <<"-n", "2x">>, <<"-n", "9">>, <<"-n", "-1", "F">>,
               <<"-n", "-9">>, <<"-n", "0", "F">>, <<"-z">>, <<"-1">>, <<"-h", "-z">>,
               <<"-q", "--help">>, <<"-e", "E", "F", "-q">>, <<"F", "-e", "E">>,
               <<"F", "G", "-z">>, <<"-e", "E", "-e", "G">>, <<"-n", "2", "-n", "0">> } }
OnDisks == { Start(<<"-q", "F">>, {}, disk, denied) : disk \in Stores, denied \in SUBSET {1, 2} }

MCStarts == Meant \cup Unmeant \cup OnDisks

=============================================================================
