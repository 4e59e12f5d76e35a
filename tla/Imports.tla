------------------------------ MODULE Imports ------------------------------
(***************************************************************************)
(* The import preprocessor of lambdaScript (ls.c): it replaces every       *)
(* import line of a program by the lines of the imported file, recursively *)
(* and depth first, into one flat source, refusing cycles, a name defined  *)
(* twice, and anything but definitions in an imported file.                *)
(*                                                                         *)
(* The C recursion is an explicit stack of frames here, one action per     *)
(* branch of the loop body of preprocess_source_recursive.  A line is      *)
(* abstracted to what the preprocessor tells apart; a path is the sequence *)
(* of its segments, compared as written (see Canonicalize).                *)
(***************************************************************************)
EXTENDS Naturals, Sequences, FiniteSets

CONSTANTS
    Names,         \* definition names
    NoName,        \* no name on this line
    Segments,      \* file and directory names, among them "." and ".."
    DotLs,         \* the file name of an official library: name |-> "name.ls"
    Disks,         \* the file systems to run on: [place in the tree -> lines];
                   \* a directory opens and reads as one blank line
    Programs,      \* the programs to run: [name, text], the name a path or Pseudo
    Pseudo,        \* "<eval>" or "<stdin>": the source is no file
    Cwd,           \* the working directory, from the root
    LibraryDir,    \* the directory of the official libraries
    MaxPath        \* segments of the longest path fopen accepts (PATH_MAX)

Paths == Seq(Segments)

(***************************************************************************)
(* A line: blank or a comment; a definition, plain or compound (x += e); an *)
(* expression; an import of a user file or of an official library; a line  *)
(* that begins like an import and is none.                                 *)
(***************************************************************************)
Lines ==
    [kind : {"blank", "expr", "badimport"}, name : {NoName}, target : {<<>>}]
      \cup [kind : {"def", "compound"}, name : Names, target : {<<>>}]
      \cup [kind : {"user", "library"}, name : {NoName}, target : Paths \ {<<>>}]

Texts == Seq(Lines) \ {<<>>}

ASSUME PathsAssumption ==
    /\ Pseudo \notin Paths
    /\ Cwd \in Paths
    /\ LibraryDir \in Paths
    /\ DotLs \in [Segments -> Segments]
    /\ "." \in Segments
ASSUME TextsAssumption ==
    /\ \A q \in Programs : q.name \in Paths \cup {Pseudo} /\ q.text \in Texts
    /\ \A d \in Disks : DOMAIN d \subseteq Paths /\ \A p \in DOMAIN d : d[p] \in Texts
ASSUME DisksAssumption == \A d \in Disks : IsFiniteSet(DOMAIN d)
ASSUME SegmentsAssumption == IsFiniteSet(Segments) /\ MaxPath \in Nat

VARIABLES
    disk,      \* what opens, by its place in the tree
    stack,     \* the active calls, the innermost last
    seen,      \* DefSeen: every definition met, with its place
    out,       \* the flat source, each line with its place
    status,    \* "running", "expanded" or "failed"
    error      \* why it failed, and where

vars == <<disk, stack, seen, out, status, error>>

-----------------------------------------------------------------------------
(* Paths.                                                                  *)
Leading(p) == SubSeq(p, 1, Len(p) - 1)
IsAbsolute(p) == p[1] = "/"

(* dirname_from_path                                                       *)
Dirname(p) == IF Len(p) <= 1 THEN <<".">> ELSE Leading(p)

(* canonicalize_path_or_keep: realpath is compiled in only where           *)
(* _POSIX_VERSION is defined, which takes a header that ls.c does not      *)
(* include; under the Makefile's -std=c11 the path stays as written.       *)
Canonicalize(p) == p

(* What the file system makes of a path: it walks from a directory, or     *)
(* from the root, through "." and "..".                                    *)
Enter(dir, s) ==
    CASE s = "/"  -> <<>>
      [] s = "."  -> dir
      [] s = ".." -> IF dir = <<>> THEN <<>> ELSE Leading(dir)
      [] OTHER    -> Append(dir, s)

WalkFrom(dir) ==
    LET walk[p \in Paths] == IF p = <<>> THEN dir ELSE Enter(walk[Leading(p)], p[Len(p)])
    IN  walk

PlaceOf(p) == WalkFrom(Cwd)[p]

(* Only a name may end the path of a file.  fopen opens what ends in "."   *)
(* or ".." as well, a directory, which reads as empty: left out here.      *)
EndsInName(p) == p # <<>> /\ p[Len(p)] \notin {".", "..", "/"}

Readable(p) == Len(p) <= MaxPath /\ EndsInName(p) /\ PlaceOf(p) \in DOMAIN disk
FileText(p) == disk[PlaceOf(p)]

ResolveUser(from, target) ==
    Canonicalize(IF IsAbsolute(target) THEN target ELSE Dirname(from) \o target)

(* resolve_official_import_path: name.ls if that opens, else name.         *)
Suffixed(target)   == LibraryDir \o <<DotLs[target[1]]>>
Unsuffixed(target) == LibraryDir \o <<target[1]>>
ResolveOfficial(target) ==
    Canonicalize(IF Readable(Suffixed(target)) THEN Suffixed(target) ELSE Unsuffixed(target))

-----------------------------------------------------------------------------
Place(p, n) == [path |-> p, line |-> n]
NoPlace == Place(<<>>, 0)
NoError == [kind |-> "none", at |-> NoPlace, first |-> NoPlace]

Frame(p, lib, text) == [path |-> p, library |-> lib, text |-> text, line |-> 1]

Top  == stack[Len(stack)]
Line == Top.text[Top.line]
Here == Place(Top.path, Top.line)

Reading(kind) ==
    /\ status = "running"
    /\ Top.line <= Len(Top.text)
    /\ Line.kind = kind

(* The next line of the innermost call.                                    *)
Advance == stack' = [stack EXCEPT ![Len(stack)].line = @ + 1]

Emit == out' = Append(out, [text |-> Line, at |-> Here])

Fail(kind, first) ==
    /\ status' = "failed"
    /\ error' = [kind |-> kind, at |-> Here, first |-> first]
    /\ UNCHANGED <<disk, stack, seen, out>>

-----------------------------------------------------------------------------
Init ==
    /\ disk \in Disks
    /\ \E q \in Programs : stack = <<Frame(q.name, FALSE, q.text)>>
    /\ seen = <<>>
    /\ out = <<>>
    /\ status = "running"
    /\ error = NoError

(* Mutant of Blank: the line is skipped instead of copied.                 *)
BlankSkipped ==
    /\ Reading("blank")
    /\ Advance
    /\ UNCHANGED <<disk, seen, out, status, error>>

Blank ==
    /\ Reading("blank")
    /\ Emit
    /\ Advance
    /\ UNCHANGED <<disk, seen, status, error>>

(* Mutant of FirstSeen: each file has a list of its own.                   *)
FirstSeenHere(name) ==
    {i \in 1..Len(seen) : seen[i].name = name /\ seen[i].at.path = Top.path}

(* defseen_add_unique: one list of names for the whole import tree.        *)
FirstSeen(name) == {i \in 1..Len(seen) : seen[i].name = name}

Define ==
    /\ Reading("def") \/ Reading("compound")
    /\ FirstSeen(Line.name) = {}
    /\ seen' = Append(seen, [name |-> Line.name, at |-> Here])
    /\ Emit
    /\ Advance
    /\ UNCHANGED <<disk, status, error>>

(* Mutant of RejectDuplicate: the newest entry is reported, whatever its   *)
(* name.                                                                   *)
RejectDuplicateNewest ==
    /\ Reading("def") \/ Reading("compound")
    /\ FirstSeen(Line.name) # {}
    /\ Fail("duplicate", seen[Len(seen)].at)

RejectDuplicate ==
    /\ Reading("def") \/ Reading("compound")
    /\ \E i \in FirstSeen(Line.name) : Fail("duplicate", seen[i].at)

(* Mutant of Expression: library mode is not looked at.                    *)
ExpressionAnywhere ==
    /\ Reading("expr")
    /\ Emit
    /\ Advance
    /\ UNCHANGED <<disk, seen, status, error>>

Expression ==
    /\ Reading("expr")
    /\ ~Top.library
    /\ Emit
    /\ Advance
    /\ UNCHANGED <<disk, seen, status, error>>

RejectExpression ==
    /\ Reading("expr")
    /\ Top.library
    /\ Fail("not a definition", NoPlace)

RejectSyntax ==
    /\ Reading("badimport")
    /\ Fail("import syntax", NoPlace)

(* A relative import of a program that is no file.                         *)
RejectBaseless ==
    /\ Reading("user")
    /\ ~IsAbsolute(Line.target)
    /\ Top.path = Pseudo
    /\ Fail("no base", NoPlace)

RejectLibrary ==
    /\ Reading("library")
    /\ ~Readable(Suffixed(Line.target))
    /\ ~Readable(Unsuffixed(Line.target))
    /\ Fail("no library", NoPlace)

(* The path of an import line in the file at a path, if it resolves.       *)
PathFrom(path, l) ==
    IF l.kind = "user" THEN ResolveUser(path, l.target) ELSE ResolveOfficial(l.target)

ImportPath == PathFrom(Top.path, Line)

Resolves ==
    \/ Reading("user") /\ (IsAbsolute(Line.target) \/ Top.path # Pseudo)
    \/ /\ Reading("library")
       /\ Readable(Suffixed(Line.target)) \/ Readable(Unsuffixed(Line.target))

OnStack(p) == \E i \in 1..Len(stack) : stack[i].path = p

(* Mutant of RejectCycle: a file that is being read is passed over, as an  *)
(* include guard would.                                                    *)
SkipCycle ==
    /\ Resolves
    /\ OnStack(ImportPath)
    /\ Advance
    /\ UNCHANGED <<disk, seen, out, status, error>>

RejectCycle ==
    /\ Resolves
    /\ OnStack(ImportPath)
    /\ Fail("cycle", NoPlace)

(* Mutant of RejectUnreadable: on with the loop, on the same line.         *)
RetryUnreadable ==
    /\ Resolves
    /\ ~OnStack(ImportPath)
    /\ ~Readable(ImportPath)
    /\ UNCHANGED vars

RejectUnreadable ==
    /\ Resolves
    /\ ~OnStack(ImportPath)
    /\ ~Readable(ImportPath)
    /\ Fail("unreadable", NoPlace)

Import ==
    /\ Resolves
    /\ ~OnStack(ImportPath)
    /\ Readable(ImportPath)
    /\ stack' = Append(stack, Frame(ImportPath, TRUE, FileText(ImportPath)))
    /\ UNCHANGED <<disk, seen, out, status, error>>

AtEnd == status = "running" /\ Top.line > Len(Top.text)

(* Mutant of Return: the line after the import is passed over too.         *)
ReturnTwice ==
    /\ AtEnd
    /\ Len(stack) > 1
    /\ stack' = [Leading(stack) EXCEPT ![Len(stack) - 1].line = @ + 2]
    /\ UNCHANGED <<disk, seen, out, status, error>>

(* The imported file is done: back to the line after its import.           *)
Return ==
    /\ AtEnd
    /\ Len(stack) > 1
    /\ stack' = [Leading(stack) EXCEPT ![Len(stack) - 1].line = @ + 1]
    /\ UNCHANGED <<disk, seen, out, status, error>>

Finish ==
    /\ AtEnd
    /\ Len(stack) = 1
    /\ status' = "expanded"
    /\ UNCHANGED <<disk, stack, seen, out, error>>

Next ==
    \/ Blank \/ Define \/ Expression \/ Import \/ Return \/ Finish
    \/ RejectDuplicate \/ RejectExpression \/ RejectSyntax \/ RejectBaseless
    \/ RejectLibrary \/ RejectCycle \/ RejectUnreadable

Spec == Init /\ [][Next]_vars
FairSpec == Spec /\ WF_vars(Next)

-----------------------------------------------------------------------------
Places == [path : Paths \cup {Pseudo}, line : Nat]
ErrorKinds ==
    {"none", "duplicate", "not a definition", "import syntax", "no base",
     "no library", "cycle", "unreadable"}

InText(f) == f.line \in 1..Len(f.text) + 1
Waits(f)  == f.line <= Len(f.text) /\ f.text[f.line].kind \in {"user", "library"}

(* Every call is at a line of its text, or past the last one; a call that  *)
(* waits for an import is at its import line (line_start and cursor of     *)
(* preprocess_source_recursive never run past the text).                   *)
TypeOK ==
    /\ disk \in Disks
    /\ stack \in Seq([path : Paths \cup {Pseudo}, library : BOOLEAN,
                      text : Texts, line : Nat])
    /\ stack # <<>>
    /\ \A i \in 1..Len(stack) : InText(stack[i])
    /\ \A i \in 1..Len(stack) - 1 : Waits(stack[i])
    /\ seen \in Seq([name : Names, at : Places])
    /\ out \in Seq([text : Lines, at : Places])
    /\ status \in {"running", "expanded", "failed"}
    /\ error \in [kind : ErrorKinds, at : Places, first : Places]

IsDef(l) == l.kind \in {"def", "compound"}

(* The flat source never defines a name twice, whichever files of the      *)
(* import tree the definitions come from: seen_defs follows the source     *)
(* through every level of the recursion.                                   *)
NoNameTwice ==
    \A i, j \in 1..Len(out) :
        IsDef(out[i].text) /\ IsDef(out[j].text) /\ out[i].text.name = out[j].text.name
            => i = j

(* Only the program itself contributes expressions: "imported files may    *)
(* only contain definitions, comments, blank lines, and imports".          *)
OnlyProgramEvaluates ==
    \A i \in 1..Len(out) :
        out[i].text.kind = "expr" => out[i].at.path = stack[1].path

(* A reported duplicate is one: the earlier place it names holds a         *)
(* definition of the same name that is in the flat source.                 *)
DuplicateReportIsTrue ==
    error.kind = "duplicate" =>
        \E i \in 1..Len(out) :
            /\ out[i].at = error.first
            /\ IsDef(out[i].text)
            /\ out[i].text.name = Line.name

IsImport(l) == l.kind \in {"user", "library"}

(* Lists one after the other: the first i of them.                         *)
Joined(lists) ==
    LET first[i \in Nat] == IF i = 0 THEN <<>> ELSE first[i - 1] \o lists[i]
    IN  first

(* What the lines of the text at a path stand for: an import line for what *)
(* its file comes to, any other line for itself.                           *)
LineLists(files, p, text) ==
    [i \in 1..Len(text) |->
        IF IsImport(text[i]) THEN files[PathFrom(p, text[i])]
        ELSE <<[text |-> text[i], at |-> Place(p, i)]>>]

Flat(files, p, text) == Joined(LineLists(files, p, text))[Len(text)]

(* Expansion by recursion on the import tree, without a stack: what each   *)
(* file comes to, by its path, when imports are followed at most n deep.   *)
Expansion[n \in Nat] ==
    [p \in Paths |-> IF n = 0 THEN <<>> ELSE Flat(Expansion[n - 1], p, FileText(p))]

(* The flat source is the import tree read depth first, in source order,   *)
(* every import line replaced by the whole of its file: no line of any     *)
(* file is lost, repeated or out of its place, although one output buffer  *)
(* and one list of names are threaded through every level of the           *)
(* recursion.  As many levels as there are files are enough to follow,     *)
(* without a circle, every import.                                         *)
ExpandsDepthFirst ==
    status = "expanded" =>
        out = Flat(Expansion[Cardinality(DOMAIN disk)], stack[1].path, stack[1].text)

(* The files that the file at a place imports, by their places.            *)
Imported(place) ==
    { IF l.kind = "library" THEN PlaceOf(ResolveOfficial(l.target))
      ELSE WalkFrom(Leading(place))[l.target] :
        l \in {m \in {disk[place][i] : i \in 1..Len(disk[place])} : IsImport(m)} }

(* Nothing a file imports, directly or not, imports it: all of that is in  *)
(* some set of files which has with each file also those it imports.       *)
InNoCircle(place) ==
    \E files \in SUBSET DOMAIN disk :
        /\ \A q \in files \cup {place} : Imported(q) \subseteq files
        /\ place \notin files

(* Files that import each other in a circle never make a program, however  *)
(* the paths are written: where the textual check of import_stack_contains *)
(* misses the circle, the growing path makes fopen fail.                   *)
CyclesNeverExpand ==
    status = "expanded" =>
        \A i \in 1..Len(out) :
            out[i].at.path # stack[1].path => InNoCircle(PlaceOf(out[i].at.path))

(* Expansion always comes to an end, also for files that import each other *)
(* under ever longer paths.                                                *)
Terminates == <>(status # "running")
=============================================================================
