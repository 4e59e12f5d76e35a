--------------------------- MODULE Imports_proofs ---------------------------
(***************************************************************************)
(* Proofs about the import preprocessor, for any file system, any program  *)
(* and any depth of imports.                                               *)
(***************************************************************************)
EXTENDS Paths_proofs

Frames == [path : Paths \cup {Pseudo}, library : BOOLEAN, text : Texts, line : Nat]

(* The stack part of TypeOK.                                               *)
IsStack(s) ==
    /\ s \in Seq(Frames)
    /\ s # <<>>
    /\ \A i \in 1..Len(s) : InText(s[i])
    /\ \A i \in 1..Len(s) - 1 : Waits(s[i])

(* Two stacks agree on what never changes of their first n calls.          *)
SameCalls(r, s, n) ==
    \A k \in 1..n : r[k].path = s[k].path /\ r[k].library = s[k].library

OutLines == [text : Lines, at : Places]
Entries  == [name : Names, at : Places]

(* The rest of TypeOK.                                                     *)
RestOK ==
    /\ disk \in Disks
    /\ seen \in Seq(Entries)
    /\ out \in Seq(OutLines)
    /\ status \in {"running", "expanded", "failed"}
    /\ error \in [kind : ErrorKinds, at : Places, first : Places]

(* Every definition written is in the list of definitions met, under the   *)
(* same name and place, and the other way round.                           *)
WrittenIsSeen ==
    \A i \in 1..Len(out) : IsDef(out[i].text) =>
        \E k \in 1..Len(seen) : seen[k] = [name |-> out[i].text.name, at |-> out[i].at]

IsWritten(s) ==
    \E i \in 1..Len(out) :
        out[i].at = s.at /\ IsDef(out[i].text) /\ out[i].text.name = s.name

SeenIsWritten == \A k \in 1..Len(seen) : IsWritten(seen[k])

(* The program is the outermost call and the only one that is no library.  *)
OnlyImportsAreLibraries ==
    \A k \in 1..Len(stack) : stack[k].library = (k > 1)

(* Nothing runs on after an error.                                         *)
ErrorsFail == error.kind # "none" => status = "failed"

IInv ==
    /\ TypeOK
    /\ WrittenIsSeen
    /\ SeenIsWritten
    /\ NoNameTwice
    /\ OnlyImportsAreLibraries
    /\ OnlyProgramEvaluates
    /\ ErrorsFail
    /\ DuplicateReportIsTrue

-----------------------------------------------------------------------------
(* What appending, replacing the last element (the top of the stack) and   *)
(* dropping it do to a sequence.                                           *)
LEMMA AppendSeq ==
    ASSUME NEW S, NEW s \in Seq(S), NEW f \in S
    PROVE  /\ Append(s, f) \in Seq(S)
           /\ Append(s, f) # <<>>
           /\ Len(s) \in Nat
           /\ Len(Append(s, f)) = Len(s) + 1
           /\ \A k \in 1..Len(s) : Append(s, f)[k] = s[k]
           /\ Append(s, f)[Len(s) + 1] = f
  OBVIOUS

(* The last element replaced: a sequence of the same length, the others    *)
(* kept.                                                                   *)
LEMMA ReplaceLast ==
    ASSUME NEW S, NEW s \in Seq(S), s # <<>>, NEW f \in S
    PROVE  LET r == [s EXCEPT ![Len(s)] = f]
           IN  /\ r \in Seq(S)
               /\ r # <<>>
               /\ Len(r) = Len(s)
               /\ Len(s) \in Nat \ {0}
               /\ \A k \in 1..Len(s) - 1 : r[k] = s[k]
               /\ r[Len(s)] = f
  OBVIOUS

-----------------------------------------------------------------------------
(* A frame and the line it is at.                                          *)
LEMMA FrameFacts ==
    ASSUME NEW f \in Frames, InText(f)
    PROVE  /\ Len(f.text) \in Nat
           /\ f.line \in Nat
           /\ f.line <= Len(f.text) => f.text[f.line] \in Lines
  <1>1. f.text \in Seq(Lines)
    BY DEF Frames, Texts
  <1> QED
    BY <1>1 DEF InText

(* Moved on by a line, it is still in its text.                            *)
LEMMA FrameMoves ==
    ASSUME NEW f \in Frames, InText(f), f.line <= Len(f.text)
    PROVE  LET g == [f EXCEPT !.line = @ + 1]
           IN  g \in Frames /\ InText(g) /\ g.path = f.path /\ g.library = f.library
  <1>1. f.line + 1 \in 1..Len(f.text) + 1
    BY FrameFacts DEF InText
  <1> QED
    BY <1>1, FrameFacts DEF Frames, InText

(* A call begins at the first line.                                        *)
LEMMA FrameStarts ==
    ASSUME NEW p \in Paths \cup {Pseudo}, NEW lib \in BOOLEAN, NEW t \in Texts
    PROVE  /\ Frame(p, lib, t) \in Frames
           /\ InText(Frame(p, lib, t))
           /\ Frame(p, lib, t).library = lib
           /\ Frame(p, lib, t).path = p
  <1>1. t \in Seq(Lines)
    BY DEF Texts
  <1>2. 1 \in 1..Len(t) + 1
    BY <1>1
  <1> QED
    BY <1>2 DEF Frame, Frames, InText

(* The three ways a stack changes: its last call changes, ...              *)
LEMMA StackMoves ==
    ASSUME NEW s, IsStack(s), NEW f \in Frames, InText(f),
           f.path = s[Len(s)].path, f.library = s[Len(s)].library
    PROVE  LET r == [s EXCEPT ![Len(s)] = f]
           IN  IsStack(r) /\ Len(r) = Len(s) /\ SameCalls(r, s, Len(s))
  <1> DEFINE r == [s EXCEPT ![Len(s)] = f]
             n == Len(s)
  <1>1. /\ r \in Seq(Frames) /\ r # <<>> /\ Len(r) = n /\ n \in Nat \ {0}
        /\ \A k \in 1..n - 1 : r[k] = s[k]
        /\ r[n] = f
    BY ReplaceLast DEF IsStack
  <1> HIDE DEF r
  <1>2. \A k \in 1..n : k # n => k \in 1..n - 1
    BY <1>1
  <1> QED
    BY <1>1, <1>2 DEF IsStack, SameCalls, r

(* ... a call is added on one that waits, ...                              *)
LEMMA StackGrows ==
    ASSUME NEW s, IsStack(s), Waits(s[Len(s)]), NEW f \in Frames, InText(f)
    PROVE  LET r == Append(s, f)
           IN  /\ IsStack(r) /\ Len(r) = Len(s) + 1 /\ SameCalls(r, s, Len(s))
               /\ r[Len(s) + 1] = f
  <1> DEFINE r == Append(s, f)
             n == Len(s)
  <1>1. /\ r \in Seq(Frames) /\ r # <<>> /\ Len(r) = n + 1 /\ n \in Nat
        /\ \A k \in 1..n : r[k] = s[k]
        /\ r[n + 1] = f
    BY AppendSeq DEF IsStack
  <1> HIDE DEF r
  <1>2. \A k \in 1..n : k # n => k \in 1..n - 1
    BY <1>1
  <1>3. \A k \in 1..n + 1 : k # n + 1 => k \in 1..n
    BY <1>1
  <1>4. (n + 1) - 1 = n
    BY <1>1
  <1>5. \A k \in 1..Len(r) : InText(r[k])
    BY <1>1, <1>3 DEF IsStack
  <1>6. \A k \in 1..Len(r) - 1 : Waits(r[k])
    BY <1>1, <1>2, <1>4 DEF IsStack
  <1> QED
    BY <1>1, <1>5, <1>6 DEF IsStack, SameCalls, r

(* ... the last call is dropped.                                           *)
LEMMA StackShrinks ==
    ASSUME NEW s, IsStack(s), Len(s) > 1
    PROVE  LET r == Leading(s)
           IN  /\ IsStack(r) /\ Len(r) = Len(s) - 1
               /\ \A k \in 1..Len(r) : r[k] = s[k]
               /\ Waits(r[Len(r)])
  <1> DEFINE r == Leading(s)
             n == Len(s)
  <1>1. /\ r \in Seq(Frames) /\ Len(r) = n - 1 /\ \A k \in 1..n - 1 : r[k] = s[k]
    BY LeadingSeq DEF IsStack
  <1>2. s \in Seq(Frames)
    BY DEF IsStack
  <1>3. n \in Nat /\ n > 1
    BY <1>2
  <1> HIDE DEF r, n
  <1>4. n - 1 \in 1..n - 1 /\ n - 1 # 0
    BY <1>3
  <1>5. \A k \in 1..n - 1 : k \in 1..n
    BY <1>3
  <1>6. \A k \in 1..(n - 1) - 1 : k \in 1..n - 1
    BY <1>3
  <1>7. r # <<>>
    BY <1>1, <1>4
  <1>8. \A k \in 1..n - 1 : InText(r[k]) /\ Waits(r[k])
    BY <1>1, <1>5 DEF IsStack, n
  <1> QED
    BY <1>1, <1>4, <1>6, <1>7, <1>8 DEF IsStack, r, n

-----------------------------------------------------------------------------
(* The innermost call is one of the calls.                                 *)
LEMMA TopIsFrame ==
    ASSUME IsStack(stack)
    PROVE  /\ Len(stack) \in Nat \ {0}
           /\ Top \in Frames
           /\ Top = stack[Len(stack)]
           /\ InText(Top)
  BY DEF IsStack, Top

(* The line being read is a line.                                          *)
LEMMA LineIsLine ==
    ASSUME IsStack(stack), Top.line <= Len(Top.text)
    PROVE  Line \in Lines
  BY TopIsFrame, FrameFacts DEF Line

(* Moving on to the next line of the innermost call.                       *)
LEMMA AdvanceStack ==
    ASSUME IsStack(stack), Top.line <= Len(Top.text), Advance
    PROVE  /\ IsStack(stack')
           /\ Len(stack') = Len(stack)
           /\ SameCalls(stack', stack, Len(stack))
  <1> DEFINE f == [Top EXCEPT !.line = @ + 1]
  <1>1. stack' = [stack EXCEPT ![Len(stack)] = f]
    BY DEF Advance, Top
  <1>2. /\ f \in Frames /\ InText(f)
        /\ f.path = stack[Len(stack)].path /\ f.library = stack[Len(stack)].library
    BY TopIsFrame, FrameMoves
  <1> HIDE DEF f
  <1> QED
    BY <1>1, <1>2, StackMoves

(* Entering an imported file, at an import line.                           *)
LEMMA PushStack ==
    ASSUME IsStack(stack), Top.line <= Len(Top.text), Line.kind \in {"user", "library"},
           NEW p \in Paths, NEW t \in Texts, stack' = Append(stack, Frame(p, TRUE, t))
    PROVE  /\ IsStack(stack')
           /\ Len(stack') = Len(stack) + 1
           /\ SameCalls(stack', stack, Len(stack))
           /\ stack'[Len(stack) + 1].library = TRUE
  <1> DEFINE f == Frame(p, TRUE, t)
  <1>1. f \in Frames /\ InText(f) /\ f.library = TRUE
    BY FrameStarts
  <1>2. Waits(stack[Len(stack)])
    BY TopIsFrame DEF Waits, Top, Line
  <1>3. stack' = Append(stack, f)
    OBVIOUS
  <1> HIDE DEF f
  <1> QED
    BY <1>1, <1>2, <1>3, StackGrows

(* Leaving an imported file: on with the line after its import.            *)
LEMMA PopStack ==
    ASSUME IsStack(stack), Len(stack) > 1,
           stack' = [Leading(stack) EXCEPT ![Len(stack) - 1].line = @ + 1]
    PROVE  /\ IsStack(stack')
           /\ Len(stack') = Len(stack) - 1
           /\ SameCalls(stack', stack, Len(stack'))
  <1> DEFINE s == Leading(stack)
             m == Len(s)
             f == [s[m] EXCEPT !.line = @ + 1]
  <1>1. /\ IsStack(s) /\ m = Len(stack) - 1 /\ \A k \in 1..m : s[k] = stack[k]
        /\ Waits(s[m])
    BY StackShrinks
  <1>2. stack' = [s EXCEPT ![m] = f]
    BY <1>1
  <1> HIDE DEF s
  <1>3. s[m] \in Frames /\ InText(s[m])
    BY <1>1 DEF IsStack
  <1>4. f \in Frames /\ InText(f) /\ f.path = s[m].path /\ f.library = s[m].library
    BY <1>1, <1>3, FrameMoves DEF Waits
  <1> HIDE DEF f
  <1>5. IsStack(stack') /\ Len(stack') = m /\ SameCalls(stack', s, m)
    <2> DEFINE r == [s EXCEPT ![Len(s)] = f]
    <2>1. IsStack(r) /\ Len(r) = Len(s) /\ SameCalls(r, s, Len(s))
      BY <1>1, <1>4, StackMoves
    <2>2. stack' = r
      BY <1>2
    <2> QED
      BY <2>1, <2>2
  <1> QED
    BY <1>1, <1>5 DEF SameCalls

-----------------------------------------------------------------------------
(* TypeOK is its two parts.                                                *)
LEMMA TypeParts ==
    TypeOK <=> IsStack(stack) /\ RestOK
  BY DEF TypeOK, IsStack, RestOK, Frames, OutLines, Entries

(* The same after a step.                                                  *)
LEMMA TypePartsPrime ==
    TypeOK' <=> IsStack(stack') /\ RestOK'
  BY DEF TypeOK, IsStack, RestOK, Frames, OutLines, Entries

(* The line being read has a place, as messages and seen_defs write it.    *)
LEMMA HereIsPlace ==
    ASSUME IsStack(stack)
    PROVE  Here \in Places
  BY TopIsFrame, FrameFacts DEF Here, Place, Places, Frames

(* A definition line defines a name (pp_parse_definition_name).            *)
LEMMA DefHasName ==
    ASSUME NEW l \in Lines, IsDef(l)
    PROVE  l.name \in Names
  BY DEF Lines, IsDef

(* An import line has a target (parse_import_line).                        *)
LEMMA ImportHasTarget ==
    ASSUME NEW l \in Lines, l.kind \in {"user", "library"}
    PROVE  l.target \in Paths /\ l.target # <<>>
  BY DEF Lines

(* An import line that resolves does so to a path.                         *)
LEMMA ResolvedIsPath ==
    ASSUME IsStack(stack), Resolves
    PROVE  ImportPath \in Paths
  <1>1. Line \in Lines /\ Line.kind \in {"user", "library"}
    BY LineIsLine DEF Resolves, Reading
  <1>2. Line.target \in Paths /\ Line.target # <<>>
    BY <1>1, ImportHasTarget
  <1>3. CASE Line.kind = "user"
    <2>1. Top.path \in Paths \cup {Pseudo}
      BY TopIsFrame DEF Frames
    <2>2. ResolveUser(Top.path, Line.target) \in Paths
      <3>1. CASE IsAbsolute(Line.target)
        BY <1>2, <3>1 DEF ResolveUser, Canonicalize
      <3>2. CASE ~IsAbsolute(Line.target)
        <4>1. Top.path \in Paths
          BY <1>3, <2>1, <3>2 DEF Resolves, Reading
        <4> QED
          BY <1>2, <3>2, <4>1, DirnameIsPath, JoinedIsPath DEF ResolveUser, Canonicalize
      <3> QED
        BY <3>1, <3>2
    <2> QED
      BY <1>3, <2>2 DEF ImportPath, PathFrom
  <1>4. CASE Line.kind = "library"
    <2>1. Line.target[1] \in Segments /\ DotLs[Line.target[1]] \in Segments
      BY <1>2, PathsAssumption DEF Paths
    <2>2. <<Line.target[1]>> \in Paths /\ <<DotLs[Line.target[1]]>> \in Paths
      BY <2>1 DEF Paths
    <2>3. Suffixed(Line.target) \in Paths /\ Unsuffixed(Line.target) \in Paths
      BY <2>2, JoinedIsPath, PathsAssumption DEF Suffixed, Unsuffixed
    <2> QED
      BY <1>4, <2>3 DEF ImportPath, PathFrom, ResolveOfficial, Canonicalize
  <1> QED
    BY <1>1, <1>3, <1>4

(* What read_file_text reads is a text.                                    *)
LEMMA ReadableIsText ==
    ASSUME disk \in Disks, NEW q, Readable(q)
    PROVE  FileText(q) \in Texts
  BY TextsAssumption DEF Readable, FileText

-----------------------------------------------------------------------------
(* Writing a line.                                                         *)
LEMMA WriteType ==
    ASSUME IsStack(stack), RestOK, Top.line <= Len(Top.text), Emit
    PROVE  /\ out' \in Seq(OutLines)
           /\ Len(out) \in Nat
           /\ Len(out') = Len(out) + 1
           /\ \A i \in 1..Len(out) : out'[i] = out[i]
           /\ out'[Len(out) + 1] = [text |-> Line, at |-> Here]
           /\ \A i \in 1..Len(out') : i # Len(out) + 1 => i \in 1..Len(out)
           /\ \A i \in 1..Len(out) : i \in 1..Len(out')
  <1> DEFINE x == [text |-> Line, at |-> Here]
  <1>1. x \in OutLines
    BY LineIsLine, HereIsPlace DEF OutLines
  <1>2. out' = Append(out, x) /\ out \in Seq(OutLines)
    BY DEF Emit, RestOK
  <1> HIDE DEF x
  <1>3. /\ out' \in Seq(OutLines) /\ Len(out) \in Nat /\ Len(out') = Len(out) + 1
        /\ \A i \in 1..Len(out) : out'[i] = out[i]
        /\ out'[Len(out) + 1] = x
    BY <1>1, <1>2, AppendSeq
  <1>4. \A n \in Nat : \A i \in 1..n + 1 : i # n + 1 => i \in 1..n
    OBVIOUS
  <1>5. \A n \in Nat : \A i \in 1..n : i \in 1..n + 1
    OBVIOUS
  <1> QED
    BY <1>3, <1>4, <1>5 DEF x

(* A line that defines nothing leaves the definitions as they were.        *)
LEMMA WriteOther ==
    ASSUME IsStack(stack), RestOK, Top.line <= Len(Top.text), Emit, ~IsDef(Line), seen' = seen,
           WrittenIsSeen, SeenIsWritten, NoNameTwice
    PROVE  WrittenIsSeen' /\ SeenIsWritten' /\ NoNameTwice'
  <1>1. ~IsDef(out'[Len(out) + 1].text)
    BY WriteType
  <1>2. WrittenIsSeen'
    BY <1>1, WriteType DEF WrittenIsSeen
  <1>3. SeenIsWritten'
    <2> SUFFICES ASSUME NEW k \in 1..Len(seen) PROVE IsWritten(seen[k])'
      BY DEF SeenIsWritten
    <2>1. PICK i \in 1..Len(out) : /\ out[i].at = seen[k].at
                                   /\ IsDef(out[i].text)
                                   /\ out[i].text.name = seen[k].name
      BY DEF SeenIsWritten, IsWritten
    <2>2. i \in 1..Len(out') /\ out'[i] = out[i]
      BY <2>1, WriteType
    <2> QED
      BY <2>1, <2>2 DEF IsWritten
  <1>4. NoNameTwice'
    BY <1>1, WriteType DEF NoNameTwice
  <1> QED
    BY <1>2, <1>3, <1>4

(* A definition that is new to the list of those met is new to the text.   *)
LEMMA WriteDefinition ==
    ASSUME IsStack(stack), RestOK, Top.line <= Len(Top.text), Emit, IsDef(Line),
           seen' = Append(seen, [name |-> Line.name, at |-> Here]),
           FirstSeen(Line.name) = {},
           WrittenIsSeen, SeenIsWritten, NoNameTwice
    PROVE  seen' \in Seq(Entries) /\ WrittenIsSeen' /\ SeenIsWritten' /\ NoNameTwice'
  <1> DEFINE e == [name |-> Line.name, at |-> Here]
             n == Len(out) + 1
             m == Len(seen) + 1
  <1>1. e \in Entries /\ seen \in Seq(Entries)
    BY LineIsLine, DefHasName, HereIsPlace DEF Entries, RestOK
  <1>2. /\ seen' \in Seq(Entries) /\ Len(seen) \in Nat /\ Len(seen') = m
        /\ \A k \in 1..Len(seen) : seen'[k] = seen[k]
        /\ seen'[m] = e
    <2>1. seen' = Append(seen, e)
      OBVIOUS
    <2> HIDE DEF e
    <2> QED
      BY <1>1, <2>1, AppendSeq
  <1>3. /\ \A k \in 1..m : k # m => k \in 1..Len(seen)
        /\ \A k \in 1..Len(seen) : k \in 1..m
        /\ m \in 1..m
    BY <1>2
  <1>4. out'[n].text = Line /\ out'[n].at = Here /\ n \in 1..Len(out')
    BY WriteType
  <1>5. WrittenIsSeen'
    <2> SUFFICES ASSUME NEW i \in 1..Len(out'), IsDef(out'[i].text)
                 PROVE  \E k \in 1..Len(seen') :
                            seen'[k] = [name |-> out'[i].text.name, at |-> out'[i].at]
      BY DEF WrittenIsSeen
    <2>1. CASE i = n
      BY <1>2, <1>3, <1>4, <2>1
    <2>2. CASE i # n
      <3>1. i \in 1..Len(out) /\ out'[i] = out[i]
        BY <2>2, WriteType
      <3>2. PICK k \in 1..Len(seen) : seen[k] = [name |-> out[i].text.name, at |-> out[i].at]
        BY <3>1 DEF WrittenIsSeen
      <3> QED
        BY <1>2, <1>3, <3>1, <3>2
    <2> QED
      BY <2>1, <2>2
  <1>6. SeenIsWritten'
    <2> SUFFICES ASSUME NEW k \in 1..Len(seen')
                 PROVE  \E i \in 1..Len(out') : /\ out'[i].at = seen'[k].at
                                                /\ IsDef(out'[i].text)
                                                /\ out'[i].text.name = seen'[k].name
      BY DEF SeenIsWritten, IsWritten
    <2>1. CASE k = m
      BY <1>2, <1>4, <2>1
    <2>2. CASE k # m
      <3>1. k \in 1..Len(seen) /\ seen'[k] = seen[k]
        BY <1>2, <1>3, <2>2
      <3>2. IsWritten(seen[k])
        BY <3>1 DEF SeenIsWritten
      <3> QED
        BY <3>1, <3>2, WriteType DEF IsWritten
    <2> QED
      BY <2>1, <2>2
  <1>7. NoNameTwice'
    <2>1. \A i \in 1..Len(out) : IsDef(out[i].text) => out[i].text.name # Line.name
      <3> SUFFICES ASSUME NEW i \in 1..Len(out), IsDef(out[i].text), out[i].text.name = Line.name
                   PROVE  FALSE
        OBVIOUS
      <3>1. PICK k \in 1..Len(seen) : seen[k] = [name |-> out[i].text.name, at |-> out[i].at]
        BY DEF WrittenIsSeen
      <3> QED
        BY <3>1 DEF FirstSeen
    <2> QED
      BY <1>4, <2>1, WriteType DEF NoNameTwice
  <1> QED
    BY <1>2, <1>5, <1>6, <1>7

-----------------------------------------------------------------------------
(* The calls: as many as before, one more, one fewer.                      *)
LEMMA SameLibraries ==
    ASSUME IsStack(stack), IsStack(stack'), OnlyImportsAreLibraries,
           Len(stack') <= Len(stack), SameCalls(stack', stack, Len(stack'))
    PROVE  OnlyImportsAreLibraries' /\ stack'[1].path = stack[1].path
  <1>1. Len(stack') \in Nat \ {0} /\ Len(stack) \in Nat
    BY DEF IsStack
  <1>2. \A k \in 1..Len(stack') : k \in 1..Len(stack)
    BY <1>1
  <1>3. 1 \in 1..Len(stack')
    BY <1>1
  <1> QED
    BY <1>2, <1>3 DEF OnlyImportsAreLibraries, SameCalls

(* One call more, made for an import.                                      *)
LEMMA MoreLibraries ==
    ASSUME IsStack(stack), OnlyImportsAreLibraries, Len(stack') = Len(stack) + 1,
           SameCalls(stack', stack, Len(stack)), stack'[Len(stack) + 1].library = TRUE
    PROVE  OnlyImportsAreLibraries' /\ stack'[1].path = stack[1].path
  <1>1. Len(stack) \in Nat \ {0}
    BY DEF IsStack
  <1>2. \A k \in 1..Len(stack') : k # Len(stack) + 1 => k \in 1..Len(stack)
    BY <1>1
  <1>3. 1 \in 1..Len(stack) /\ Len(stack) + 1 > 1
    BY <1>1
  <1> QED
    BY <1>2, <1>3 DEF OnlyImportsAreLibraries, SameCalls

(* A line is written; only the program's own call writes expressions.      *)
LEMMA WriteSource ==
    ASSUME IsStack(stack), RestOK, Top.line <= Len(Top.text), Emit, OnlyImportsAreLibraries,
           OnlyProgramEvaluates, Line.kind = "expr" => ~Top.library,
           stack'[1].path = stack[1].path
    PROVE  OnlyProgramEvaluates'
  <1>1. Line.kind = "expr" => Here.path = stack[1].path
    <2> SUFFICES ASSUME Line.kind = "expr"
                 PROVE  Here.path = stack[1].path
      OBVIOUS
    <2>1. Len(stack) \in 1..Len(stack) /\ ~stack[Len(stack)].library
      BY TopIsFrame
    <2>2. stack[Len(stack)].library = (Len(stack) > 1)
      BY <2>1, Zenon DEF OnlyImportsAreLibraries
    <2>3. ~(Len(stack) > 1)
      BY <2>1, <2>2, Zenon
    <2>4. Len(stack) = 1
      <3>1. Len(stack) \in Nat \ {0}
        BY TopIsFrame
      <3>2. \A n \in Nat \ {0} : ~(n > 1) => n = 1
        OBVIOUS
      <3> QED
        BY <2>3, <3>1, <3>2, Zenon
    <2> QED
      BY <2>4, TopIsFrame DEF Here, Place
  <1> QED
    BY <1>1, WriteType DEF OnlyProgramEvaluates

(* No error so far, none in this step: nothing to report.                  *)
LEMMA NothingReported ==
    ASSUME ErrorsFail, status = "running", error' = error
    PROVE  ErrorsFail' /\ DuplicateReportIsTrue'
  BY DEF ErrorsFail, DuplicateReportIsTrue

(* A failing step that reports no duplicate.                               *)
LEMMA FailInv ==
    ASSUME IInv, NEW kind \in ErrorKinds \ {"none", "duplicate"}, Fail(kind, NoPlace)
    PROVE  IInv'
  <1>1. IsStack(stack) /\ RestOK
    BY TypeParts DEF IInv
  <1>2. NoPlace \in Places
    <2>1. <<>> \in Paths
      BY DEF Paths
    <2> QED
      BY <2>1 DEF NoPlace, Place, Places
  <1>3. IsStack(stack') /\ RestOK'
    BY <1>1, <1>2, HereIsPlace DEF Fail, RestOK
  <1>4. ErrorsFail' /\ DuplicateReportIsTrue'
    BY DEF Fail, ErrorsFail, DuplicateReportIsTrue
  <1>5. WrittenIsSeen' /\ SeenIsWritten' /\ NoNameTwice'
    BY DEF IInv, Fail, WrittenIsSeen, SeenIsWritten, IsWritten, NoNameTwice
  <1>6. OnlyImportsAreLibraries' /\ OnlyProgramEvaluates'
    BY DEF IInv, Fail, OnlyImportsAreLibraries, OnlyProgramEvaluates
  <1> QED
    BY <1>3, <1>4, <1>5, <1>6, TypePartsPrime DEF IInv

(* The first step of a call.                                               *)
LEMMA InitInv ==
    Init => IInv
  <1> SUFFICES ASSUME Init PROVE IInv
    OBVIOUS
  <1>1. PICK q \in Programs : stack = <<Frame(q.name, FALSE, q.text)>>
    BY DEF Init
  <1> DEFINE f == Frame(q.name, FALSE, q.text)
  <1>2. f \in Frames /\ InText(f) /\ f.library = FALSE
    BY FrameStarts, TextsAssumption
  <1> HIDE DEF f
  <1>3. stack = <<f>>
    BY <1>1 DEF f
  <1>4. Len(stack) = 1 /\ stack[1] = f /\ stack \in Seq(Frames) /\ stack # <<>>
    BY <1>2, <1>3
  <1>5. IsStack(stack)
    BY <1>2, <1>4 DEF IsStack
  <1>6. NoPlace \in Places
    <2>1. <<>> \in Paths
      BY DEF Paths
    <2> QED
      BY <2>1 DEF NoPlace, Place, Places
  <1>7. RestOK
    BY <1>6 DEF Init, RestOK, NoError, ErrorKinds
  <1>8. out = <<>> /\ seen = <<>> /\ Len(out) = 0 /\ Len(seen) = 0
    BY DEF Init
  <1>9. WrittenIsSeen /\ SeenIsWritten /\ NoNameTwice /\ OnlyProgramEvaluates
    BY <1>8 DEF WrittenIsSeen, SeenIsWritten, NoNameTwice, OnlyProgramEvaluates
  <1>10. OnlyImportsAreLibraries
    <2>1. \A k \in 1..Len(stack) : k = 1 /\ (k > 1) = FALSE
      BY <1>4
    <2> QED
      BY <1>2, <1>4, <2>1, Zenon DEF OnlyImportsAreLibraries
  <1>11. ErrorsFail /\ DuplicateReportIsTrue
    BY DEF Init, NoError, ErrorsFail, DuplicateReportIsTrue
  <1> QED
    BY <1>5, <1>7, <1>9, <1>10, <1>11, TypeParts DEF IInv

-----------------------------------------------------------------------------
(* One lemma for each group of actions.                                    *)
LEMMA WriteInv ==
    ASSUME IInv, Blank \/ Define \/ Expression
    PROVE  IInv'
  <1>1. IsStack(stack) /\ RestOK
    BY TypeParts DEF IInv
  <1>2. Top.line <= Len(Top.text) /\ Emit /\ Advance /\ status = "running"
    BY DEF Blank, Define, Expression, Reading
  <1>3. IsStack(stack') /\ Len(stack') = Len(stack) /\ SameCalls(stack', stack, Len(stack))
    BY <1>1, <1>2, AdvanceStack
  <1>4. seen' \in Seq(Entries) /\ WrittenIsSeen' /\ SeenIsWritten' /\ NoNameTwice'
    <2>1. CASE Define
      <3>1. IsDef(Line) /\ FirstSeen(Line.name) = {}
            /\ seen' = Append(seen, [name |-> Line.name, at |-> Here])
        BY <2>1 DEF Define, Reading, IsDef
      <3> QED
        BY <1>1, <1>2, <3>1, WriteDefinition DEF IInv
    <2>2. CASE Blank \/ Expression
      <3>1. ~IsDef(Line) /\ seen' = seen
        BY <2>2 DEF Blank, Expression, Reading, IsDef
      <3> QED
        BY <1>1, <1>2, <3>1, WriteOther DEF IInv, RestOK
    <2> QED
      BY <2>1, <2>2
  <1>5. UNCHANGED <<disk, status, error>>
    BY DEF Blank, Define, Expression
  <1>6. RestOK'
    BY <1>1, <1>2, <1>4, <1>5, WriteType DEF RestOK
  <1>7. OnlyImportsAreLibraries' /\ stack'[1].path = stack[1].path
    <2>1. Len(stack') <= Len(stack)
      BY <1>1, <1>3, TopIsFrame
    <2> QED
      BY <1>1, <1>3, <2>1, SameLibraries DEF IInv
  <1>8. Line.kind = "expr" => ~Top.library
    BY DEF Blank, Define, Expression, Reading
  <1>9. OnlyProgramEvaluates'
    BY <1>1, <1>2, <1>7, <1>8, WriteSource DEF IInv
  <1>10. ErrorsFail' /\ DuplicateReportIsTrue'
    BY <1>2, <1>5, NothingReported DEF IInv
  <1> QED
    BY <1>3, <1>4, <1>6, <1>7, <1>9, <1>10, TypePartsPrime DEF IInv

(* Steps that write nothing and only move between files.                   *)
LEMMA MoveInv ==
    ASSUME IInv, IsStack(stack'), status = "running",
           OnlyImportsAreLibraries', stack'[1].path = stack[1].path,
           status' \in {"running", "expanded"}, UNCHANGED <<disk, seen, out, error>>
    PROVE  IInv'
  <1>1. RestOK'
    BY TypeParts DEF IInv, RestOK
  <1>2. WrittenIsSeen' /\ SeenIsWritten' /\ NoNameTwice'
    BY DEF IInv, WrittenIsSeen, SeenIsWritten, IsWritten, NoNameTwice
  <1>3. OnlyProgramEvaluates'
    BY DEF IInv, OnlyProgramEvaluates
  <1>4. ErrorsFail' /\ DuplicateReportIsTrue'
    BY NothingReported DEF IInv
  <1> QED
    BY <1>1, <1>2, <1>3, <1>4, TypePartsPrime DEF IInv

(* Entering an imported file.                                              *)
LEMMA ImportInv ==
    ASSUME IInv, Import
    PROVE  IInv'
  <1>1. IsStack(stack) /\ RestOK
    BY TypeParts DEF IInv
  <1>2. Top.line <= Len(Top.text) /\ Line.kind \in {"user", "library"} /\ status = "running"
    BY DEF Import, Resolves, Reading
  <1>3. ImportPath \in Paths /\ FileText(ImportPath) \in Texts
    BY <1>1, ResolvedIsPath, ReadableIsText DEF Import, RestOK
  <1>4. stack' = Append(stack, Frame(ImportPath, TRUE, FileText(ImportPath)))
    BY DEF Import
  <1>5. /\ IsStack(stack') /\ Len(stack') = Len(stack) + 1
        /\ SameCalls(stack', stack, Len(stack)) /\ stack'[Len(stack) + 1].library = TRUE
    BY <1>1, <1>2, <1>3, <1>4, PushStack
  <1>6. OnlyImportsAreLibraries' /\ stack'[1].path = stack[1].path
    BY <1>1, <1>5, MoreLibraries DEF IInv
  <1> QED
    BY <1>2, <1>5, <1>6, MoveInv DEF Import

(* Coming back from an imported file.                                      *)
LEMMA ReturnInv ==
    ASSUME IInv, Return \/ Finish
    PROVE  IInv'
  <1>1. IsStack(stack)
    BY TypeParts DEF IInv
  <1>2. CASE Return
    <2>1. Len(stack) > 1 /\ status = "running" /\ UNCHANGED <<disk, seen, out, status, error>>
          /\ stack' = [Leading(stack) EXCEPT ![Len(stack) - 1].line = @ + 1]
      BY <1>2 DEF Return, AtEnd
    <2>2. IsStack(stack') /\ Len(stack') = Len(stack) - 1 /\ SameCalls(stack', stack, Len(stack'))
      BY <1>1, <2>1, PopStack
    <2>3. Len(stack') <= Len(stack)
      BY <1>1, <2>2, TopIsFrame
    <2>4. OnlyImportsAreLibraries' /\ stack'[1].path = stack[1].path
      BY <1>1, <2>2, <2>3, SameLibraries DEF IInv
    <2> QED
      BY <2>1, <2>2, <2>4, MoveInv
  <1>3. CASE Finish
    <2>1. stack' = stack /\ status = "running" /\ status' = "expanded"
          /\ UNCHANGED <<disk, seen, out, error>>
      BY <1>3 DEF Finish, AtEnd
    <2>2. OnlyImportsAreLibraries'
      BY <2>1 DEF IInv, OnlyImportsAreLibraries
    <2> QED
      BY <1>1, <2>1, <2>2, MoveInv
  <1> QED
    BY <1>2, <1>3

(* A duplicate is reported with the place of the earlier definition.       *)
LEMMA DuplicateInv ==
    ASSUME IInv, RejectDuplicate
    PROVE  IInv'
  <1>1. IsStack(stack) /\ RestOK
    BY TypeParts DEF IInv
  <1>2. PICK k \in FirstSeen(Line.name) : Fail("duplicate", seen[k].at)
    BY DEF RejectDuplicate
  <1>3. k \in 1..Len(seen) /\ seen[k].name = Line.name /\ seen \in Seq(Entries)
    BY <1>1 DEF FirstSeen, RestOK
  <1>4. seen[k].at \in Places
    <2>1. seen[k] \in Entries
      BY <1>3
    <2> QED
      BY <2>1 DEF Entries
  <1>5. IsStack(stack') /\ RestOK'
    BY <1>1, <1>2, <1>4, HereIsPlace DEF Fail, RestOK, ErrorKinds
  <1>6. DuplicateReportIsTrue'
    <2>1. IsWritten(seen[k])
      BY <1>3 DEF IInv, SeenIsWritten
    <2>2. PICK i \in 1..Len(out) : /\ out[i].at = seen[k].at
                                   /\ IsDef(out[i].text)
                                   /\ out[i].text.name = seen[k].name
      BY <2>1 DEF IsWritten
    <2>3. error'.first = seen[k].at /\ out' = out /\ stack' = stack
      BY <1>2 DEF Fail
    <2>4. Line' = Line
      BY <2>3 DEF Line, Top
    <2> QED
      BY <1>3, <2>2, <2>3, <2>4 DEF DuplicateReportIsTrue
  <1>7. ErrorsFail'
    BY <1>2 DEF Fail, ErrorsFail
  <1>8. WrittenIsSeen' /\ SeenIsWritten' /\ NoNameTwice'
    BY <1>2 DEF IInv, Fail, WrittenIsSeen, SeenIsWritten, IsWritten, NoNameTwice
  <1>9. OnlyImportsAreLibraries' /\ OnlyProgramEvaluates'
    BY <1>2 DEF IInv, Fail, OnlyImportsAreLibraries, OnlyProgramEvaluates
  <1> QED
    BY <1>5, <1>6, <1>7, <1>8, <1>9, TypePartsPrime DEF IInv

(* The invariant is inductive: every action keeps it.                      *)
LEMMA NextInv ==
    IInv /\ [Next]_vars => IInv'
  <1> SUFFICES ASSUME IInv, [Next]_vars PROVE IInv'
    OBVIOUS
  <1>1. CASE Blank \/ Define \/ Expression
    BY <1>1, WriteInv
  <1>2. CASE Import
    BY <1>2, ImportInv
  <1>3. CASE Return \/ Finish
    BY <1>3, ReturnInv
  <1>4. CASE RejectDuplicate
    BY <1>4, DuplicateInv
  <1>5. CASE RejectExpression
    BY <1>5, FailInv DEF RejectExpression, ErrorKinds
  <1>6. CASE RejectSyntax
    BY <1>6, FailInv DEF RejectSyntax, ErrorKinds
  <1>7. CASE RejectBaseless
    BY <1>7, FailInv DEF RejectBaseless, ErrorKinds
  <1>8. CASE RejectLibrary
    BY <1>8, FailInv DEF RejectLibrary, ErrorKinds
  <1>9. CASE RejectCycle
    BY <1>9, FailInv DEF RejectCycle, ErrorKinds
  <1>10. CASE RejectUnreadable
    BY <1>10, FailInv DEF RejectUnreadable, ErrorKinds
  <1>11. CASE UNCHANGED vars
    <2>1. IsStack(stack') /\ RestOK'
      BY <1>11, TypeParts DEF IInv, vars, RestOK
    <2>2. WrittenIsSeen' /\ SeenIsWritten' /\ NoNameTwice'
      BY <1>11 DEF IInv, vars, WrittenIsSeen, SeenIsWritten, IsWritten, NoNameTwice
    <2>3. OnlyImportsAreLibraries' /\ OnlyProgramEvaluates' /\ ErrorsFail'
      BY <1>11 DEF IInv, vars, OnlyImportsAreLibraries, OnlyProgramEvaluates, ErrorsFail
    <2>4. DuplicateReportIsTrue'
      BY <1>11 DEF IInv, vars, DuplicateReportIsTrue, Line, Top
    <2> QED
      BY <2>1, <2>2, <2>3, <2>4, TypePartsPrime DEF IInv
  <1> QED
    BY <1>1, <1>2, <1>3, <1>4, <1>5, <1>6, <1>7, <1>8, <1>9, <1>10, <1>11 DEF Next

-----------------------------------------------------------------------------
(* Circles.  Files that are read to their end keep growing into a set that *)
(* holds with each file the files it imports; so when the next one is read *)
(* to its end, all that it imports, directly or not, is in that set, and   *)
(* it is not, unless it was in it before.                                  *)
(*                                                                         *)
(* An imported file that is being read: all it imports above the line it   *)
(* is at has been read to the end.                                         *)
ReadSoFar(f, files) ==
    /\ f.path \in Paths /\ Readable(f.path) /\ f.text = FileText(f.path)
    /\ \A j \in 1..(f.line - 1) : IsImport(f.text[j]) =>
          /\ EndsInName(PathFrom(f.path, f.text[j]))
          /\ PlaceOf(PathFrom(f.path, f.text[j])) \in files

(* What such files import is among them, in no circle, and no more than so *)
(* many levels deep as there are files.                                    *)
Closed(files) ==
    \A q \in files :
        /\ Imported(q) \subseteq files
        /\ InNoCircle(q)
        /\ Settled(q, Cardinality(files))

WrittenFrom(files) ==
    \A i \in 1..Len(out) :
        \/ \E k \in 1..Len(stack) : stack[k].path = out[i].at.path
        \/ PlaceOf(out[i].at.path) \in files

(* Each call was made by the import line the call before it is at.         *)
CalledFrom(f, g) == g.path = PathFrom(f.path, f.text[f.line])
CallChain == \A k \in 1..(Len(stack) - 1) : CalledFrom(stack[k], stack[k + 1])

ReadToEnd(files) ==
    /\ files \subseteq DOMAIN disk
    /\ Closed(files)
    /\ WrittenFrom(files)
    /\ \A k \in 2..Len(stack) : ReadSoFar(stack[k], files)

CircleInv ==
    /\ CallChain
    /\ \E files \in SUBSET DOMAIN disk : ReadToEnd(files)
    /\ status = "expanded" => Len(stack) = 1


(* What the files are is settled when the program starts.                  *)
LEMMA DiskStays == [Next]_vars => disk' = disk
  BY DEF Next, vars, Blank, Define, Expression, Import, Return, Finish, RejectDuplicate,
         RejectExpression, RejectSyntax, RejectBaseless, RejectLibrary, RejectCycle,
         RejectUnreadable, Fail

LEMMA SameDisk ==
    ASSUME disk' = disk
    PROVE  /\ \A p : Readable(p)' <=> Readable(p)
           /\ \A p : FileText(p)' = FileText(p)
           /\ \A p, l : PathFrom(p, l)' = PathFrom(p, l)
           /\ \A q : Imported(q)' = Imported(q)
           /\ \A q : InNoCircle(q)' <=> InNoCircle(q)
  <1>1. \A p : Readable(p)' <=> Readable(p)
    BY DEF Readable
  <1>2. \A p : FileText(p)' = FileText(p)
    BY DEF FileText
  <1>3. \A t : ResolveOfficial(t)' = ResolveOfficial(t)
    BY <1>1 DEF ResolveOfficial
  <1>4. \A p, l : PathFrom(p, l)' = PathFrom(p, l)
    BY <1>3 DEF PathFrom
  <1>5. \A q : Imported(q)' = Imported(q)
    BY <1>3, Zenon DEF Imported
  <1>6. \A q : InNoCircle(q)' <=> InNoCircle(q)
    BY <1>5, Zenon DEF InNoCircle
  <1> QED
    BY <1>1, <1>2, <1>4, <1>5, <1>6

(* What files come to is settled with what they are.                       *)
LEMMA SameExpansion ==
    ASSUME disk' = disk
    PROVE  /\ \A f, p, t : LineLists(f, p, t)' = LineLists(f, p, t)
           /\ Expansion' = Expansion
  <1>1. \A f, p, t : LineLists(f, p, t)' = LineLists(f, p, t)
    BY SameDisk, Zenon DEF LineLists
  <1>2. \A f, p, t : Flat(f, p, t)' = Flat(f, p, t)
    BY <1>1, Zenon DEF Flat, Joined
  <1>3. \A f, i : ExpandStage(f, i)' = ExpandStage(f, i)
    BY <1>2, SameDisk, Zenon DEF ExpandStage
  <1>4. \A w : (w = [i \in Nat |-> ExpandStage(w, i)])'
                 <=> w = [i \in Nat |-> ExpandStage(w, i)]
    BY <1>3, Zenon
  <1>5. Expansion = CHOOSE w : w = [i \in Nat |-> ExpandStage(w, i)]
    BY DEF Expansion, ExpandStage
  <1>6. Expansion' = CHOOSE w : (w = [i \in Nat |-> ExpandStage(w, i)])'
    BY DEF Expansion, ExpandStage
  <1> QED
    BY <1>1, <1>4, <1>5, <1>6

LEMMA ReadSoFarStays ==
    ASSUME disk' = disk, NEW F, NEW G, F \subseteq G, NEW g, ReadSoFar(g, F),
           NEW k, stack'[k] = g
    PROVE  ReadSoFar(stack[k], G)'
  BY SameDisk DEF ReadSoFar

LEMMA CallStays ==
    ASSUME disk' = disk, NEW f, NEW g, CalledFrom(f, g), NEW k, NEW m,
           stack'[k].path = f.path, stack'[k].text = f.text, stack'[k].line = f.line,
           stack'[m].path = g.path
    PROVE  CalledFrom(stack[k], stack[m])'
  BY SameDisk DEF CalledFrom

LEMMA ClosedStays ==
    ASSUME disk' = disk, NEW F, Closed(F)
    PROVE  Closed(F)'
  <1>1. \A q, n : Settled(q, n)' <=> Settled(q, n)
    BY SameExpansion, Zenon DEF Settled
  <1> QED
    BY <1>1, SameDisk DEF Closed

(* The stack after each of the three ways it changes.                      *)
Onward(f) == [f EXCEPT !.line = @ + 1]

LEMMA AdvanceIs ==
    ASSUME IsStack(stack), Advance
    PROVE  /\ Len(stack') = Len(stack)
           /\ stack'[Len(stack)] = Onward(Top)
           /\ \A k \in 1..Len(stack) - 1 : stack'[k] = stack[k]
  BY DEF IsStack, Advance, Top, Onward

LEMMA PopIs ==
    ASSUME IsStack(stack), Len(stack) > 1,
           stack' = [Leading(stack) EXCEPT ![Len(stack) - 1].line = @ + 1]
    PROVE  /\ Len(stack') = Len(stack) - 1
           /\ stack'[Len(stack) - 1] = Onward(stack[Len(stack) - 1])
           /\ \A k \in 1..Len(stack) - 2 : stack'[k] = stack[k]
  <1> DEFINE s == Leading(stack)
             m == Len(stack) - 1
  <1>1. s \in Seq(Frames) /\ Len(s) = m /\ \A k \in 1..m : s[k] = stack[k]
    BY LeadingSeq DEF IsStack
  <1>2. m \in Nat \ {0} /\ m \in 1..m
    BY TopIsFrame
  <1>3. stack' = [s EXCEPT ![m] = Onward(s[m])]
    BY DEF Onward
  <1> HIDE DEF s
  <1>4. \A k \in 1..m - 1 : k \in 1..m /\ k # m
    BY <1>2
  <1>5. m - 1 = Len(stack) - 2
    BY TopIsFrame
  <1> HIDE DEF m
  <1>6. /\ Len(stack') = m /\ stack'[m] = Onward(s[m])
        /\ \A k \in 1..m - 1 : stack'[k] = s[k]
    BY <1>1, <1>2, <1>3, <1>4
  <1> QED
    BY <1>1, <1>2, <1>4, <1>5, <1>6 DEF m

(* A line passed that is no import leaves the file read so far.            *)
LEMMA PassOn ==
    ASSUME NEW f \in Frames, InText(f), f.line <= Len(f.text), NEW F, NEW G, F \subseteq G,
           ReadSoFar(f, F),
           IsImport(f.text[f.line]) => /\ EndsInName(PathFrom(f.path, f.text[f.line]))
                                       /\ PlaceOf(PathFrom(f.path, f.text[f.line])) \in G
    PROVE  ReadSoFar(Onward(f), G)
  <1>1. /\ Onward(f).path = f.path /\ Onward(f).text = f.text
        /\ Onward(f).line = f.line + 1 /\ f.line \in Nat
    BY FrameFacts DEF Onward, Frames
  <1>2. \A j \in 1..(f.line + 1 - 1) : j = f.line \/ j \in 1..(f.line - 1)
    BY <1>1
  <1> QED
    BY <1>1, <1>2 DEF ReadSoFar

-----------------------------------------------------------------------------
LEMMA CircleInit == Init => CircleInv
  <1> SUFFICES ASSUME Init PROVE CircleInv
    OBVIOUS
  <1>1. Len(stack) = 1 /\ Len(out) = 0 /\ status = "running"
    BY DEF Init
  <1>2. ReadToEnd({})
    BY <1>1 DEF ReadToEnd, Closed, WrittenFrom
  <1> QED
    BY <1>1, <1>2 DEF CircleInv, CallChain

(* Nothing moves.                                                          *)
LEMMA CircleRests ==
    ASSUME CircleInv, UNCHANGED <<disk, stack, out>>,
           status' = "expanded" => status = "expanded" \/ Len(stack) = 1
    PROVE  CircleInv'
  <1>1. PICK F \in SUBSET DOMAIN disk : ReadToEnd(F)
    BY DEF CircleInv
  <1>2. Closed(F)' /\ WrittenFrom(F)'
    BY <1>1, ClosedStays DEF ReadToEnd, WrittenFrom
  <1>3. \A k \in 2..Len(stack') : ReadSoFar(stack[k], F)'
    BY <1>1, ReadSoFarStays DEF ReadToEnd
  <1>4. CallChain'
    BY SameDisk DEF CircleInv, CallChain, CalledFrom
  <1> QED
    BY <1>1, <1>2, <1>3, <1>4 DEF CircleInv, ReadToEnd

(* A line is written that is no import.                                    *)
LEMMA CircleWrites ==
    ASSUME CircleInv, IsStack(stack), RestOK, Top.line <= Len(Top.text), Emit, Advance,
           disk' = disk, status' = "running", ~IsImport(Line)
    PROVE  CircleInv'
  <1> DEFINE n == Len(stack)
  <1>1. PICK F \in SUBSET DOMAIN disk : ReadToEnd(F)
    BY DEF CircleInv
  <1>2. /\ Len(stack') = n /\ stack'[n] = Onward(Top) /\ n \in Nat \ {0}
        /\ \A k \in 1..n - 1 : stack'[k] = stack[k]
        /\ Top \in Frames /\ InText(Top) /\ Top = stack[n]
    BY AdvanceIs, TopIsFrame
  <1>3. Onward(Top).path = Top.path /\ Onward(Top).text = Top.text
    BY <1>2 DEF Onward, Frames
  <1>4. \A k \in 1..n : stack'[k].path = stack[k].path
    BY <1>2, <1>3
  <1>5. WrittenFrom(F)'
    <2> SUFFICES ASSUME NEW i \in 1..Len(out')
                 PROVE  \/ \E k \in 1..Len(stack') : stack'[k].path = out'[i].at.path
                        \/ PlaceOf(out'[i].at.path) \in F
      BY DEF WrittenFrom
    <2>1. CASE i = Len(out) + 1
      <3>1. out'[i].at.path = Top.path
        BY <2>1, WriteType DEF Here, Place
      <3> QED
        BY <1>2, <1>4, <3>1
    <2>2. CASE i # Len(out) + 1
      <3>1. i \in 1..Len(out) /\ out'[i] = out[i]
        BY <2>2, WriteType
      <3> QED
        BY <1>1, <1>2, <1>4, <3>1 DEF ReadToEnd, WrittenFrom
    <2> QED
      BY <2>1, <2>2
  <1>6. \A k \in 2..Len(stack') : ReadSoFar(stack[k], F)'
    <2> SUFFICES ASSUME NEW k \in 2..n PROVE ReadSoFar(stack[k], F)'
      BY <1>2
    <2>1. ReadSoFar(stack[k], F)
      BY <1>1 DEF ReadToEnd
    <2>2. CASE k = n
      <3>1. ReadSoFar(Onward(Top), F)
        BY <1>2, <2>1, <2>2, PassOn DEF Line
      <3>2. stack'[k] = Onward(Top)
        BY <1>2, <2>2
      <3> QED
        BY <3>1, <3>2, ReadSoFarStays
    <2>3. CASE k # n
      <3>1. stack'[k] = stack[k]
        BY <1>2, <2>3
      <3> QED
        BY <2>1, <3>1, ReadSoFarStays
    <2> QED
      BY <2>2, <2>3
  <1>7. CallChain'
    <2> SUFFICES ASSUME NEW k \in 1..n - 1 PROVE CalledFrom(stack[k], stack[k + 1])'
      BY <1>2 DEF CallChain
    <2>1. k + 1 \in 1..n /\ stack'[k] = stack[k] /\ CalledFrom(stack[k], stack[k + 1])
      BY <1>2 DEF CircleInv, CallChain
    <2> QED
      BY <1>4, <2>1, SameDisk DEF CalledFrom
  <1>8. Closed(F)'
    BY <1>1, ClosedStays DEF ReadToEnd
  <1> QED
    BY <1>1, <1>5, <1>6, <1>7, <1>8 DEF CircleInv, ReadToEnd

(* An imported file is entered.                                            *)
LEMMA CircleEnters ==
    ASSUME CircleInv, IsStack(stack), RestOK, Import
    PROVE  CircleInv'
  <1> DEFINE n == Len(stack)
             g == Frame(ImportPath, TRUE, FileText(ImportPath))
  <1>1. PICK F \in SUBSET DOMAIN disk : ReadToEnd(F)
    BY DEF CircleInv
  <1>2. /\ disk' = disk /\ out' = out /\ status' = "running" /\ stack' = Append(stack, g)
        /\ Readable(ImportPath) /\ Resolves
    BY DEF Import, Resolves, Reading
  <1>3. ImportPath \in Paths /\ FileText(ImportPath) \in Texts
    BY <1>2, ResolvedIsPath, ReadableIsText DEF RestOK
  <1>4. g \in Frames /\ g.path = ImportPath /\ g.text = FileText(ImportPath) /\ g.line = 1
    BY <1>3, FrameStarts DEF Frame
  <1> HIDE DEF g
  <1>5. /\ Len(stack') = n + 1 /\ stack'[n + 1] = g /\ n \in Nat \ {0}
        /\ \A k \in 1..n : stack'[k] = stack[k]
    BY <1>2, <1>4, TopIsFrame, AppendSeq DEF IsStack
  <1>6. WrittenFrom(F)'
    BY <1>1, <1>2, <1>5 DEF ReadToEnd, WrittenFrom
  <1>7. \A k \in 2..Len(stack') : ReadSoFar(stack[k], F)'
    <2> SUFFICES ASSUME NEW k \in 2..n + 1 PROVE ReadSoFar(stack[k], F)'
      BY <1>5
    <2>1. CASE k = n + 1
      <3>1. ReadSoFar(g, F)
        BY <1>2, <1>3, <1>4 DEF ReadSoFar
      <3> QED
        BY <1>2, <1>5, <2>1, <3>1, ReadSoFarStays
    <2>2. CASE k # n + 1
      <3>1. k \in 2..n /\ stack'[k] = stack[k]
        BY <1>5, <2>2
      <3>2. ReadSoFar(stack[k], F)
        BY <1>1, <3>1 DEF ReadToEnd
      <3> QED
        BY <1>2, <3>1, <3>2, ReadSoFarStays
    <2> QED
      BY <2>1, <2>2
  <1>8. CallChain'
    <2> SUFFICES ASSUME NEW k \in 1..n PROVE CalledFrom(stack[k], stack[k + 1])'
      BY <1>5 DEF CallChain
    <2>1. CASE k = n
      <3>1. stack'[k] = Top /\ stack'[k + 1] = g
        BY <1>5, <2>1, TopIsFrame
      <3>2. CalledFrom(Top, g)
        BY <1>4 DEF CalledFrom, ImportPath, Line
      <3> QED
        BY <1>2, <3>1, <3>2, SameDisk DEF CalledFrom
    <2>2. CASE k # n
      <3>1. /\ k \in 1..n - 1 /\ k \in 1..n /\ k + 1 \in 1..n
            /\ stack'[k] = stack[k] /\ stack'[k + 1] = stack[k + 1]
        BY <1>5, <2>2
      <3>2. CalledFrom(stack[k], stack[k + 1])
        BY <3>1 DEF CircleInv, CallChain
      <3> QED
        BY <1>2, <3>1, <3>2, SameDisk DEF CalledFrom
    <2> QED
      BY <2>1, <2>2
  <1>9. Closed(F)'
    BY <1>1, <1>2, ClosedStays DEF ReadToEnd
  <1> QED
    BY <1>1, <1>2, <1>6, <1>7, <1>8, <1>9 DEF CircleInv, ReadToEnd

(* There are finitely many files.                                          *)
LEMMA SomeFiles ==
    ASSUME disk \in Disks, NEW F \in SUBSET DOMAIN disk
    PROVE  /\ IsFiniteSet(F)
           /\ Cardinality(F) \in Nat
           /\ Cardinality(DOMAIN disk) \in Nat
           /\ Cardinality(F) <= Cardinality(DOMAIN disk)
  <1>1. IsFiniteSet(DOMAIN disk)
    BY DisksAssumption
  <1>2. IsFiniteSet(F) /\ Cardinality(F) <= Cardinality(DOMAIN disk)
    BY <1>1, FS_Subset
  <1> QED
    BY <1>1, <1>2, FS_CardinalityType

(* A file is read to its end: it joins the others.                         *)
LEMMA EndJoins ==
    ASSUME disk \in Disks,
           NEW F \in SUBSET DOMAIN disk, Closed(F), NEW f \in Frames, InText(f),
           f.line > Len(f.text), ReadSoFar(f, F)
    PROVE  LET q == PlaceOf(f.path)
           IN  /\ q \in DOMAIN disk
               /\ Closed(F \cup {q})
  <1> DEFINE q == PlaceOf(f.path)
  <1>1. /\ q \in DOMAIN disk /\ f.path \in Paths /\ EndsInName(f.path) /\ f.text = disk[q]
    BY DEF ReadSoFar, Readable, FileText
  <1>2. Imported(q) \subseteq F
    <2> SUFFICES ASSUME NEW l \in {disk[q][i] : i \in 1..Len(disk[q])}, IsImport(l)
                 PROVE  (IF l.kind = "library" THEN PlaceOf(ResolveOfficial(l.target))
                         ELSE WalkFrom(Leading(q))[l.target]) \in F
      BY DEF Imported
    <2>1. PICK j \in 1..Len(f.text) : l = f.text[j]
      BY <1>1
    <2>2. f.text \in Seq(Lines)
      BY DEF Frames, Texts
    <2>3. l \in Lines
      BY <2>1, <2>2
    <2>4. j \in 1..(f.line - 1)
      BY <2>1, <2>2, FrameFacts
    <2>5. PlaceOf(PathFrom(f.path, l)) \in F
      BY <2>1, <2>4 DEF ReadSoFar
    <2> QED
      BY <1>1, <2>3, <2>5, TargetDependsOnPlace
  <1>3. InNoCircle(q)
    <2>1. CASE q \in F
      BY <2>1 DEF Closed
    <2>2. CASE q \notin F
      BY <1>2, <2>2 DEF Closed, InNoCircle
    <2> QED
      BY <2>1, <2>2
  <1>4. \A r \in F \cup {q} : Settled(r, Cardinality(F \cup {q}))
    <2>1. Cardinality(F) \in Nat /\ IsFiniteSet(F)
      BY SomeFiles
    <2>2. \A r \in F : Settled(r, Cardinality(F))
      BY DEF Closed
    <2>3. CASE q \in F
      <3>1. F \cup {q} = F
        BY <2>3
      <3> QED
        BY <2>2, <2>3, <3>1
    <2>4. CASE q \notin F
      <3>1. Cardinality(F \cup {q}) = Cardinality(F) + 1
        BY <2>1, <2>4, FS_AddElement
      <3>2. f.text = FileText(f.path) /\ f.text \in Seq(Lines)
        BY <1>1 DEF Frames, Texts, FileText
      <3>3. ASSUME NEW i \in 1..Len(f.text), IsImport(f.text[i])
            PROVE  /\ EndsInName(PathFrom(f.path, f.text[i]))
                   /\ PlaceOf(PathFrom(f.path, f.text[i])) \in F
        <4>1. i \in 1..(f.line - 1)
          BY <3>2, FrameFacts
        <4> QED
          BY <3>3, <4>1 DEF ReadSoFar
      <3>4. Settled(q, Cardinality(F) + 1)
        BY <1>1, <2>1, <2>2, <3>2, <3>3, SettledNext
      <3>5. \A r \in F : Settled(r, Cardinality(F) + 1)
        BY <2>1, <2>2, SettledStays
      <3> QED
        BY <3>1, <3>4, <3>5
    <2> QED
      BY <2>3, <2>4
  <1> QED
    BY <1>1, <1>2, <1>3, <1>4 DEF Closed

LEMMA CircleLeaves ==
    ASSUME CircleInv, IsStack(stack), RestOK, Return
    PROVE  CircleInv'
  <1> DEFINE n == Len(stack)
             f == stack[n]
             q == PlaceOf(f.path)
  <1>1. PICK F \in SUBSET DOMAIN disk : ReadToEnd(F)
    BY DEF CircleInv
  <1>2. /\ disk' = disk /\ out' = out /\ status' = "running" /\ n > 1
        /\ stack' = [Leading(stack) EXCEPT ![n - 1].line = @ + 1]
        /\ f.line > Len(f.text)
    BY TopIsFrame DEF Return, AtEnd
  <1>3. /\ Len(stack') = n - 1 /\ stack'[n - 1] = Onward(stack[n - 1])
        /\ \A k \in 1..n - 2 : stack'[k] = stack[k]
    BY <1>2, PopIs
  <1>4. /\ n \in Nat /\ n - 1 \in 1..n /\ n \in 2..n /\ n - 1 \in 1..(n - 1)
        /\ \A k \in 1..n : stack[k] \in Frames /\ InText(stack[k])
        /\ \A k \in 1..n - 1 : Waits(stack[k])
    BY <1>2 DEF IsStack
  <1>5. f \in Frames /\ InText(f) /\ ReadSoFar(f, F)
    BY <1>1, <1>4 DEF ReadToEnd
  <1>6. PICK G \in SUBSET DOMAIN disk : G = F \cup {q} /\ Closed(G)
    BY <1>1, <1>2, <1>5, EndJoins DEF ReadToEnd, RestOK
  <1>7. \A k \in 1..n - 1 : stack'[k].path = stack[k].path
    BY <1>2, <1>3, <1>4 DEF Onward, Frames
  <1>8. WrittenFrom(G)'
    <2> SUFFICES ASSUME NEW i \in 1..Len(out)
                 PROVE  \/ \E k \in 1..n - 1 : stack[k].path = out[i].at.path
                        \/ PlaceOf(out[i].at.path) \in G
      BY <1>2, <1>3, <1>7 DEF WrittenFrom
    <2>1. \/ \E k \in 1..n : stack[k].path = out[i].at.path
          \/ PlaceOf(out[i].at.path) \in F
      BY <1>1 DEF ReadToEnd, WrittenFrom
    <2>2. \A k \in 1..n : k = n \/ k \in 1..n - 1
      BY <1>4
    <2> QED
      BY <1>6, <2>1, <2>2
  <1>9. \A k \in 2..Len(stack') : ReadSoFar(stack[k], G)'
    <2> SUFFICES ASSUME NEW k \in 2..n - 1 PROVE ReadSoFar(stack[k], G)'
      BY <1>3
    <2>1. ReadSoFar(stack[k], F)
      BY <1>1, <1>4 DEF ReadToEnd
    <2>2. CASE k = n - 1
      <3>1. CalledFrom(stack[k], f)
        <4>1. n - 1 \in 1..(Len(stack) - 1) /\ (n - 1) + 1 = n
          BY <1>4
        <4> QED
          BY <2>2, <4>1 DEF CircleInv, CallChain
      <3>2. /\ PlaceOf(PathFrom(stack[k].path, stack[k].text[stack[k].line])) \in G
            /\ EndsInName(PathFrom(stack[k].path, stack[k].text[stack[k].line]))
        BY <1>5, <1>6, <3>1 DEF CalledFrom, ReadSoFar, Readable
      <3>3. stack[k] \in Frames /\ InText(stack[k]) /\ stack[k].line <= Len(stack[k].text)
        BY <1>4 DEF Waits
      <3> HIDE DEF q
      <3>4. ReadSoFar(Onward(stack[k]), G)
        BY <1>6, <2>1, <3>2, <3>3, PassOn
      <3> QED
        BY <1>2, <1>3, <2>2, <3>4, ReadSoFarStays
    <2>3. CASE k # n - 1
      <3>1. stack'[k] = stack[k]
        BY <1>3, <1>4, <2>3
      <3> QED
        BY <1>6, <1>2, <2>1, <3>1, ReadSoFarStays
    <2> QED
      BY <2>2, <2>3
  <1>10. CallChain'
    <2>0. Len(stack') - 1 = n - 2
      BY <1>3, <1>4
    <2> SUFFICES ASSUME NEW k \in 1..n - 2 PROVE CalledFrom(stack[k], stack[k + 1])'
      BY <2>0 DEF CallChain
    <2>1. k \in 1..n - 1 /\ k + 1 \in 1..n - 1 /\ stack'[k] = stack[k]
      BY <1>3, <1>4
    <2>2. CalledFrom(stack[k], stack[k + 1])
      BY <2>1 DEF CircleInv, CallChain
    <2> QED
      BY <1>2, <1>7, <2>1, <2>2, SameDisk DEF CalledFrom
  <1>11. Closed(G)'
    BY <1>2, <1>6, ClosedStays
  <1> QED
    BY <1>2, <1>6, <1>8, <1>9, <1>10, <1>11 DEF CircleInv, ReadToEnd

LEMMA CircleNext == IInv /\ CircleInv /\ [Next]_vars => CircleInv'
  <1> SUFFICES ASSUME IInv, CircleInv, [Next]_vars PROVE CircleInv'
    OBVIOUS
  <1>1. IsStack(stack) /\ RestOK
    BY TypeParts DEF IInv
  <1>2. CASE Blank \/ Define \/ Expression
    <2>1. /\ Top.line <= Len(Top.text) /\ Emit /\ Advance /\ disk' = disk
          /\ status' = "running" /\ ~IsImport(Line)
      BY <1>2 DEF Blank, Define, Expression, Reading, IsImport
    <2> QED
      BY <1>1, <2>1, CircleWrites
  <1>3. CASE Import
    BY <1>1, <1>3, CircleEnters
  <1>4. CASE Return
    BY <1>1, <1>4, CircleLeaves
  <1>5. CASE Finish
    BY <1>5, CircleRests DEF Finish
  <1>6. CASE \/ RejectDuplicate \/ RejectExpression \/ RejectSyntax \/ RejectBaseless
             \/ RejectLibrary \/ RejectCycle \/ RejectUnreadable
    <2>1. UNCHANGED <<disk, stack, out>> /\ status' = "failed"
      BY <1>6 DEF RejectDuplicate, RejectExpression, RejectSyntax, RejectBaseless,
                  RejectLibrary, RejectCycle, RejectUnreadable, Fail
    <2> QED
      BY <2>1, CircleRests
  <1>7. CASE UNCHANGED vars
    BY <1>7, CircleRests DEF vars
  <1> QED
    BY <1>2, <1>3, <1>4, <1>5, <1>6, <1>7 DEF Next

-----------------------------------------------------------------------------
(* The flat source.  At every step it is, call by call from the outermost, *)
(* what the lines come to that each call has passed; the imports among     *)
(* them have been read to the end, and are settled as many levels deep as  *)
(* there are files.                                                        *)
SoFar(m, f)  == Joined(LineLists(Expansion[m], f.path, f.text))[f.line - 1]
AllSoFar(m, s) == Joined([k \in 1..Len(s) |-> SoFar(m, s[k])])

IsWrittenBy(m, s, o) ==
    /\ \A k \in 1..Len(s) : SoFar(m, s[k]) \in Seq(OutLines)
    /\ o = AllSoFar(m, s)[Len(s)]

FlatInv ==
    /\ \A m \in Nat : Cardinality(DOMAIN disk) <= m => IsWrittenBy(m, stack, out)
    /\ status = "expanded" => Top.line > Len(Top.text)

(* The calls before the innermost one and the innermost one.               *)
LEMMA CallsJoin ==
    ASSUME NEW m, NEW s, Len(s) \in Nat, NEW n \in Nat, n + 1 <= Len(s)
    PROVE  AllSoFar(m, s)[n + 1] = AllSoFar(m, s)[n] \o SoFar(m, s[n + 1])
  <1> DEFINE c == [k \in 1..Len(s) |-> SoFar(m, s[k])]
  <1>1. c[n + 1] = SoFar(m, s[n + 1])
    OBVIOUS
  <1> HIDE DEF c
  <1>2. Joined(c)[n + 1] = Joined(c)[n] \o c[n + 1]
    BY JoinedSteps
  <1> QED
    BY <1>1, <1>2 DEF AllSoFar, c

BeginAlike(r, s, n) ==
    /\ Len(r) \in Nat /\ Len(s) \in Nat /\ n <= Len(r) /\ n <= Len(s)
    /\ \A k \in 1..n : r[k] = s[k]

LEMMA CallsAgree ==
    ASSUME NEW m, NEW r, NEW s, NEW n \in Nat, BeginAlike(r, s, n)
    PROVE  AllSoFar(m, r)[n] = AllSoFar(m, s)[n]
  <1> DEFINE c == [k \in 1..Len(r) |-> SoFar(m, r[k])]
             d == [k \in 1..Len(s) |-> SoFar(m, s[k])]
  <1>1. n \in 0..n /\ \A k \in 1..n : c[k] = d[k]
    BY DEF BeginAlike
  <1> HIDE DEF c, d
  <1>2. Joined(c)[n] = Joined(d)[n]
    BY <1>1, JoinedSame
  <1> QED
    BY <1>2 DEF AllSoFar, c, d

LEMMA CallsType ==
    ASSUME NEW m, NEW s, Len(s) \in Nat, NEW n \in 0..Len(s),
           \A k \in 1..n : SoFar(m, s[k]) \in Seq(OutLines)
    PROVE  AllSoFar(m, s)[n] \in Seq(OutLines)
  <1> DEFINE c == [k \in 1..Len(s) |-> SoFar(m, s[k])]
  <1>1. n \in Nat /\ n \in 0..n /\ \A k \in 1..n : c[k] \in Seq(OutLines)
    OBVIOUS
  <1> HIDE DEF c
  <1>2. Joined(c)[n] \in Seq(OutLines)
    BY <1>1, JoinedType
  <1> QED
    BY <1>2 DEF AllSoFar, c

(* A line passed adds what it comes to.                                    *)
LEMMA PassAdds ==
    ASSUME NEW m, NEW f \in Frames, InText(f), f.line <= Len(f.text)
    PROVE  SoFar(m, Onward(f))
             = SoFar(m, f) \o LineLists(Expansion[m], f.path, f.text)[f.line]
  <1> DEFINE L == LineLists(Expansion[m], f.path, f.text)
  <1>1. /\ Onward(f).path = f.path /\ Onward(f).text = f.text
        /\ Onward(f).line = f.line + 1
    BY DEF Onward, Frames
  <1>2. f.line - 1 \in Nat /\ (f.line - 1) + 1 = f.line /\ (f.line + 1) - 1 = f.line
    BY FrameFacts DEF InText
  <1> HIDE DEF L
  <1>3. Joined(L)[f.line] = Joined(L)[f.line - 1] \o L[f.line]
    BY <1>2, JoinedSteps
  <1> QED
    BY <1>1, <1>2, <1>3 DEF SoFar, L

LEMMA WrittenOn ==
    ASSUME NEW m, NEW s, IsStack(s), NEW o, IsWrittenBy(m, s, o),
           NEW f, f = s[Len(s)], f.line <= Len(f.text), ~IsImport(f.text[f.line]),
           NEW x \in OutLines, x = [text |-> f.text[f.line], at |-> Place(f.path, f.line)],
           NEW r, Len(r) = Len(s), r[Len(s)] = Onward(f),
           \A k \in 1..Len(s) - 1 : r[k] = s[k]
    PROVE  IsWrittenBy(m, r, Append(o, x))
  <1>1. PICK n \in Nat : Len(s) = n + 1
    <2>1. Len(s) \in Nat \ {0}
      BY DEF IsStack
    <2>2. Len(s) - 1 \in Nat /\ Len(s) = (Len(s) - 1) + 1
      BY <2>1
    <2> QED
      BY <2>2
  <1>2. f \in Frames /\ InText(f)
    BY <1>1 DEF IsStack
  <1>3. \A k \in 1..n : r[k] = s[k]
    BY <1>1
  <1>4. f.line \in 1..Len(f.text)
    BY <1>2, FrameFacts DEF InText
  <1>5. LineLists(Expansion[m], f.path, f.text)[f.line] = <<x>>
    BY <1>4 DEF LineLists
  <1> DEFINE a == AllSoFar(m, s)[n]
             c == SoFar(m, f)
  <1>6. SoFar(m, Onward(f)) = c \o <<x>>
    <2>1. SoFar(m, Onward(f))
            = SoFar(m, f) \o LineLists(Expansion[m], f.path, f.text)[f.line]
      BY <1>2, PassAdds
    <2> QED
      BY <1>5, <2>1, Zenon
  <1>7. c \in Seq(OutLines) /\ \A k \in 1..n : SoFar(m, s[k]) \in Seq(OutLines)
    BY <1>1 DEF IsWrittenBy
  <1>8. a \in Seq(OutLines)
    <2>1. Len(s) \in Nat /\ n \in 0..Len(s)
      BY <1>1
    <2> QED
      BY <1>7, <2>1, CallsType, Zenon
  <1>9. o = a \o c
    <2>1. AllSoFar(m, s)[n + 1] = AllSoFar(m, s)[n] \o SoFar(m, s[n + 1])
      <3>1. Len(s) \in Nat /\ n + 1 <= Len(s)
        BY <1>1
      <3> QED
        BY <3>1, CallsJoin, Zenon
    <2>2. o = AllSoFar(m, s)[n + 1] /\ s[n + 1] = f
      BY <1>1 DEF IsWrittenBy
    <2> QED
      BY <2>1, <2>2, Zenon
  <1>10. AllSoFar(m, r)[n] = a
    <2>1. BeginAlike(r, s, n)
      BY <1>1, <1>3 DEF BeginAlike
    <2>2. AllSoFar(m, r)[n] = AllSoFar(m, s)[n]
      <3> HIDE DEF a, c
      <3> QED
        BY <1>1, <2>1, CallsAgree
    <2> QED
      BY <2>2
  <1>11. AllSoFar(m, r)[n + 1] = a \o (c \o <<x>>)
    <2>1. AllSoFar(m, r)[n + 1] = AllSoFar(m, r)[n] \o SoFar(m, r[n + 1])
      <3>1. Len(r) \in Nat /\ n + 1 <= Len(r)
        BY <1>1
      <3> QED
        BY <3>1, CallsJoin, Zenon
    <2>2. r[n + 1] = Onward(f)
      BY <1>1
    <2> QED
      BY <1>6, <1>10, <2>1, <2>2, Zenon
  <1> HIDE DEF a, c
  <1>12. <<x>> \in Seq(OutLines)
    OBVIOUS
  <1>13. a \o c \in Seq(OutLines) /\ c \o <<x>> \in Seq(OutLines)
    BY <1>7, <1>8, <1>12, ConcatProperties
  <1>14. Append(o, x) = a \o (c \o <<x>>)
    <2>1. Append(o, x) = o \o <<x>>
      BY <1>9, <1>13, AppendIsConcat
    <2>2. (a \o c) \o <<x>> = a \o (c \o <<x>>)
      BY <1>7, <1>8, <1>12, ConcatAssociative
    <2> QED
      BY <1>9, <2>1, <2>2
  <1>15. \A k \in 1..Len(r) : SoFar(m, r[k]) \in Seq(OutLines)
    <2> SUFFICES ASSUME NEW k \in 1..(n + 1) PROVE SoFar(m, r[k]) \in Seq(OutLines)
      BY <1>1
    <2>1. CASE k = n + 1
      BY <1>1, <1>6, <1>13, <2>1
    <2>2. CASE k # n + 1
      <3>1. k \in 1..n
        BY <2>2
      <3> QED
        BY <1>3, <1>7, <3>1
    <2> QED
      BY <2>1, <2>2
  <1> QED
    BY <1>1, <1>11, <1>14, <1>15 DEF IsWrittenBy

(* A call that begins has passed nothing.                                  *)
LEMMA WrittenBefore ==
    ASSUME NEW m, NEW s, IsStack(s), NEW o, IsWrittenBy(m, s, o),
           NEW r, Len(r) = Len(s) + 1, \A k \in 1..Len(s) : r[k] = s[k],
           r[Len(s) + 1].line = 1
    PROVE  IsWrittenBy(m, r, o)
  <1> DEFINE n == Len(s)
             g == r[n + 1]
  <1>1. n \in Nat
    BY DEF IsStack
  <1>2. SoFar(m, g) = <<>>
    <2>1. Joined(LineLists(Expansion[m], g.path, g.text))[0] = <<>>
      BY JoinedSteps, Zenon
    <2>2. g.line - 1 = 0
      OBVIOUS
    <2> QED
      BY <2>1, <2>2, Zenon DEF SoFar
  <1>3. \A k \in 1..n : SoFar(m, s[k]) \in Seq(OutLines)
    BY DEF IsWrittenBy
  <1>4. AllSoFar(m, s)[n] \in Seq(OutLines) /\ o = AllSoFar(m, s)[n]
    <2>1. Len(s) \in Nat /\ n \in 0..Len(s)
      BY <1>1
    <2>2. AllSoFar(m, s)[n] \in Seq(OutLines)
      BY <1>3, <2>1, CallsType, Zenon
    <2> QED
      BY <2>2 DEF IsWrittenBy
  <1>5. AllSoFar(m, r)[n] = o
    <2>1. BeginAlike(r, s, n)
      BY <1>1 DEF BeginAlike
    <2>2. AllSoFar(m, r)[n] = AllSoFar(m, s)[n]
      BY <1>1, <2>1, CallsAgree
    <2> QED
      BY <1>4, <2>2, Zenon
  <1>6. AllSoFar(m, r)[n + 1] = o \o <<>>
    <2>1. Len(r) \in Nat /\ n + 1 <= Len(r)
      BY <1>1
    <2>2. AllSoFar(m, r)[n + 1] = AllSoFar(m, r)[n] \o SoFar(m, r[n + 1])
      BY <1>1, <2>1, CallsJoin
    <2> QED
      BY <1>2, <1>5, <2>2, Zenon
  <1>7. o \o <<>> = o
    BY <1>4, ConcatEmptySeq
  <1>8. <<>> \in Seq(OutLines)
    OBVIOUS
  <1> HIDE DEF n, g
  <1>9. \A k \in 1..(n + 1) : SoFar(m, r[k]) \in Seq(OutLines)
    <2> SUFFICES ASSUME NEW k \in 1..(n + 1) PROVE SoFar(m, r[k]) \in Seq(OutLines)
      OBVIOUS
    <2>1. CASE k = n + 1
      BY <1>2, <1>8, <2>1 DEF g
    <2>2. CASE k # n + 1
      <3>1. k \in 1..n
        BY <1>1, <2>2
      <3> QED
        BY <1>3, <3>1 DEF n
    <2> QED
      BY <2>1, <2>2
  <1> QED
    BY <1>6, <1>7, <1>9 DEF IsWrittenBy, n

(* A call that is at its end has passed the whole of its file, which is    *)
(* what the import line of the call before it comes to.                    *)
LEMMA WrittenBack ==
    ASSUME NEW m, NEW s, IsStack(s), NEW o, IsWrittenBy(m, s, o),
           NEW n \in Nat, Len(s) = n + 2,
           NEW f, f = s[n + 1], IsImport(f.text[f.line]),
           Expansion[m][PathFrom(f.path, f.text[f.line])] = SoFar(m, s[n + 2]),
           NEW r, Len(r) = n + 1, r[n + 1] = Onward(f), \A k \in 1..n : r[k] = s[k]
    PROVE  IsWrittenBy(m, r, o)
  <1>1. n + 1 \in 1..(n + 2) /\ n + 1 \in 1..Len(s) - 1
    OBVIOUS
  <1>2. f \in Frames /\ InText(f) /\ f.line <= Len(f.text)
    BY <1>1 DEF IsStack, Waits
  <1>3. f.line \in 1..Len(f.text)
    BY <1>2, FrameFacts DEF InText
  <1> DEFINE a == AllSoFar(m, s)[n]
             c == SoFar(m, f)
             d == SoFar(m, s[n + 2])
  <1>4. LineLists(Expansion[m], f.path, f.text)[f.line] = d
    BY <1>3 DEF LineLists
  <1>5. SoFar(m, Onward(f)) = c \o d
    <2>1. SoFar(m, Onward(f))
            = SoFar(m, f) \o LineLists(Expansion[m], f.path, f.text)[f.line]
      BY <1>2, PassAdds
    <2> QED
      BY <1>4, <2>1, Zenon
  <1>6. /\ \A k \in 1..n : SoFar(m, s[k]) \in Seq(OutLines)
        /\ c \in Seq(OutLines) /\ d \in Seq(OutLines)
    BY DEF IsWrittenBy
  <1>7. a \in Seq(OutLines)
    <2>1. Len(s) \in Nat /\ n \in 0..Len(s)
      OBVIOUS
    <2> QED
      BY <1>6, <2>1, CallsType, Zenon
  <1>8. o = (a \o c) \o d
    <2>1. /\ (n + 1) + 1 = n + 2 /\ n + 1 \in Nat /\ Len(s) \in Nat
          /\ n + 1 <= Len(s) /\ n + 2 <= Len(s)
      OBVIOUS
    <2>2. AllSoFar(m, s)[n + 1] = AllSoFar(m, s)[n] \o SoFar(m, s[n + 1])
      BY <2>1, CallsJoin
    <2>3. AllSoFar(m, s)[n + 2] = AllSoFar(m, s)[n + 1] \o SoFar(m, s[n + 2])
      <3>1. AllSoFar(m, s)[(n + 1) + 1]
              = AllSoFar(m, s)[n + 1] \o SoFar(m, s[(n + 1) + 1])
        BY <2>1, CallsJoin
      <3> QED
        BY <2>1, <3>1, Zenon
    <2>4. o = AllSoFar(m, s)[n + 2] /\ s[n + 1] = f
      BY DEF IsWrittenBy
    <2> QED
      BY <2>2, <2>3, <2>4, Zenon
  <1>9. AllSoFar(m, r)[n] = a
    <2>1. BeginAlike(r, s, n)
      BY DEF BeginAlike
    <2>2. AllSoFar(m, r)[n] = AllSoFar(m, s)[n]
      <3> HIDE DEF a, c
      <3> QED
        BY <2>1, CallsAgree
    <2> QED
      BY <2>2
  <1>10. AllSoFar(m, r)[n + 1] = a \o (c \o d)
    <2>1. Len(r) \in Nat /\ n + 1 <= Len(r)
      OBVIOUS
    <2>2. AllSoFar(m, r)[n + 1] = AllSoFar(m, r)[n] \o SoFar(m, r[n + 1])
      BY <2>1, CallsJoin
    <2> QED
      BY <1>5, <1>9, <2>2, Zenon
  <1> HIDE DEF a, c, d
  <1>11. (a \o c) \o d = a \o (c \o d) /\ c \o d \in Seq(OutLines)
    BY <1>6, <1>7, ConcatAssociative, ConcatProperties
  <1>12. \A k \in 1..(n + 1) : SoFar(m, r[k]) \in Seq(OutLines)
    <2> SUFFICES ASSUME NEW k \in 1..(n + 1) PROVE SoFar(m, r[k]) \in Seq(OutLines)
      OBVIOUS
    <2>1. CASE k = n + 1
      BY <1>5, <1>11, <2>1
    <2>2. CASE k # n + 1
      <3>1. k \in 1..n
        BY <2>2
      <3> QED
        BY <1>6, <3>1
    <2> QED
      BY <2>1, <2>2
  <1> QED
    BY <1>8, <1>10, <1>11, <1>12 DEF IsWrittenBy

(* What was written, in terms of the files, which do not change.           *)
LEMMA SameWritten ==
    ASSUME disk' = disk
    PROVE  \A m, s, o : IsWrittenBy(m, s, o)' <=> IsWrittenBy(m, s, o)
  <1>1. \A m, f : SoFar(m, f)' = SoFar(m, f)
    <2>1. \A m, p, t : LineLists(Expansion[m], p, t)' = LineLists(Expansion[m], p, t)
      BY SameExpansion
    <2>2. \A L, i : Joined(L)[i]' = Joined(L)[i]
      BY DEF Joined
    <2> QED
      BY <2>1, <2>2 DEF SoFar
  <1>2. \A m, s : AllSoFar(m, s)' = AllSoFar(m, s)
    <2> SUFFICES ASSUME NEW m, NEW s PROVE AllSoFar(m, s)' = AllSoFar(m, s)
      OBVIOUS
    <2> DEFINE c == [k \in 1..Len(s) |-> SoFar(m, s[k])]
    <2>1. c' = c
      BY <1>1
    <2>2. AllSoFar(m, s)' = Joined(c')
      BY Zenon DEF AllSoFar, Joined
    <2> HIDE DEF c
    <2>3. AllSoFar(m, s)' = Joined(c)
      BY <2>1, <2>2, Zenon
    <2> QED
      BY <2>3, Zenon DEF AllSoFar, c
  <1> QED
    BY <1>1, <1>2, Zenon DEF IsWrittenBy

(* A file read to its end is what the recursion makes of it, at every      *)
(* level high enough.                                                      *)
LEMMA WholeFile ==
    ASSUME disk \in Disks,
           NEW F \in SUBSET DOMAIN disk, Closed(F), NEW f \in Frames, InText(f),
           f.line > Len(f.text), ReadSoFar(f, F),
           NEW m \in Nat, Cardinality(DOMAIN disk) <= m
    PROVE  Expansion[m][f.path] = SoFar(m, f)
  <1> DEFINE q == PlaceOf(f.path)
             G == F \cup {q}
             n == Cardinality(G)
             p == f.path
  <1>1. q \in DOMAIN disk /\ Closed(G)
    BY EndJoins
  <1>2. G \in SUBSET DOMAIN disk
    BY <1>1
  <1>3. n \in Nat /\ n <= m
    <2> HIDE DEF G
    <2> QED
      BY <1>2, SomeFiles
  <1>4. p \in Paths /\ EndsInName(p) /\ f.text = FileText(p)
    BY DEF ReadSoFar, Readable
  <1>5. Settled(q, n)
    BY <1>1 DEF Closed
  <1> HIDE DEF n, G
  <1>6. Expansion[m][p] = Expansion[n][p] /\ Expansion[m + 1][p] = Expansion[n][p]
    <2>1. m + 1 \in Nat /\ n <= m + 1
      BY <1>3
    <2> QED
      BY <1>3, <1>4, <1>5, <2>1, Zenon DEF Settled
  <1>7. Expansion[m + 1][p] = Flat(Expansion[m], p, f.text)
    BY <1>4, ExpansionSteps
  <1>8. f.line - 1 = Len(f.text)
    BY FrameFacts DEF InText
  <1> QED
    BY <1>6, <1>7, <1>8, Zenon DEF SoFar, Flat

LEMMA FlatInit == Init => FlatInv
  <1> SUFFICES ASSUME Init PROVE FlatInv
    OBVIOUS
  <1>1. Len(stack) = 1 /\ stack[1].line = 1 /\ out = <<>> /\ status = "running"
    BY DEF Init, Frame
  <1>2. ASSUME NEW m PROVE IsWrittenBy(m, stack, out)
    <2>1. SoFar(m, stack[1]) = <<>>
      <3>1. \A L : Joined(L)[0] = <<>>
        BY JoinedSteps
      <3>2. stack[1].line - 1 = 0
        BY <1>1
      <3> QED
        BY <3>1, <3>2, Zenon DEF SoFar
    <2>2. AllSoFar(m, stack)[0] = <<>>
      BY JoinedSteps, Zenon DEF AllSoFar
    <2>3. AllSoFar(m, stack)[1] = <<>>
      <3>1. AllSoFar(m, stack)[0 + 1] = AllSoFar(m, stack)[0] \o SoFar(m, stack[0 + 1])
        <4>1. Len(stack) \in Nat /\ 0 + 1 <= Len(stack) /\ 0 \in Nat
          BY <1>1
        <4> QED
          BY <4>1, CallsJoin, Zenon
      <3>2. 0 + 1 = 1 /\ <<>> \o <<>> = <<>>
        OBVIOUS
      <3> QED
        BY <2>1, <2>2, <3>1, <3>2, Zenon
    <2>4. <<>> \in Seq(OutLines)
      OBVIOUS
    <2>5. \A k \in 1..Len(stack) : k = 1
      BY <1>1
    <2> QED
      BY <1>1, <2>1, <2>3, <2>4, <2>5, Zenon DEF IsWrittenBy
  <1> QED
    BY <1>1, <1>2 DEF FlatInv

(* Nothing moves.                                                          *)
LEMMA FlatRests ==
    ASSUME FlatInv, UNCHANGED <<disk, stack, out>>,
           status' = "expanded" => status = "expanded" \/ Top.line > Len(Top.text)
    PROVE  FlatInv'
  <1>1. \A m \in Nat : Cardinality(DOMAIN disk) <= m => IsWrittenBy(m, stack', out')
    BY DEF FlatInv
  <1>2. \A m \in Nat : Cardinality(DOMAIN disk') <= m => IsWrittenBy(m, stack, out)'
    BY <1>1, SameWritten
  <1>3. Top' = Top
    BY DEF Top
  <1> QED
    BY <1>2, <1>3 DEF FlatInv

(* What one step does to what is written, for each level.                  *)
LEMMA FlatMoves ==
    ASSUME disk' = disk, status' = "running",
           \A m \in Nat : Cardinality(DOMAIN disk) <= m => IsWrittenBy(m, stack', out')
    PROVE  FlatInv'
  BY SameWritten DEF FlatInv

LEMMA FlatWrites ==
    ASSUME FlatInv, IsStack(stack), RestOK, Top.line <= Len(Top.text), Emit, Advance,
           disk' = disk, status' = "running", ~IsImport(Line)
    PROVE  FlatInv'
  <1> DEFINE x == [text |-> Line, at |-> Here]
  <1>1. x \in OutLines
    BY LineIsLine, HereIsPlace DEF OutLines
  <1>2. x = [text |-> Top.text[Top.line], at |-> Place(Top.path, Top.line)]
    BY DEF Line, Here
  <1>3. out' = Append(out, x) /\ Top = stack[Len(stack)] /\ ~IsImport(Top.text[Top.line])
    BY DEF Emit, Top, Line
  <1>4. /\ Len(stack') = Len(stack) /\ stack'[Len(stack)] = Onward(Top)
        /\ \A k \in 1..Len(stack) - 1 : stack'[k] = stack[k]
    BY AdvanceIs
  <1> HIDE DEF x
  <1>5. ASSUME NEW m, IsWrittenBy(m, stack, out)
        PROVE  IsWrittenBy(m, stack', out')
    <2> DEFINE f == Top
               r == stack'
    <2>1. /\ f = stack[Len(stack)] /\ f.line <= Len(f.text) /\ ~IsImport(f.text[f.line])
          /\ x = [text |-> f.text[f.line], at |-> Place(f.path, f.line)]
          /\ Len(r) = Len(stack) /\ r[Len(stack)] = Onward(f)
          /\ \A k \in 1..Len(stack) - 1 : r[k] = stack[k]
      BY <1>2, <1>3, <1>4
    <2> HIDE DEF f, r
    <2>2. IsWrittenBy(m, r, Append(out, x))
      BY <1>1, <1>5, <2>1, WrittenOn
    <2> QED
      BY <1>3, <2>2 DEF r
  <1> QED
    BY <1>5, FlatMoves DEF FlatInv

LEMMA FlatEnters ==
    ASSUME FlatInv, IsStack(stack), RestOK, Import
    PROVE  FlatInv'
  <1> DEFINE n == Len(stack)
             g == Frame(ImportPath, TRUE, FileText(ImportPath))
  <1>1. /\ disk' = disk /\ out' = out /\ status' = "running" /\ stack' = Append(stack, g)
        /\ Readable(ImportPath) /\ Resolves
    BY DEF Import, Resolves, Reading
  <1>2. ImportPath \in Paths /\ FileText(ImportPath) \in Texts
    BY <1>1, ResolvedIsPath, ReadableIsText DEF RestOK
  <1>3. g \in Frames /\ g.line = 1
    BY <1>2, FrameStarts DEF Frame
  <1> HIDE DEF g
  <1>4. /\ Len(stack') = n + 1 /\ stack'[n + 1] = g
        /\ \A k \in 1..n : stack'[k] = stack[k]
    BY <1>1, <1>3, AppendSeq DEF IsStack
  <1>5. ASSUME NEW m, IsWrittenBy(m, stack, out)
        PROVE  IsWrittenBy(m, stack', out')
    <2> DEFINE r == stack'
    <2>1. /\ Len(r) = Len(stack) + 1 /\ r[Len(stack) + 1].line = 1
          /\ \A k \in 1..Len(stack) : r[k] = stack[k]
      BY <1>3, <1>4
    <2> HIDE DEF r
    <2>2. IsWrittenBy(m, r, out)
      BY <1>5, <2>1, WrittenBefore
    <2> QED
      BY <1>1, <2>2 DEF r
  <1> QED
    BY <1>1, <1>5, FlatMoves DEF FlatInv

LEMMA FlatLeaves ==
    ASSUME FlatInv, CircleInv, IsStack(stack), RestOK, Return
    PROVE  FlatInv'
  <1>1. PICK F \in SUBSET DOMAIN disk : ReadToEnd(F)
    BY DEF CircleInv
  <1>2. /\ disk' = disk /\ out' = out /\ status' = "running" /\ Len(stack) > 1
        /\ stack' = [Leading(stack) EXCEPT ![Len(stack) - 1].line = @ + 1]
        /\ Top.line > Len(Top.text)
    BY DEF Return, AtEnd
  <1>3. PICK n \in Nat : Len(stack) = n + 2
    <2>1. Len(stack) \in Nat
      BY TopIsFrame
    <2>2. Len(stack) - 2 \in Nat /\ Len(stack) = (Len(stack) - 2) + 2
      BY <1>2, <2>1
    <2> QED
      BY <2>2
  <1> DEFINE f == stack[n + 1]
             g == stack[n + 2]
  <1>4. /\ Len(stack') = n + 1 /\ stack'[n + 1] = Onward(f)
        /\ \A k \in 1..n : stack'[k] = stack[k]
    <2>1. (n + 2) - 1 = n + 1 /\ (n + 2) - 2 = n
      OBVIOUS
    <2> QED
      BY <1>2, <1>3, <2>1, PopIs
  <1>5. /\ g \in Frames /\ InText(g) /\ g.line > Len(g.text) /\ ReadSoFar(g, F)
    <2>1. g = Top
      BY <1>3 DEF Top
    <2>2. n + 2 \in 2..Len(stack)
      BY <1>3
    <2> QED
      BY <1>1, <1>2, <2>1, <2>2, TopIsFrame DEF ReadToEnd
  <1>6. g.path = PathFrom(f.path, f.text[f.line]) /\ IsImport(f.text[f.line])
    <2>1. n + 1 \in 1..(Len(stack) - 1) /\ (n + 1) + 1 = n + 2
      BY <1>3
    <2>2. CalledFrom(stack[n + 1], stack[(n + 1) + 1])
      BY <2>1 DEF CircleInv, CallChain
    <2>3. Waits(f)
      BY <2>1 DEF IsStack
    <2> QED
      BY <2>1, <2>2, <2>3 DEF CalledFrom, Waits, IsImport
  <1> HIDE DEF f, g
  <1>7. ASSUME NEW m \in Nat, Cardinality(DOMAIN disk) <= m, IsWrittenBy(m, stack, out)
        PROVE  IsWrittenBy(m, stack', out')
    <2>1. Expansion[m][g.path] = SoFar(m, g)
      BY <1>1, <1>5, <1>7, WholeFile DEF ReadToEnd, RestOK
    <2> DEFINE r == stack'
               l == f.text[f.line]
    <2>2. /\ Len(r) = n + 1 /\ r[n + 1] = Onward(f)
          /\ \A k \in 1..n : r[k] = stack[k]
      BY <1>4
    <2>3. /\ f = stack[n + 1] /\ IsImport(f.text[f.line])
          /\ Expansion[m][PathFrom(f.path, f.text[f.line])] = SoFar(m, stack[n + 2])
      BY <1>6, <2>1 DEF f, g
    <2> HIDE DEF r
    <2>4. IsWrittenBy(m, r, out)
      BY <1>3, <1>7, <2>2, <2>3, WrittenBack
    <2> QED
      BY <1>2, <2>4 DEF r
  <1> QED
    BY <1>2, <1>7, FlatMoves DEF FlatInv

LEMMA FlatNext == IInv /\ CircleInv /\ FlatInv /\ [Next]_vars => FlatInv'
  <1> SUFFICES ASSUME IInv, CircleInv, FlatInv, [Next]_vars PROVE FlatInv'
    OBVIOUS
  <1>1. IsStack(stack) /\ RestOK
    BY TypeParts DEF IInv
  <1>2. CASE Blank \/ Define \/ Expression
    <2>1. /\ Top.line <= Len(Top.text) /\ Emit /\ Advance /\ disk' = disk
          /\ status' = "running" /\ ~IsImport(Line)
      BY <1>2 DEF Blank, Define, Expression, Reading, IsImport
    <2> QED
      BY <1>1, <2>1, FlatWrites
  <1>3. CASE Import
    BY <1>1, <1>3, FlatEnters
  <1>4. CASE Return
    BY <1>1, <1>4, FlatLeaves
  <1>5. CASE Finish
    BY <1>5, FlatRests DEF Finish, AtEnd
  <1>6. CASE \/ RejectDuplicate \/ RejectExpression \/ RejectSyntax \/ RejectBaseless
             \/ RejectLibrary \/ RejectCycle \/ RejectUnreadable
    <2>1. UNCHANGED <<disk, stack, out>> /\ status' = "failed"
      BY <1>6 DEF RejectDuplicate, RejectExpression, RejectSyntax, RejectBaseless,
                  RejectLibrary, RejectCycle, RejectUnreadable, Fail
    <2> QED
      BY <2>1, FlatRests
  <1>7. CASE UNCHANGED vars
    BY <1>7, FlatRests DEF vars
  <1> QED
    BY <1>2, <1>3, <1>4, <1>5, <1>6, <1>7 DEF Next

(* Every level from the number of files on gives the whole flat source.    *)
LEMMA FlatAtEnd ==
    ASSUME IInv, CircleInv, FlatInv, status = "expanded",
           NEW m \in Nat, Cardinality(DOMAIN disk) <= m
    PROVE  out = Flat(Expansion[m], stack[1].path, stack[1].text)
  <1> DEFINE f == stack[1]
  <1>1. IsStack(stack) /\ Len(stack) = 1 /\ Top = f
    BY TypeParts DEF IInv, CircleInv, Top
  <1>2. f \in Frames /\ InText(f) /\ f.line > Len(f.text)
    BY <1>1, TopIsFrame DEF FlatInv
  <1>3. f.line - 1 = Len(f.text)
    BY <1>2, FrameFacts DEF InText
  <1>4. IsWrittenBy(m, stack, out)
    BY DEF FlatInv
  <1>5. SoFar(m, f) \in Seq(OutLines) /\ out = AllSoFar(m, stack)[1]
    BY <1>1, <1>4 DEF IsWrittenBy
  <1>6. AllSoFar(m, stack)[1] = AllSoFar(m, stack)[0] \o SoFar(m, f)
    <2>1. AllSoFar(m, stack)[0 + 1] = AllSoFar(m, stack)[0] \o SoFar(m, stack[0 + 1])
      <3>1. Len(stack) \in Nat /\ 0 + 1 <= Len(stack) /\ 0 \in Nat
        BY <1>1
      <3> QED
        BY <3>1, CallsJoin, Zenon
    <2>2. 0 + 1 = 1
      OBVIOUS
    <2> QED
      BY <2>1, <2>2, Zenon
  <1>7. AllSoFar(m, stack)[0] = <<>>
    BY JoinedSteps, Zenon DEF AllSoFar
  <1> HIDE DEF f
  <1>8. <<>> \o SoFar(m, f) = SoFar(m, f)
    BY <1>5, ConcatEmptySeq
  <1>9. SoFar(m, f) = Flat(Expansion[m], f.path, f.text)
    BY <1>3, Zenon DEF SoFar, Flat
  <1> QED
    BY <1>5, <1>6, <1>7, <1>8, <1>9, Zenon DEF f

-----------------------------------------------------------------------------
(* The files that can be read, by all the paths they have.                 *)
Files == {p \in Paths : Readable(p)}

LEMMA FinitelyManyFiles == IsFiniteSet(Files) /\ Cardinality(Files) \in Nat
  <1>1. IsFiniteSet(UpTo(MaxPath))
    BY FinitePaths, SegmentsAssumption
  <1>2. Files \subseteq UpTo(MaxPath)
    BY DEF Files, UpTo, Readable
  <1>3. IsFiniteSet(Files)
    BY <1>1, <1>2, FS_Subset
  <1> QED
    BY <1>3, FS_CardinalityType

(* There are finitely many functions from one finite set to another.       *)
LEMMA FiniteFunctions ==
    ASSUME NEW S, NEW T, IsFiniteSet(S), IsFiniteSet(T)
    PROVE  IsFiniteSet([S -> T])
  <1> DEFINE F == [S -> T]
             G == SUBSET (S \X T)
             h == [f \in F |-> {<<x, f[x]>> : x \in S}]
  <1>1. IsFiniteSet(G)
    BY FS_Product, FS_SUBSET
  <1>2. h \in [F -> G]
    OBVIOUS
  <1>3. ASSUME NEW f \in F, NEW g \in F, h[f] = h[g]
        PROVE  f = g
    <2>1. ASSUME NEW x \in S
          PROVE  f[x] = g[x]
      <3>1. <<x, f[x]>> \in h[g]
        BY <1>3
      <3>2. PICK y \in S : <<x, f[x]>> = <<y, g[y]>>
        BY <3>1
      <3> QED
        BY <3>2
    <2> QED
      BY <2>1
  <1> HIDE DEF h, F, G
  <1>4. h \in Injection(F, G)
    BY <1>2, <1>3 DEF Injection, IsInjective
  <1> QED
    BY <1>1, <1>4, FS_Injection DEF F

-----------------------------------------------------------------------------
(* An expansion comes to an end.  No path is on the stack twice, and there *)
(* are finitely many paths that can be opened, so the stack has a greatest *)
(* depth.  Write down for each depth the line that the call there is at,   *)
(* and 0 where there is no call: every step makes this list of numbers     *)
(* greater at the first place where it changes anything, as a call that    *)
(* returns lets its caller go on to the next line.  There are finitely     *)
(* many such lists, and so finitely many steps.                            *)
(*                                                                         *)
(* No path is on the stack twice: import_stack_contains.                   *)
NoPathTwice ==
    \A i, j \in 1..Len(stack) : stack[i].path = stack[j].path => i = j

(* So there are at most as many calls as files, and the program's own.     *)
Depth == Cardinality(Files) + 1

Numbers(text) == 1..Len(text)
AllNumbers ==
    Numbers(stack[1].text) \cup UNION {Numbers(disk[p]) : p \in DOMAIN disk}
Longest == Cardinality(AllNumbers)

(* Where the expansion is: the line of every call, 0 where there is none.  *)
Moments == [1..Depth -> 0..(Longest + 1)]
Moment  == [k \in 1..Depth |-> IF k <= Len(stack) THEN stack[k].line ELSE 0]

(* The first call that is at another line decides which moment is earlier. *)
Earlier(m, n, k) == m[k] < n[k] /\ \A j \in 1..(k - 1) : m[j] = n[j]
Before(m, n) == \E k \in 1..Depth : Earlier(m, n, k)

StepsLeft == Cardinality({m \in Moments : Before(Moment, m)})

LEMMA BeforeOrders ==
    ASSUME Depth \in Nat, NEW a \in Moments, NEW b \in Moments, NEW c \in Moments, Longest \in Nat
    PROVE  /\ ~ Before(a, a)
           /\ Before(a, b) /\ Before(b, c) => Before(a, c)
  <1>1. \A k \in 1..Depth : a[k] \in Int /\ b[k] \in Int /\ c[k] \in Int
    BY DEF Moments
  <1>2. ~ Before(a, a)
    BY <1>1 DEF Before, Earlier
  <1>3. ASSUME Before(a, b), Before(b, c)
        PROVE  Before(a, c)
    <2>1. PICK k \in 1..Depth : Earlier(a, b, k)
      BY <1>3 DEF Before
    <2>2. PICK l \in 1..Depth : Earlier(b, c, l)
      BY <1>3 DEF Before
    <2>3. k \in Int /\ l \in Int /\ 1 <= k /\ 1 <= l
      OBVIOUS
    <2>4. CASE k < l
      <3>1. k \in 1..(l - 1) /\ \A j \in 1..(k - 1) : j \in 1..(l - 1)
        BY <2>3, <2>4
      <3>2. Earlier(a, c, k)
        BY <2>1, <2>2, <3>1 DEF Earlier
      <3> QED
        BY <3>2 DEF Before
    <2>5. CASE l < k
      <3>1. l \in 1..(k - 1) /\ \A j \in 1..(l - 1) : j \in 1..(k - 1)
        BY <2>3, <2>5
      <3>2. Earlier(a, c, l)
        BY <2>1, <2>2, <3>1 DEF Earlier
      <3> QED
        BY <3>2 DEF Before
    <2>6. CASE l = k
      <3>1. Earlier(a, c, k)
        BY <1>1, <2>1, <2>2, <2>6 DEF Earlier
      <3> QED
        BY <3>1 DEF Before
    <2> QED
      BY <2>3, <2>4, <2>5, <2>6
  <1> QED
    BY <1>2, <1>3

(* No file is longer than the longest.                                     *)
LEMMA LongestIsNat ==
    ASSUME IsStack(stack), RestOK
    PROVE  Longest \in Nat /\ IsFiniteSet(AllNumbers)
  <1>1. \A t \in Texts : IsFiniteSet(Numbers(t))
    <2> SUFFICES ASSUME NEW t \in Texts PROVE IsFiniteSet(1..Len(t))
      BY DEF Numbers
    <2>1. Len(t) \in Int
      BY DEF Texts
    <2> QED
      BY <2>1, FS_Interval
  <1>2. stack[1].text \in Texts
    <2>1. 1 \in 1..Len(stack) /\ stack \in Seq(Frames)
      BY TopIsFrame DEF IsStack
    <2>2. stack[1] \in Frames
      BY <2>1
    <2> QED
      BY <2>2 DEF Frames
  <1>3. IsFiniteSet(DOMAIN disk) /\ \A p \in DOMAIN disk : disk[p] \in Texts
    BY DisksAssumption, TextsAssumption DEF RestOK
  <1> DEFINE D == DOMAIN disk
             f == [p \in D |-> Numbers(disk[p])]
             E == {f[p] : p \in D}
  <1>4. f \in Surjection(D, E)
    BY DEF Surjection
  <1>5. IsFiniteSet(E)
    BY <1>3, <1>4, FS_Surjection
  <1>6. \A T \in E : IsFiniteSet(T)
    BY <1>1, <1>3
  <1>7. IsFiniteSet(UNION E)
    BY <1>5, <1>6, FS_UNION
  <1>8. E = {Numbers(disk[p]) : p \in DOMAIN disk}
    OBVIOUS
  <1> HIDE DEF E
  <1>9. IsFiniteSet(AllNumbers)
    BY <1>1, <1>2, <1>7, <1>8, FS_Union DEF AllNumbers
  <1> QED
    BY <1>9, FS_CardinalityType DEF Longest

LEMMA TextsAreShort ==
    ASSUME IsStack(stack), RestOK, NEW t \in Texts, Numbers(t) \subseteq AllNumbers
    PROVE  Len(t) <= Longest
  <1>1. Len(t) \in Nat
    BY DEF Texts
  <1>2. Cardinality(1..Len(t)) = Len(t)
    <2>1. Cardinality(1..Len(t)) = IF 1 > Len(t) THEN 0 ELSE Len(t) - 1 + 1
      BY <1>1, FS_Interval
    <2> QED
      BY <1>1, <2>1
  <1>3. Cardinality(Numbers(t)) <= Cardinality(AllNumbers)
    BY LongestIsNat, FS_Subset
  <1> QED
    BY <1>2, <1>3 DEF Numbers, Longest

(* At most as many calls as there are files.                               *)
LEMMA DepthIsBounded ==
    ASSUME IsStack(stack), NoPathTwice, CircleInv
    PROVE  Depth \in Nat \ {0} /\ Len(stack) <= Depth
  <1> DEFINE n == Len(stack)
             S == 2..n
             f == [k \in S |-> stack[k].path]
  <1>1. n \in Nat \ {0}
    BY TopIsFrame
  <1>2. Cardinality(S) = n - 1 /\ IsFiniteSet(S)
    <2>1. IsFiniteSet(S) /\ Cardinality(S) = IF 2 > n THEN 0 ELSE n - 2 + 1
      BY <1>1, FS_Interval
    <2> QED
      BY <1>1, <2>1
  <1>3. \A k \in S : stack[k].path \in Files
    BY DEF CircleInv, ReadToEnd, ReadSoFar, Files
  <1>4. f \in [S -> Files]
    BY <1>3
  <1>5. \A i, j \in S : stack[i].path = stack[j].path => i = j
    <2>1. \A i \in S : i \in 1..n
      BY <1>1
    <2> QED
      BY <2>1 DEF NoPathTwice
  <1>6. f \in Injection(S, Files)
    BY <1>4, <1>5 DEF Injection, IsInjective
  <1> HIDE DEF S, f
  <1>7. Cardinality(S) <= Cardinality(Files)
    BY <1>6, FinitelyManyFiles, FS_Injection
  <1> QED
    BY <1>1, <1>2, <1>7, FinitelyManyFiles DEF Depth

(* Where an expansion is, is one of finitely many moments.                 *)
LEMMA MomentIsMoment ==
    ASSUME IsStack(stack), RestOK, NoPathTwice, CircleInv
    PROVE  /\ Moment \in Moments
           /\ IsFiniteSet(Moments)
           /\ Longest \in Nat
  <1>1. Depth \in Nat \ {0} /\ Len(stack) <= Depth /\ Longest \in Nat
    BY DepthIsBounded, LongestIsNat
  <1>2. IsFiniteSet(1..Depth) /\ IsFiniteSet(0..(Longest + 1))
    <2>1. Depth \in Int /\ Longest + 1 \in Int /\ 1 \in Int /\ 0 \in Int
      BY <1>1
    <2> QED
      BY <2>1, FS_Interval
  <1>3. IsFiniteSet(Moments)
    BY <1>2, FiniteFunctions DEF Moments
  <1>4. ASSUME NEW k \in 1..Len(stack)
        PROVE  stack[k].line \in 0..(Longest + 1)
    <2>1. stack[k] \in Frames /\ InText(stack[k]) /\ stack[k].text \in Texts
      <3>1. stack[k] \in Frames /\ InText(stack[k])
        BY DEF IsStack
      <3> QED
        BY <3>1 DEF Frames
    <2>2. Numbers(stack[k].text) \subseteq AllNumbers
      <3>1. CASE k = 1
        BY <3>1 DEF AllNumbers
      <3>2. CASE k # 1
        <4>1. k \in 2..Len(stack)
          BY <3>2, TopIsFrame
        <4>2. Readable(stack[k].path) /\ stack[k].text = FileText(stack[k].path)
          BY <4>1 DEF CircleInv, ReadToEnd, ReadSoFar
        <4>3. PlaceOf(stack[k].path) \in DOMAIN disk /\ stack[k].text = disk[PlaceOf(stack[k].path)]
          BY <4>2 DEF Readable, FileText
        <4> QED
          BY <4>3 DEF AllNumbers
      <3> QED
        BY <3>1, <3>2
    <2>3. Len(stack[k].text) <= Longest
      BY <2>1, <2>2, TextsAreShort
    <2>4. stack[k].line \in 1..Len(stack[k].text) + 1 /\ Len(stack[k].text) \in Nat
      BY <2>1, FrameFacts DEF InText
    <2> QED
      BY <1>1, <2>3, <2>4
  <1>5. ASSUME NEW k \in 1..Depth
        PROVE  (IF k <= Len(stack) THEN stack[k].line ELSE 0) \in 0..(Longest + 1)
    <2>1. CASE k <= Len(stack)
      <3>1. k \in 1..Len(stack)
        BY <1>1, <2>1, TopIsFrame
      <3> QED
        BY <1>4, <2>1, <3>1
    <2>2. CASE ~ (k <= Len(stack))
      BY <1>1, <2>2
    <2> QED
      BY <2>1, <2>2
  <1>6. Moment \in Moments
    BY <1>5 DEF Moment, Moments
  <1> QED
    BY <1>1, <1>3, <1>6

(* The paths of the calls that stay are the same ones; the one that is     *)
(* entered is none of them.                                                *)
LEMMA NoPathTwiceInit == Init => NoPathTwice
  BY DEF Init, NoPathTwice

LEMMA NoPathTwiceNext == IInv /\ NoPathTwice /\ [Next]_vars => NoPathTwice'
  <1> SUFFICES ASSUME IInv, NoPathTwice, [Next]_vars PROVE NoPathTwice'
    OBVIOUS
  <1> DEFINE n == Len(stack)
  <1>1. IsStack(stack) /\ RestOK /\ n \in Nat \ {0}
    BY TypeParts, TopIsFrame DEF IInv
  <1>2. ASSUME Len(stack') \in Nat, Len(stack') <= n, SameCalls(stack', stack, Len(stack'))
        PROVE  NoPathTwice'
    <2> SUFFICES ASSUME NEW i \in 1..Len(stack'), NEW j \in 1..Len(stack'),
                        stack'[i].path = stack'[j].path
                 PROVE  i = j
      BY DEF NoPathTwice
    <2>1. i \in 1..n /\ j \in 1..n
      BY <1>1, <1>2
    <2>2. stack[i].path = stack[j].path
      BY <1>2 DEF SameCalls
    <2> QED
      BY <2>1, <2>2 DEF NoPathTwice
  <1>3. CASE Blank \/ Define \/ Expression
    <2>1. Top.line <= Len(Top.text) /\ Advance
      BY <1>3 DEF Blank, Define, Expression, Reading
    <2>2. Len(stack') = n /\ SameCalls(stack', stack, n)
      BY <1>1, <2>1, AdvanceStack
    <2> QED
      BY <1>1, <1>2, <2>2
  <1>4. CASE Return
    <2>1. Len(stack) > 1 /\ stack' = [Leading(stack) EXCEPT ![Len(stack) - 1].line = @ + 1]
      BY <1>4 DEF Return
    <2>2. Len(stack') = n - 1 /\ SameCalls(stack', stack, Len(stack'))
      BY <1>1, <2>1, PopStack
    <2> QED
      BY <1>1, <1>2, <2>2
  <1>5. CASE Import
    <2> DEFINE g == Frame(ImportPath, TRUE, FileText(ImportPath))
    <2>1. /\ stack' = Append(stack, g) /\ ~ OnStack(ImportPath) /\ Resolves
          /\ Readable(ImportPath)
      BY <1>5 DEF Import
    <2>2. ImportPath \in Paths /\ FileText(ImportPath) \in Texts
      BY <1>1, <2>1, ResolvedIsPath, ReadableIsText DEF RestOK, Resolves, Reading
    <2>3. g \in Frames /\ g.path = ImportPath
      BY <2>2, FrameStarts
    <2> HIDE DEF g
    <2>4. /\ Len(stack') = n + 1 /\ stack'[n + 1].path = ImportPath
          /\ \A k \in 1..n : stack'[k] = stack[k]
      BY <1>1, <2>1, <2>3, AppendSeq DEF IsStack
    <2>5. \A k \in 1..n : stack[k].path # ImportPath
      BY <2>1 DEF OnStack
    <2> SUFFICES ASSUME NEW i \in 1..(n + 1), NEW j \in 1..(n + 1),
                        stack'[i].path = stack'[j].path
                 PROVE  i = j
      BY <2>4 DEF NoPathTwice
    <2>6. (i \in 1..n \/ i = n + 1) /\ (j \in 1..n \/ j = n + 1)
      BY <1>1
    <2> HIDE DEF n
    <2> QED
      BY <2>4, <2>5, <2>6 DEF NoPathTwice, n
  <1>6. CASE UNCHANGED stack
    BY <1>6 DEF NoPathTwice
  <1>7. CASE UNCHANGED vars
    BY <1>6, <1>7 DEF vars
  <1>8. CASE \/ Finish \/ RejectDuplicate \/ RejectExpression \/ RejectSyntax \/ RejectBaseless
             \/ RejectLibrary \/ RejectCycle \/ RejectUnreadable
    BY <1>6, <1>8 DEF Finish, RejectDuplicate, RejectExpression, RejectSyntax, RejectBaseless,
                      RejectLibrary, RejectCycle, RejectUnreadable, Fail
  <1> QED
    BY <1>3, <1>4, <1>5, <1>7, <1>8 DEF Next

(* The text of the program is what it was.                                 *)
LEMMA SameMoments ==
    ASSUME disk' = disk, stack'[1].text = stack[1].text
    PROVE  /\ Depth' = Depth
           /\ Longest' = Longest
           /\ Moments' = Moments
  <1>1. Files' = Files
    BY SameDisk, Zenon DEF Files
  <1>2. Depth' = Depth
    BY <1>1, Zenon DEF Depth
  <1>3. AllNumbers' = AllNumbers
    BY Zenon DEF AllNumbers, Numbers
  <1>4. Longest' = Longest
    BY <1>3, Zenon DEF Longest
  <1> QED
    BY <1>2, <1>4, Zenon DEF Moments

(* A step that moves the k-th call on, or enters it, leads to a later      *)
(* moment: the calls before it are where they were.                        *)
LEMMA MovesForward ==
    ASSUME IsStack(stack), IsStack(stack'), Depth \in Nat, Depth' = Depth,
           NEW k \in 1..Depth, k <= Len(stack'), k - 1 <= Len(stack),
           \A j \in 1..(k - 1) : stack'[j].line = stack[j].line,
           k <= Len(stack) => stack[k].line < stack'[k].line
    PROVE  Before(Moment, Moment')
  <1>1. Len(stack) \in Nat /\ Len(stack') \in Nat
    BY DEF IsStack
  <1>2. /\ Moment = [j \in 1..Depth |-> IF j <= Len(stack) THEN stack[j].line ELSE 0]
        /\ Moment' = [j \in 1..Depth |-> IF j <= Len(stack') THEN stack'[j].line ELSE 0]
    BY DEF Moment
  <1>3. Moment'[k] = stack'[k].line /\ stack'[k].line >= 1 /\ stack'[k].line \in Nat
    <2>1. k \in 1..Len(stack')
      BY <1>1
    <2>2. stack'[k] \in Frames /\ InText(stack'[k])
      BY <2>1 DEF IsStack
    <2> QED
      BY <1>2, <2>2, FrameFacts DEF InText
  <1>4. Moment[k] < Moment'[k]
    <2>1. CASE k <= Len(stack)
      BY <1>2, <1>3, <2>1
    <2>2. CASE ~ (k <= Len(stack))
      <3>1. Moment[k] = 0
        BY <1>2, <2>2
      <3> QED
        BY <1>3, <3>1
    <2> QED
      BY <2>1, <2>2
  <1>5. ASSUME NEW j \in 1..(k - 1)
        PROVE  Moment[j] = Moment'[j]
    <2>1. j \in 1..Depth /\ j <= Len(stack) /\ j <= Len(stack')
      BY <1>1
    <2> QED
      BY <1>2, <2>1
  <1> QED
    BY <1>4, <1>5 DEF Before, Earlier

(* At a later moment there are fewer steps left.                           *)
LEMMA FewerLeft ==
    ASSUME Depth \in Nat, Longest \in Nat, IsFiniteSet(Moments),
           NEW a \in Moments, NEW b \in Moments, Before(a, b)
    PROVE  Cardinality({m \in Moments : Before(b, m)})
             < Cardinality({m \in Moments : Before(a, m)})
  <1> DEFINE A == {m \in Moments : Before(a, m)}
             B == {m \in Moments : Before(b, m)}
  <1>1. B \subseteq A /\ b \in A /\ b \notin B
    BY BeforeOrders
  <1>2. IsFiniteSet(A) /\ IsFiniteSet(B)
    BY FS_Subset
  <1> HIDE DEF A, B
  <1>3. /\ Cardinality(B) <= Cardinality(A)
        /\ Cardinality(A) = Cardinality(B) => A = B
    BY <1>1, <1>2, FS_Subset
  <1>4. Cardinality(A) \in Nat /\ Cardinality(B) \in Nat
    BY <1>2, FS_CardinalityType
  <1>5. Cardinality(B) < Cardinality(A)
    BY <1>1, <1>3, <1>4
  <1> QED
    BY <1>5 DEF A, B

-----------------------------------------------------------------------------
EndInv == IInv /\ CircleInv /\ NoPathTwice

Bounded ==
    /\ Moment \in Moments
    /\ IsFiniteSet(Moments)
    /\ Longest \in Nat
    /\ Depth \in Nat
    /\ Len(stack) <= Depth

LEMMA ManyMoments == EndInv => Bounded
  BY TypeParts, MomentIsMoment, DepthIsBounded DEF EndInv, IInv, Bounded

(* The same after a step.                                                  *)
LEMMA ManyMomentsNext == EndInv' => Bounded'
  BY ManyMoments, PTL

(* Every step that does not end the expansion leads to a later moment.     *)
LEMMA StepsForward ==
    ASSUME EndInv, EndInv', Next, status' = "running"
    PROVE  Before(Moment, Moment') /\ Moments' = Moments /\ Depth' = Depth /\ Longest' = Longest
  <1> DEFINE n == Len(stack)
  <1>1. IsStack(stack) /\ RestOK /\ n \in Nat \ {0} /\ IsStack(stack')
    BY TypeParts, TypePartsPrime, TopIsFrame DEF EndInv, IInv
  <1>2. disk' = disk
    BY DiskStays
  <1>3. Bounded /\ Bounded'
    BY ManyMoments, ManyMomentsNext
  <1>4. n <= Depth /\ Len(stack') <= Depth' /\ Depth \in Nat
    BY <1>3 DEF Bounded
  <1>5. \A k \in 1..n : stack[k] \in Frames /\ stack[k].line \in Nat
    BY <1>1, FrameFacts DEF IsStack
  <1>6. \A k \in 1..n : /\ Onward(stack[k]).line = stack[k].line + 1
                        /\ Onward(stack[k]).text = stack[k].text
    BY <1>5 DEF Onward, Frames
  <1>7. ASSUME stack'[1].text = stack[1].text
        PROVE  Moments' = Moments /\ Depth' = Depth /\ Longest' = Longest
    BY <1>2, <1>7, SameMoments
  <1>8. CASE Blank \/ Define \/ Expression
    <2>1. Advance
      BY <1>8 DEF Blank, Define, Expression
    <2>2. /\ Len(stack') = n /\ stack'[n] = Onward(stack[n])
          /\ \A k \in 1..n - 1 : stack'[k] = stack[k]
      BY <1>1, <2>1, AdvanceIs, TopIsFrame
    <2>3. stack'[1].text = stack[1].text
      <3>1. n = 1 \/ 1 \in 1..n - 1
        BY <1>1
      <3> QED
        BY <1>1, <1>6, <2>2, <3>1
    <2>4. Before(Moment, Moment')
      <3>1. n \in 1..Depth /\ n <= Len(stack') /\ n - 1 <= Len(stack)
        BY <1>1, <1>4, <2>2
      <3>2. stack[n].line < stack'[n].line
        BY <1>1, <1>5, <1>6, <2>2
      <3>3. \A j \in 1..(n - 1) : stack'[j].line = stack[j].line
        BY <2>2
      <3> QED
        BY <1>1, <1>4, <1>7, <2>3, <3>1, <3>2, <3>3, MovesForward
    <2> QED
      BY <1>7, <2>3, <2>4
  <1>9. CASE Import
    <2> DEFINE g == Frame(ImportPath, TRUE, FileText(ImportPath))
    <2>1. stack' = Append(stack, g) /\ Resolves /\ Readable(ImportPath)
      BY <1>9 DEF Import
    <2>2. ImportPath \in Paths /\ FileText(ImportPath) \in Texts
      BY <1>1, <2>1, ResolvedIsPath, ReadableIsText DEF RestOK, Resolves, Reading
    <2>3. g \in Frames
      BY <2>2, FrameStarts
    <2> HIDE DEF g
    <2>4. Len(stack') = n + 1 /\ \A k \in 1..n : stack'[k] = stack[k]
      BY <1>1, <2>1, <2>3, AppendSeq DEF IsStack
    <2>5. stack'[1].text = stack[1].text
      BY <1>1, <2>4
    <2>6. Before(Moment, Moment')
      <3>1. /\ n + 1 \in 1..Depth /\ n + 1 <= Len(stack') /\ (n + 1) - 1 <= Len(stack)
            /\ ~ (n + 1 <= Len(stack))
        BY <1>1, <1>4, <1>7, <2>4, <2>5
      <3>2. \A j \in 1..((n + 1) - 1) : stack'[j].line = stack[j].line
        BY <1>1, <2>4
      <3> QED
        BY <1>1, <1>4, <1>7, <2>5, <3>1, <3>2, MovesForward
    <2> QED
      BY <1>7, <2>5, <2>6
  <1>10. CASE Return
    <2>1. n > 1 /\ stack' = [Leading(stack) EXCEPT ![Len(stack) - 1].line = @ + 1]
      BY <1>10 DEF Return
    <2>2. /\ Len(stack') = n - 1 /\ stack'[n - 1] = Onward(stack[n - 1])
          /\ \A k \in 1..n - 2 : stack'[k] = stack[k]
      BY <1>1, <2>1, PopIs
    <2>3. n - 1 \in 1..n /\ (n - 1) - 1 = n - 2
      BY <1>1, <2>1
    <2>4. stack'[1].text = stack[1].text
      <3>1. n - 1 = 1 \/ 1 \in 1..n - 2
        <4>1. n \in Nat /\ n > 1
          BY <1>1, <2>1
        <4> HIDE DEF n
        <4> QED
          BY <4>1
      <3> QED
        BY <1>6, <2>2, <2>3, <3>1
    <2>5. Before(Moment, Moment')
      <3>1. n - 1 \in 1..Depth /\ n - 1 <= Len(stack') /\ (n - 1) - 1 <= Len(stack)
        BY <1>1, <1>4, <2>1, <2>2
      <3>2. stack[n - 1].line < stack'[n - 1].line
        BY <1>5, <1>6, <2>2, <2>3
      <3>3. \A j \in 1..((n - 1) - 1) : stack'[j].line = stack[j].line
        BY <2>2, <2>3
      <3> QED
        BY <1>1, <1>4, <1>7, <2>4, <3>1, <3>2, <3>3, MovesForward
    <2> QED
      BY <1>7, <2>4, <2>5
  <1>11. ~ (Finish \/ RejectDuplicate \/ RejectExpression \/ RejectSyntax \/ RejectBaseless
              \/ RejectLibrary \/ RejectCycle \/ RejectUnreadable)
    BY DEF Finish, RejectDuplicate, RejectExpression, RejectSyntax, RejectBaseless,
           RejectLibrary, RejectCycle, RejectUnreadable, Fail
  <1> QED
    BY <1>8, <1>9, <1>10, <1>11 DEF Next

LEMMA StepsFewer ==
    EndInv /\ EndInv' /\ [Next]_vars => [status' = "running" => StepsLeft' < StepsLeft]_vars
  <1> SUFFICES ASSUME EndInv, EndInv', Next, status' = "running"
               PROVE  StepsLeft' < StepsLeft
    OBVIOUS
  <1>1. Before(Moment, Moment') /\ Moments' = Moments /\ Depth' = Depth
    BY StepsForward
  <1>2. Bounded /\ Bounded'
    BY ManyMoments, ManyMomentsNext
  <1>3. Moment' \in Moments
    BY <1>1, <1>2 DEF Bounded
  <1>4. Cardinality({m \in Moments : Before(Moment', m)})
          < Cardinality({m \in Moments : Before(Moment, m)})
    BY <1>1, <1>2, <1>3, FewerLeft DEF Bounded
  <1>5. \A a, b : Before(a, b)' <=> Before(a, b)
    BY <1>1, Zenon DEF Before, Earlier
  <1>6. StepsLeft' = Cardinality({m \in Moments : Before(Moment', m)})
    BY <1>1, <1>5, Zenon DEF StepsLeft
  <1> QED
    BY <1>4, <1>6, Zenon DEF StepsLeft

-----------------------------------------------------------------------------
(* The strengthened invariant holds of every expansion.                    *)
THEOREM Invariance == Spec => []IInv
  BY InitInv, NextInv, PTL DEF Spec

(* The calls, the list of definitions and the flat source keep their       *)
(* types, and no call of preprocess_source_recursive leaves its text.      *)
THEOREM TypeCorrect == Spec => []TypeOK
  <1>1. IInv => TypeOK
    BY DEF IInv
  <1> QED
    BY <1>1, Invariance, PTL

(* Whatever the import tree, the flat source never defines a name twice.   *)
THEOREM NamesAreUnique == Spec => []NoNameTwice
  <1>1. IInv => NoNameTwice
    BY DEF IInv
  <1> QED
    BY <1>1, Invariance, PTL

(* Whatever the import tree, only the program itself has expressions in    *)
(* the flat source.                                                        *)
THEOREM ImportsEvaluateNothing == Spec => []OnlyProgramEvaluates
  <1>1. IInv => OnlyProgramEvaluates
    BY DEF IInv
  <1> QED
    BY <1>1, Invariance, PTL

(* A duplicate definition is only reported where there is one, and the     *)
(* earlier place named is that of the earlier definition.                  *)
THEOREM DuplicatesAreReal == Spec => []DuplicateReportIsTrue
  <1>1. IInv => DuplicateReportIsTrue
    BY DEF IInv
  <1> QED
    BY <1>1, Invariance, PTL

(* Files that import each other in a circle are never expanded, by however *)
(* different paths they are reached, and however long those may be.        *)
THEOREM NoCircleExpands == Spec => []CyclesNeverExpand
  <1>1. IInv /\ CircleInv => CyclesNeverExpand
    <2> SUFFICES ASSUME IInv, CircleInv, status = "expanded", NEW i \in 1..Len(out),
                        out[i].at.path # stack[1].path
                 PROVE  InNoCircle(PlaceOf(out[i].at.path))
      BY DEF CyclesNeverExpand
    <2>1. PICK F \in SUBSET DOMAIN disk : ReadToEnd(F)
      BY DEF CircleInv
    <2>2. Len(stack) = 1
      BY DEF CircleInv
    <2>3. PlaceOf(out[i].at.path) \in F
      BY <2>1, <2>2 DEF ReadToEnd, WrittenFrom
    <2> QED
      BY <2>1, <2>3 DEF ReadToEnd, Closed
  <1> QED
    BY <1>1, InitInv, NextInv, CircleInit, CircleNext, PTL DEF Spec

(* The flat source is the import tree read depth first: whatever the files *)
(* and however they import each other, the stack of calls and the one      *)
(* output buffer of preprocess_source_recursive write exactly what         *)
(* expansion by recursion on the tree gives.                               *)
THEOREM FlatSourceIsDepthFirst == Spec => []ExpandsDepthFirst
  <1>1. IInv /\ CircleInv /\ FlatInv => ExpandsDepthFirst
    <2> SUFFICES ASSUME IInv, CircleInv, FlatInv, status = "expanded"
                 PROVE  out = Flat(Expansion[Cardinality(DOMAIN disk)],
                                   stack[1].path, stack[1].text)
      BY DEF ExpandsDepthFirst
    <2>1. disk \in Disks
      BY DEF IInv, TypeOK
    <2>2. Cardinality(DOMAIN disk) \in Nat
      BY <2>1, SomeFiles
    <2>3. Cardinality(DOMAIN disk) <= Cardinality(DOMAIN disk)
      BY <2>2
    <2> QED
      BY <2>2, <2>3, FlatAtEnd
  <1> QED
    BY <1>1, InitInv, NextInv, CircleInit, CircleNext, FlatInit, FlatNext, PTL DEF Spec

(* Nothing is cut off by following imports no deeper than there are files: *)
(* any deeper recursion gives the same flat source.                        *)
THEOREM NothingIsCutOff ==
    Spec => [](status = "expanded" =>
                 \A m \in Nat : Cardinality(DOMAIN disk) <= m =>
                     out = Flat(Expansion[m], stack[1].path, stack[1].text))
  <1>1. IInv /\ CircleInv /\ FlatInv =>
          (status = "expanded" =>
             \A m \in Nat : Cardinality(DOMAIN disk) <= m =>
                 out = Flat(Expansion[m], stack[1].path, stack[1].text))
    BY FlatAtEnd
  <1> QED
    BY <1>1, InitInv, NextInv, CircleInit, CircleNext, FlatInit, FlatNext, PTL DEF Spec

(* An expansion always comes to an end, whatever the files and however     *)
(* they import each other: StepsLeft is a number that every step lowers,   *)
(* the last one of the loop of preprocess_source_recursive excepted.       *)
THEOREM ExpansionEnds ==
    Spec => /\ [](StepsLeft \in Nat)
            /\ [][status' = "running" => StepsLeft' < StepsLeft]_vars
  <1>1. Init => EndInv
    BY InitInv, CircleInit, NoPathTwiceInit DEF EndInv
  <1>2. EndInv /\ [Next]_vars => EndInv'
    BY NextInv, CircleNext, NoPathTwiceNext DEF EndInv
  <1>3. EndInv => StepsLeft \in Nat
    <2> SUFFICES ASSUME EndInv PROVE StepsLeft \in Nat
      OBVIOUS
    <2>1. IsFiniteSet({m \in Moments : Before(Moment, m)})
      BY ManyMoments, FS_Subset DEF Bounded
    <2> QED
      BY <2>1, FS_CardinalityType DEF StepsLeft
  <1> QED
    BY <1>1, <1>2, <1>3, StepsFewer, PTL DEF Spec

(* import_stack_contains bounds the recursion: no path is read while it is *)
(* being read, so the calls are never more than one for each readable path *)
(* and the program's own.                                                  *)
THEOREM RecursionIsBounded == Spec => [](NoPathTwice /\ Len(stack) <= Depth)
  <1>1. Init => EndInv
    BY InitInv, CircleInit, NoPathTwiceInit DEF EndInv
  <1>2. EndInv /\ [Next]_vars => EndInv'
    BY NextInv, CircleNext, NoPathTwiceNext DEF EndInv
  <1>3. EndInv => NoPathTwice /\ Len(stack) <= Depth
    BY ManyMoments DEF EndInv, Bounded
  <1> QED
    BY <1>1, <1>2, <1>3, PTL DEF Spec
=============================================================================
