# lambdaScript in TLA+

A verification development kept beside the C sources of lambdaScript, an
interpreter for an untyped lambda calculus with numbers, Scott lists and
logical primitives. It consists of specifications translated from the code,
TLC configurations that check them on small instances, and TLAPS proofs for
every value of the constants. Paths below are relative to the repository.

## 1. The system

The program is sequential: one thread evaluates one source at a time. What is
hard about it is, for the most part, not concurrency but recursion, long chains
of phases that share a process-wide error flag, limits, and names. One thing is
shared with other processes: the library directory, which every process makes
on its way if it is missing.

| component | state | operations | hard part |
|---|---|---|---|
| import preprocessor (`src/ls.c` 268-679) | recursion stack, list of names seen, flat source | one branch per kind of line; path resolution | cycles under different spellings, diamonds, order, library mode at every depth |
| prelude, argument builtins, duplicate scan, rebasing (`src/ls.c` 199-254, 681-691, 886-1087) | merged source, number of injected lines | merge, scan, rebase | line numbers, clashes with injected names |
| parser, line level (`src/parser.c` 106-236, 1121-1267; `src/ast.c`) | definition list, the one expression, line number | definition, compound update, expression | two recognisers of a definition line; where an error is reported |
| parser, expression level, and lexer (`src/parser.c` 238-1119, `src/lexer.c`) | token position | recursive descent with one speculative parse | precedence, backtracking, what a name swallows |
| lowering (`src/value.c` 433-877, `src/symTable.c`) | binder stack, lowered definitions | name lookup, copying of definitions, subscripts, forward references | capture, shadowing, forward references at depth |
| evaluator (`src/interp.c` 1-769) | none but the error flag | one step of normal order; primitives that run nested reductions | shifts, order, primitives on open or unfinished terms |
| reduction loop (`src/interp.c` 771-834, `src/ls.c` 1089-1182) | current term, count, limit flag, trace, error flag | advance, probe, give up; four kinds of callers | exact limit, two copies, NULL with and without error |
| rendering (`src/value.c` 33-239, 879-1031) | names of the binders passed | term to text | parentheses, names under binders |
| evaluation API (`src/ls.c` 1184-1349, `src/err.c`) | `ls_Result`, the error buffer | `ls_eval_string`, `ls_eval_file`, `ls_result_free`, `ls_errmsg` | what a failed call leaves behind, who owns which block |
| command line (`src/main.c`) | options, the library directory | read a word, make the directory, evaluate, print, free | option order, limits with width, races for the directory, many ways out |

Components interact by calls: the command line calls the API, which runs
preprocessing, merging, duplicate scan, parsing, lowering, reduction and
rendering in that order and stops at the first that fails. Shared by all of
them is the flag and text of `src/err.c`; the evaluator calls the reduction
loop again from inside a step (connectives, membership, quantifiers).

What makes each of them correct:

* preprocessor - ends; the flat source is the import tree read depth first; no
  name twice, no expression of an import, no circle; a duplicate error names a
  real earlier definition;
* merge, parse, lower - a rejected line is the first wrong line of the user's
  source; the term is the program read as nested bindings; refused as a forward
  reference exactly when a name would be left dangling;
* lexer and expression parser - an expression is read as the tree its operators
  and binders stand for; the two scanners of a definition line agree;
* evaluator - beta is capture-avoiding substitution; if there is a normal form it
  is found; a primitive answers what its operands mean, and nothing if they
  mean nothing;
* reduction loop - ends; "cut off" is said exactly when it is so; errors are its
  own; the trace is the reduction;
* rendering - what is printed reads back as what was printed;
* evaluation API - every block has one owner; result and message are those of the
  latest call;
* command line - the words are read as they are meant; something stands at the library
  path before evaluation begins, or it was given up for a real reason; the exit code tells
  what happened; the process ends.

The hazards, each at its line and with the properties that cover it, are in
`PROJECT.json`.

## 2. Modules

| module | what it is | code |
|---|---|---|
| `BoundedNormalization` | abstract: what a caller of the reducer is promised, one step | - |
| `Reducer` | the reduction loop, its traced copy and its callers | `interp_reduce_normal`, `reduce_with_trace`, `reduce_clone_normal`, `reduce_applied_once` |
| `MCReducer`, `Reducer_proofs` | TLC instance, proofs | |
| `ValueNodes`, `Trees` | the constructors of values and of trees with names | `include/value.h`, `include/ast.h` and their `.c` |
| `Terms` | shifting and substitution on de Bruijn terms, arithmetic | `src/interp.c` 11-168, 564-597 |
| `NamedTerms` | substitution on trees with names, as a reference | - |
| `Interp` | one step with all primitives; the machine that takes steps | `src/interp.c` |
| `InterpMeaning`, `MCInterp` | what it should compute; families of programs | |
| `Imports` | the import preprocessor as a stack machine, and the import tree it should read | `preprocess_source_recursive` and what it calls |
| `MCImports`, `Paths_proofs`, `Imports_proofs` | file systems and programs for TLC; proofs about paths and trees, about the machine | |
| `NameForms` | the subscripts in a name, the definition a name refers to | `lower_name_reference` and what it calls |
| `Lowering` | from trees with names to terms, subscripts included | `lower_ast_with_defs`, `lower_name_reference` |
| `Program` | merge, argument builtins, duplicate scan, line parser, forward references | `merge_source_with_builtins` .. `value_from_program` |
| `MCProgram`, `Program_proofs` | programs for TLC, and the reference meaning; proofs | |
| `Pieces` | the characters a text is made of | `src/lexer.c` |
| `Lexer` | texts to tokens | `src/lexer.c` |
| `Parser` | tokens to trees | `src/parser.c` 238-1119 |
| `Rendering` | terms to texts | `value_to_string`, `render_value` |
| `Syntax` | one line on its way from text to value and back | both line scanners, `parser_parse_program` on a line |
| `MCSyntax`, `Syntax_proofs` | expressions, short lines and values for TLC; proofs | |
| `CallPromise` | abstract: what an embedding program is promised of a call | - |
| `Evaluation` | the embedding interface: calls, results, the error buffer | `src/ls.c` 1184-1349, `src/err.c` |
| `CommandLine` | the program around one such call; other processes | `src/main.c` |
| `Usage` | the command lines the usage text describes, of any length, and their meaning | - |
| `MCSession` | command lines and disks for TLC, and an embedding process | |
| `Evaluation_proofs`, `CommandLine_proofs` | proofs | |
| `Lists_proofs` | lemmas on lists, on least elements, and induction on the naturals | |

How they compose: `Program` and `Syntax` are machines that know how their lines are
handled, and take as constants what becomes of one tree or text (`LowerTree`,
`ParseTree`, `Printed`, ...). `MCProgram` gives them `Lowering`, `MCSyntax` gives them
`Parser` (which extends `Lexer`), `Lowering` and `Rendering`; these are recursive
operators on trees and terms, and keeping them out lets the machines be proved
about. `Interp` extends `Terms`. `CommandLine` extends `Evaluation` and runs as one
of its callers (`ApiSpec` is what any caller may do; `MainIsAClient` is the
refinement), and `Evaluation` in turn implements `CallPromise`. `Evaluation` says in
which order the phases run and what they leave behind; what the phases compute is
the business of `Imports`, `Syntax`, `Program`, `Interp` and `Reducer`.

Which definition stands for which lines is listed in `PROJECT.json` under
`map`. Some correspondences that are not one to one:

* **Reducer.** `stepOf` is the one-step reduction as an arbitrary function of
  the term; `Interp` models the real one. `pc` names the parts of the C
  function: before the loop, in it, the probe after it, the caller's look at the
  out-parameters. `err` is `g_has_error`: because `interp_step_normal` is always
  entered with the flag lowered, the flag after a step is a function of its
  result. `starved` (an allocation of this call failed) and, in the untraced
  loop, `trace` are history variables. Allocation failure inside a step has
  three outcomes, one action each: a redex further right, a silent NULL, an
  error.
* **Interp.** A step is a recursive operator, since it calls whole reductions
  inside itself; NULL is the value `Null`. Errors inside a primitive are
  lowered again before anyone looks at them, so they are NULL too. The limit of
  nested reductions (4096 in the code) is the constant `NestedLimit`. A double
  is its exact ratio with signed zero, infinity and NaN (`value_structural_equal`
  takes two NaNs for equal, so NaN is one value here). The names FORALL and
  EXISTS are recognised by the evaluator but are keywords of the lexer, and NIL
  is always defined by the argument builtins, so no run uses them as symbols.
* **Imports.** The C recursion is a stack of frames; a frame keeps its import
  line while the import is read. A path is a sequence of segments, compared as
  written: `realpath` is behind `_POSIX_VERSION`, which no header included by
  `ls.c` defines under the Makefile's `-std=c11`, so `Canonicalize` is the
  identity in the program that is built. What the file system makes of a path
  (`WalkFrom`) is external; a directory opens for reading, too, and `fgetc` then gives
  the end of the file at once, so a directory is a text of one blank line. `MaxPath` stands for `PATH_MAX`. The reference of
  `ExpandsDepthFirst` is a recursive function on depth and path (`Expansion`); the
  lists it joins are joined by one, too (`Joined`), so that both can be proved about.
* **Lowering.** The model has no access to the characters of a name, so the
  constant `Letters` spells out the names of an instance that have a subscript; a
  subscript character is written `&_` and its letter. `SplitName` takes the name
  apart as `try_lower_subscript_name` does, at its last underscore or where its
  subscript characters begin, and each part is looked up again.
* **Program.** A line is what the line scanners make of it, with the tree of its
  expression. `Rebase`, `Injected` and `Merged` follow the code line for line,
  as the line numbers depend on them, the blank and comment lines of the
  injected text included. `Hex` gives the hexadecimal of the arguments that
  `ls_symbol_from_text` has to encode, and `Reserved` the words that are no
  names once they stand in a definition's body.
* **Lexer, Parser, Syntax.** A text is a sequence of pieces: words, runs of digits,
  single ASCII marks, spaces, and non-ASCII characters by a name (`&and` is
  U+2227). Pieces that may be part of a name and touch are one name, as their
  bytes are. `Numeral` gives the value of the runs of digits. The lexer's position
  is an index into the tokens; restoring it after the speculative parse of a
  subscript is going on from the earlier index. The ten functions of the
  precedence levels are one operator over the table `Levels`, which gives each
  level's operators and how it groups.
* **Rendering.** Lists, parentheses and names as in the code; numbers with at most
  one decimal.
* **Evaluation.** Calls are numbered; a block of text is known by what it is and the
  call that allocated it, a message by the call that wrote it. `Begin` is the
  entry of a call up to the first phase, each phase is one action, and
  `FailWithMessage` and `FailMutely` are the ways out after any of them;
  `Refuse` is `ls_eval_file` that cannot read its file. `target`, `options` and
  `verdict` are about the latest call.
* **CommandLine.** One action per option and per way out; `Take` and `Stop` are the
  turns of the loop over `argv`. `store` is what stands at each prefix of the library
  path - nothing, a directory, a symbolic link to nothing, or anything else that
  nothing can be found below (`"file"`: a file, or a directory that may not be
  searched) - and `stat` and `mkdir` are one action each, since another process can come
  between them and make directories (`OtherMakes`). `start.denied` are the prefixes
  at which the system refuses to make one: permission, a full or read-only disk.
  `CopyFails` is the copy of the path that gets no memory, after which `main` says the
  same as when a directory could not be made; the history variable `starved`, that an
  allocation of `main` itself has failed, tells the two apart. `Numbers` gives what `strtoull` reads in a word,
  `WordSize` stands for 2^64. A process at pc `"client"` embeds the library
  and calls it as it likes.

## 3. Runs

| run | what it checks | expected |
|---|---|---|
| `Reducer` | `TypeOK`, `UnflaggedIsNormal`, `FlaggedGoesOn`, `ErrorIsOwn`, `TraceIsReduction`, `ImplementsPromise`, `Terminates` | holds |
| `Interp` | `TypeOK`, `BetaIsSubstitution`, `NormalOrderFindsNormalForm`, `ComesToMeaning` | holds |
| `Imports` | `TypeOK`, `NoNameTwice`, `OnlyProgramEvaluates`, `DuplicateReportIsTrue`, `ExpandsDepthFirst`, `CyclesNeverExpand`, `Terminates` | holds |
| `Program` | `TypeOK`, `RejectedLineIsTheFirstWrong`, `NoIndexDangles`, `DefinitionsAreBindings`, `RefusedIfDangling`, `ArgsAreSymbolsUnlessDefined` | holds |
| `Syntax` | `TypeOK`, `ReadsAsMeant`, `ScannersAgree`, `ReadsBack` | holds |
| `Session` | `ApiTypeOK`, `BlocksHaveOneOwner`, `MessageIsOfLastCall`, `ResultIsOfLastCall`, `MeantIsRead`, `LimitWrapsOnlyBelowZero`, `ExitTellsOutcome`, `StoreReady`, `StoreFailureIsReal`, `ApiSpec`, `KeepsPromise`, `Exits` | holds |
| `InterpElemDoc` | `ElemIsMembershipOnLists` | violated |
| `InterpForallDoc` | `ForallAsksThePredicate` | violated |
| `ImportsCompoundDoc` | `CompoundUpdatesAccepted` | violated |
| `ProgramSubDoc` | `SubscriptsTakeDefinitions` | violated |
| `ProgramExampleDoc` | `WorkedExampleIsAccepted` | violated |
| `SyntaxPrecedenceDoc` | `BindsAsDocumented` | violated |

A violated run checks a sentence of the documentation against the code; the
counterexample is the disagreement, and `PROJECT.json` quotes the sentence.
All six were reproduced with the binary, for instance
`forall h in CONS (\x.EQUIV x I) NIL : h I` is false while
`(\x.EQUIV x I) I` is true.

All passing runs switch deadlock checking off: each models one call, one line
or one process, which ends.

What the properties leave room for is behaviour of the code that a reader
may not expect, and which the models have as the code has it:

* `ReadsBack` holds exactly for *plain* values. `\f x.f x x` is taken for a
  list, since it has the shape of a Scott cons cell, and prints as
  `cons v0 (v0)`; a negative number, NaN, a symbol called `x0` under a
  binder, and a list under an application do not read back.
* `MessageIsOfLastCall` has a case for mute failures: after an allocation that fails
  in `resolve_user_import_path` there is no message, or that of an earlier call.
  `ResultIsOfLastCall` excepts the refused file, which leaves the result object
  as it was.
* `ComesToMeaning` is checked without one kind of predicate. `reduce_applied_once` drops
  the limit flag, so `elem` and the quantifiers read a truth value off a term that was
  cut off. That is right where the head is decided for good, `TRUE x` or a Church
  boolean; but `TRUE l r` has a further step, to `l`, and a predicate that comes to
  `TRUE FALSE x` in exactly 4096 steps counts as true, in 4095 as false. The binary
  does so, too.
* `StoreReady` says that something stands at the library path, not that it is a
  directory: `EEXIST` is also what `mkdir` says of a file, or of a link to nothing,
  in its place. `StoreFailureIsReal` has a case for memory: the message of a
  directory that could not be made is also that of a copy that could not.
* `LimitWrapsOnlyBelowZero`: `-n -1` is a limit of 2^64 - 1 steps.
* `ArgsAreSymbolsUnlessDefined`: the argument `1` is encoded as `ARGVAL_31`, whose
  end is a subscript, so the program receives `sub ARGVAL 31` and no symbol of
  its own; the name of a definition is replaced by the definition; the argument
  `v` is a keyword and makes an injected line fail, with a line number the user's
  source does not have.
* Every byte from 0x80 on may be part of a name: `p∧q` without spaces is one name. A
  sum in parentheses, `(Σ x = 0 to 3 . x)`, is refused as an expression line: its
  `=` is taken for that of a definition unless the line begins with the binder.

### Bounds

* `Reducer`: three terms, **all** step functions over them (125), all inputs,
  limits 0 to 3, all callers, memory failing anywhere. Chains without repetition
  have at most two steps, so limits below, at and above the length of every
  chain occur, as do loops of length one, two and three and errors at every
  place.
* `Interp`: all closed terms of up to eight nodes, and larger ones that
  throw away a diverging argument or nest binders around a redex; twelve steps;
  the any-order reference looks four contractions far. Truth values in eight forms
  (symbols, Church booleans, applied markers, unreduced, meaningless, diverging),
  formulas nested two deep, lists of up to two items that end in nil or in a
  symbol, membership of reduced and unreduced items, EQUIV of 22 sides with each
  other. `NestedLimit` is 8, enough for every operand that has a normal form; the
  diverging ones exceed any. Predicates, of quantifiers and in the place of a set, are
  cut off by it with their head decided or not, or need exactly the limit, or one
  step more.
* `Imports`: a program of up to three lines, two user files of up to two lines in
  different directories that may import themselves, each other and the program,
  one library present under either name or absent. Diamonds, direct and mutual
  cycles, cycles behind `d/../a`, duplicates across three files, and directories
  imported as if they were files occur. Paths
  of up to `MaxPath = 6` segments open.
* `Program`: two definitions with five bodies each around six expressions in
  two orders, among them names with ASCII and Unicode subscripts, in part bound
  and in part defined, and malformed programs, each compound update once; with and
  without prelude; no arguments and lists that hold the name of a definition, a
  subscripted name, a number, the empty text and a keyword.
* `Syntax`: every operator over every operator, on either side, with no more
  parentheses than needed, in ASCII with and without spaces and in symbols; some
  fifty lines with binders, subscripts (up to 16 and 17 indices), numbers, comments
  and errors; every line of up to four pieces out of eight for the two scanners;
  all closed terms of up to four nodes and lists in every position for printing
  and reading back.
* `Session`: a process with two results, three calls, limits below, at and above
  what a call uses; command lines written from every setting in every order of
  the options, with arguments that look like options, and those that are
  refused; a library path of two names with directories, files, links to nothing and
  nothing at each, and making denied at each, or no memory. A word holds 8 values, so that a number
  in range, one too large and ones below zero occur.

### Fairness

`FairSpec` of `Reducer` and of `Imports` adds weak fairness of `Next`: the code is
a sequential function that keeps running once called, so it takes a step
whenever one is enabled. No fairness between branches is assumed. Termination
is then due to the code: the count and the limit, and the stack of calls, on which
no path is twice. That part is proved (section 4).

`Spec` of `CommandLine` assumes weak fairness of `Main`, the steps of the
process's one thread; nothing is assumed of other processes or of an embedding
process, which may make directories at any time. `Exits` then rests on every loop
making progress, whatever directories the others make meanwhile, and on the phases of a call ending, which is
`Terminates` of `Imports` and of `Reducer`, and recursion on finite texts and
terms elsewhere.

### Mutants

Each property of each passing run comes with a mutant: a second form of one
definition with a plausible slip (a dropped check, an off-by-one, a wrong
order), written just before the definition it replaces. The property fails
under it.

## 4. Proofs

`Reducer_proofs`, for every set of terms, every step function on them, every set
of limits, whether or not memory may fail:

* `Invariance`: the inductive invariant. The properties speak about the answer
  only; what makes them inductive is what holds on the way there: the trace is a
  numbered chain of steps from the input to the current term with one line per
  counted step, the count never exceeds the limit, the probe is reached only with
  the limit used up, and the limit flag is raised only by a probe that found a
  step. All parts about the chain hold only while nothing has starved.
* `TypeCorrect`, `UnflaggedResultsAreNormal`, `FlaggedResultsGoOn`, `ErrorsAreOwn`,
  `TracesAreReductions` follow from it.
* `Refinement`: `Spec` implements `BoundedNormalization`. Every action but the
  returning ones maps to a stutter; the returning ones and the failing ones are
  `Give`, by the invariant.
* `EveryStepNearsTheReturn`: each step lowers the number of turns the limit leaves,
  plus four for what is before and after the loop; so a call takes at most that
  many steps, whatever the step function does.

`Imports_proofs`, for every file system, program, depth of imports and limit on
paths, with what `Paths_proofs` says of paths and of what they lead to:

* `Invariance`: `TypeOK`, and that every name in `seen` is unique, stands at its
  place in the flat source, and conversely every definition in the flat source is
  in `seen`; the outermost frame alone is not in library mode, and keeps its
  path.
* `TypeCorrect`, `NamesAreUnique`, `ImportsEvaluateNothing`, `DuplicatesAreReal`
  follow from it.
* `NoCircleExpands`: files that import each other in a circle never make a program,
  though the check for circles compares paths as they are written and a circle can
  be gone round under ever longer ones. The argument is that of a depth-first
  search: each call on the stack was made by the import line the call below it is
  at, and there is a set of files, those read to the end, which holds with each file
  all that it imports, every file written so far but those on the stack, and none
  that is in a circle (`CircleInv`). A file that joins the set when it has been read
  imports only files of the set; if it is in it already it adds nothing, and if not
  it is in no circle, because nothing in the set leads out of it.
* `FlatSourceIsDepthFirst`: `ExpandsDepthFirst` for every file system. The machine has one
  output for all its calls; the reference is a recursion on the import tree. What
  connects them (`FlatInv`) is that the output is, at any time, what the calls on the
  stack have to show for the lines they have passed, outermost first, where an
  import line passed counts for the whole of its file. That needs a depth from which
  on the reference does not change any more: a file read to the end has one, since
  all it imports was read to the end before it, and no circle is among them.
  `NothingIsCutOff` says that the number of files is such a depth, so that the
  reference leaves nothing out.
* `ExpansionEnds`, `RecursionIsBounded`: `import_stack_contains` keeps any path from being
  on the stack twice, and only finitely many paths can be opened, as names and
  `PATH_MAX` bound them. So the stack has a greatest depth, and the lines that its
  calls are at, outermost first, are one of finitely many lists of numbers
  (`Moments`). Every step makes that list greater in the order of the first
  difference; the lists still ahead (`StepsLeft`) become fewer. A circle under ever
  longer paths therefore ends too, in an error by `NoCircleExpands`.

The recursive functions (`Walk`, `Joined`, `Expansion`) come with no equation of
their own in the proof system. `Paths_proofs` derives each: there is a function that
satisfies the equations up to a length or depth `n`, by induction on `n`, and two such
functions agree where both are defined.

`Program_proofs`, for every source, every list of arguments that has names enough,
and **any** function that lowers trees and lists their free symbols:

* `InvariantHolds`: the definitions collected are those of the definition lines
  passed, in order, and no two have the same name; the values are those of the
  first of them, each lowered over the ones before it; no line passed is wrong;
  the counters fit the phase.
* `TypeCorrect` and `FirstWrongLine`: the reported line is the first wrong one of
  the user's source, or the line that takes in an argument or a script name that
  is a word of the language. This needs what stands on each injected line, since the
  report is that of the merged text, rebased.
* `ArgumentsAreSymbols`: every argument is its own symbol, or a definition above it,
  or a subscript, and nothing below changes that. Its hypothesis
  `SymbolsAreReferences` is that a tree which is a name is lowered as
  `lower_name_reference` does (`NameRule`); that `Lowering` does so is checked by
  TLC as an assumption of `MCProgram` on names with and without subscripts and on
  lists of up to three values.
* `AcceptedIsRight`, `ProgramIsRead`: the other side of `FirstWrongLine`. What comes to
  lowering has no duplicate, no word of the language among its arguments, no wrong
  line and one expression; and it consists of all the defining lines of the merged
  text, in order, and that expression. The invariant (`ReadInv`) is about the part of
  the text that has been passed.
* `OnlyBuiltinsAreRepeated`: a source without a repeated name of its own, which is what
  `NoNameTwice` of `Imports` promises of the flat source, is refused as a duplicate
  only for a name that the prelude or the arguments define.

`Syntax_proofs`, for every line of whatever pieces and length, and **any** lexer,
parser, lowering and printer:

* `ScannersSeeTheSame`: the scanner of the duplicate check and that of the parser take
  the same name for that of a definition, though one trims first and the other
  looks at the line as it stands. What has to be shown is that the first `=`
  outside `<=>` is the same with and without the spaces at the right, where the
  last `>` may be the last character, and that comments are seen as comments by both.
* `TypeCorrect`. Both need `PrintsTexts`, that what is printed of the values and of the
  values of expressions is a text, since it is read again; `MCSyntax` assumes it of
  its instance, where TLC checks it.

`Evaluation_proofs`, for any set of result objects, any number of calls and any
limits:

* `Invariance`: the properties speak of the end of a call; what makes them
  inductive is that no number of a call is in use before that call has begun, so
  that a block it allocates is new; that its result owns no block while it runs;
  that its trace pointer is set exactly between reduction and rendering, where
  count and cut-off already fit the limit and the flag is down; and that the
  buffer still holds an earlier call's message when a call begins.
* `EvaluationTypes`, `NoBlockLostOrShared`, `MessagesAreCurrent`,
  `ResultsAreCurrent` follow.
* `CallsKeepPromise`: `Evaluation` implements `CallPromise`, under the mapping that sees
  an object as empty, and no message, while a call has it in hand. `Begin` is `Call`,
  `Refuse` is a `Call` that returns at once, the phases are stutters, and the last of
  them and every way out are `Return`. Besides the invariant it needs that the
  object of the running call is empty until its rendering (`Fresh`).

`CommandLine_proofs`, for every set of command lines, every depth of the
library path and every word size:

* `MainIsAClient`: the program implements `ApiSpec`. Every action of `Main` is a
  step of one caller of the interface or changes none of its state, so what is
  proved of the interface holds of the program. The invariant it needs is that
  whatever words were read, the limit among the settings is one of `Limits`.
* `LimitIsAsGiven`: among the settings the limit is the default or that of some `-n`
  passed (`Words`), whose number, unless it is below zero, is less than the word size
  and so stands for itself.
* `ExitIsTruthful`: `Course` says what holds at each place of `main`: nothing is
  printed and nothing is owned before the call; what was printed, the messages and
  the code agree between the report and the exit; and every exit before the
  call leaves a message and no output.
* `OptionsAreReadAsMeant`: a command line in the form of `Usage` is read as it was
  meant, whatever its length; in that form an option may be repeated, with the
  same value. At every turn of the loop the next word begins an
  option or is the first behind them, never the value of one, and the settings are
  the meant ones in so far as their options have been passed (`UsageInv`).
* `StoreIsReady`, `StoreIsLostForAReason`: the prefixes that the loop has passed are
  directories, but for the latest, which may be a file or a link to nothing that
  `mkdir` answered with `EEXIST`; other processes make directories, and remove none.
  The next `stat` or `mkdir` finds such a file out, so that, unless there was no memory
  for the copy of the path, giving the directory up means that the prefix the walk
  has come to was refused or that something above it is no directory.
* `EveryStepNearsTheExit`: the words not yet read, the prefixes not yet passed (two
  steps each), the phases not yet run, and the prefixes where a directory may still be
  made are a number that every step lowers, that of another process included, since nobody
  removes a directory. What makes it one is that no turn of the option loop goes
  beyond the end of `argv`.

The assumptions are those named in the modules: the NULL outcomes are no terms and
limits are naturals (`OutcomesDistinct`, `NullsDistinct`, `LimitsAssumption`,
`AllocAssumption`, `StepLimitsAssumption`); texts, lines and command lines are
sequences (`PathsAssumption`, `TextsAssumption`, `SourcesAssumption`,
`LinesAssumption`, `StartsAssumption`); there are names for the arguments, all
different and none of them a builtin, and the code of a text is no reserved word
(`ArgsAssumption`, `ReservedAssumption`); there is an object, a call count and a path
(`ObjectsAssumption`, `MaxCallsAssumption`, `DepthAssumption`); an accepted number is
one of the limits (`NumbersAssumption`); the options begin with a minus sign
(`OptionLikeAssumption`); a disk has finitely many files, names are finitely many, as
`NAME_MAX` makes them, and so is the length of a path (`DisksAssumption`,
`SegmentsAssumption`); the meanings written beside a command line are those its
form has (`MeantAssumption`). TLC evaluates each of them for the instances, the last
one for every command line of `MCSession`, so that the form `Usage` describes is at
least as wide as what the run tries.

Only model-checked:

* liveness: `Terminates` of `Reducer` and `Imports`, and `Exits`. Proved is that no
  behaviour goes on for ever; that it goes on until the end is reached rests on
  fairness and on some action being enabled at every place, which is left to TLC;
* everything about `Interp`: a step is a recursive operator on terms, which the proof
  system does not handle, and the facts on shifting and substitution are
  inductions over terms;
* `DefinitionsAreBindings`, `NoIndexDangles`, `RefusedIfDangling`, `ReadsAsMeant` and
  `ReadsBack`, whose references or subjects are recursive operators on trees and
  terms (a program as nested bindings, closed terms, the tree of an expression,
  plain values).

## 5. Not modelled

* Allocation failure outside the reduction loop, the evaluation API and the command
  line; ownership of memory inside the library.
* Rounding of doubles and of their printing (`%.15g`); exponents and hexadecimal
  numbers, which `strtod` accepts; wording of messages and their truncation to 512
  bytes, and `scan_duplicate_definitions_in_source` formatting the buffer into
  itself; the buffer of 128 bytes for a decoded subscript.
* Positions in files: an error in an expanded source is reported by its line there,
  and so are the properties about it.
* `default_library_dir`: which directory the environment names, and that it goes on
  to the next name when there is no memory to join a path; the library path is
  whatever it gives.
* Other processes that remove what stands at the library path, or put anything but
  directories there: what is said of it is for processes that make directories.
* Imports of a directory by a path that ends in `.`, `..` or `/`, which `fopen` opens as
  it does one that ends in its name, and systems where it opens no directory.
* Running time: the exponential speculative parse and the product of nested
  limits are listed as hazards that no property covers.
* Makefile, shipped libraries, test programs, build products.

## 6. Plan

Done, in this order: `Reducer` with its abstract specification and proofs;
`Terms`, `Interp`; `Imports` and its proofs; `Program`; `Evaluation` and
`CommandLine` with their proofs; `Lexer`, `Parser`, `Rendering` and `Syntax`;
subscripts and encoded arguments in `Lowering` and `Program`.

Since then: `Program` and `Syntax` were made machines over any lowering, parser and
printer and proved about; the circles of `Imports`; the reading of the options and
the ways out of `main`; `CallPromise`. At last the flat source as the import tree read
depth first, what an accepted program is, and the ends of the import machine, of
the reduction loop and of `main` as numbers that every step lowers.

Left:

1. What `LowerDefinition` promises of a lowered definition, as an abstract
   specification of `Program` (the bindings in source order) that does not need the
   recursive reference.
2. `default_library_dir`, and allocation failure in the parser and in lowering.
