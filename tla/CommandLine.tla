---------------------------- MODULE CommandLine ----------------------------
(***************************************************************************)
(* The program lambdaScript (main.c): the words of the command line are    *)
(* read one at a time, the directory of the official libraries is made if  *)
(* it is missing, one call evaluates the expression, the file or standard  *)
(* input, and the process prints what came of it and exits.  Other         *)
(* processes may be making the same directory meanwhile.                   *)
(*                                                                         *)
(* A process that embeds the library instead and calls it as it likes is   *)
(* at pc = "client" all the time.                                          *)
(***************************************************************************)
EXTENDS Evaluation, Sequences

CONSTANTS
    Starts,      \* command lines, and what they find on the disk
    OptionLike,  \* the words that begin with a minus sign
    Numbers,     \* what strtoull reads in a word: word |-> [whole, negative, magnitude]
    WordSize,    \* one more than the greatest unsigned long long
    Depth        \* the number of names in the library directory's path

ASSUME DepthAssumption == Depth \in Nat \ {0}

(* What may stand at a prefix of the path: nothing, a directory, anything  *)
(* else that nothing can be found below (a file, or a directory that may   *)
(* not be searched), or a symbolic link to what does not exist.            *)
Standing == {"absent", "dir", "file", "link"}

ASSUME StartsAssumption ==
    \A s \in Starts : /\ s.argv \in Seq(STRING)
                      /\ s.store \in [1..Depth -> Standing]

VARIABLES
    start,     \* the command line, the words it was written for, the disk,
               \* and the prefixes that the system will not make a directory at
    pc,        \* where main is
    at,        \* the next word, then the next prefix of the library path
    settings,  \* expr, file_path, options.max_steps, quiet, trace, prelude, script_argv
    store,     \* what stands at each prefix of the library path
    missing,   \* what stat said of the prefix at
    stdout,    \* the call whose output was printed, 0 if none
    stderr,    \* the messages printed
    code,      \* the exit code
    starved    \* an allocation of main itself has got no memory (history)

mainVars == <<start, pc, at, settings, store, missing, stdout, stderr, code, starved>>
vars == <<apiVars, mainVars>>

Unset == "unset"
DefaultSettings ==
    [expr |-> Unset, file |-> Unset, limit |-> DefaultLimit, quiet |-> FALSE,
     trace |-> FALSE, prelude |-> TRUE, args |-> <<>>]

Client == [argv |-> <<>>, meant |-> {}, store |-> [k \in 1..Depth |-> "dir"], denied |-> {}]

Init ==
    /\ ApiInit
    /\ \/ start \in Starts /\ pc = "options"
       \/ start = Client /\ pc = "client"
    /\ at = 1
    /\ settings = DefaultSettings
    /\ store = start.store
    /\ missing = FALSE
    /\ stdout = 0
    /\ stderr = <<>>
    /\ code = 1
    /\ starved = FALSE

-----------------------------------------------------------------------------
Argv == start.argv
Word == Argv[at]
From(i) == SubSeq(Argv, i, Len(Argv))

Ends(status, message) ==
    /\ pc' = "exited"
    /\ code' = status
    /\ stderr' = Append(stderr, message)
    /\ UNCHANGED <<start, at, settings, store, missing, stdout>>
    /\ UNCHANGED apiVars

Exit(status, message) == Ends(status, message) /\ UNCHANGED starved
Starve(message)       == Ends(1, message) /\ starved' = TRUE

(* The loop over argv: a word, or two, taken into the settings.            *)
Take(n, chosen) ==
    /\ settings' = chosen
    /\ at' = at + n
    /\ UNCHANGED <<start, pc, store, missing, stdout, stderr, code, starved>>
    /\ UNCHANGED apiVars

Stop(chosen) ==
    /\ settings' = chosen
    /\ pc' = "check"
    /\ UNCHANGED <<start, at, store, missing, stdout, stderr, code, starved>>
    /\ UNCHANGED apiVars

Reading(w) == pc = "options" /\ at <= Len(Argv) /\ Word = w
HasNext == at < Len(Argv)

ReadSeparator == Reading("--") /\ Stop([settings EXCEPT !.args = From(at + 1)])

ReadExpr ==
    /\ Reading("-e")
    /\ IF HasNext THEN Take(2, [settings EXCEPT !.expr = Argv[at + 1]])
                  ELSE Exit(1, "usage")

(* Mutant of IsLimit: errno is not looked at.                              *)
IsLimitUnranged(w) == w \in DOMAIN Numbers /\ Numbers[w].whole

(* parse_step_limit.  strtoull takes a sign, and what it makes of a number *)
(* below zero is the negative taken modulo the word size; it is out of     *)
(* range when the magnitude is, and then ULLONG_MAX.                       *)
IsLimit(w) == w \in DOMAIN Numbers /\ Numbers[w].whole /\ Numbers[w].magnitude < WordSize
LimitRead(w) ==
    LET m == Numbers[w].magnitude IN
    IF m >= WordSize THEN WordSize - 1
    ELSE IF Numbers[w].negative THEN (WordSize - m) % WordSize ELSE m

ASSUME NumbersAssumption ==
    /\ WordSize \in Nat
    /\ \A w \in DOMAIN Numbers :
          /\ Numbers[w].magnitude \in Nat
          /\ IsLimit(w) => LimitRead(w) \in Limits

ReadLimit ==
    /\ Reading("-n")
    /\ IF HasNext /\ IsLimit(Argv[at + 1])
       THEN Take(2, [settings EXCEPT !.limit = LimitRead(Argv[at + 1])])
       ELSE Exit(1, "invalid step limit")

ReadSwitch ==
    \/ Reading("-q") /\ Take(1, [settings EXCEPT !.quiet = TRUE])
    \/ Reading("-t") /\ Take(1, [settings EXCEPT !.trace = TRUE])
    \/ Reading("--no-prelude") /\ Take(1, [settings EXCEPT !.prelude = FALSE])

ReadHelp == (Reading("-h") \/ Reading("--help")) /\ Exit(0, "usage")

Known == {"--", "-e", "-n", "-q", "-t", "--no-prelude", "-h", "--help"}

ASSUME OptionLikeAssumption == Known \subseteq OptionLike

ReadUnknown ==
    /\ \E w \in OptionLike \ Known : Reading(w)
    /\ Exit(1, "unknown option")

(* Mutant of ReadFree: the words after a file are its arguments.           *)
ReadFreeFileLast ==
    /\ pc = "options" /\ at <= Len(Argv) /\ Word \notin OptionLike
    /\ IF settings.expr = Unset /\ settings.file = Unset
       THEN Stop([settings EXCEPT !.file = Word, !.args = From(at + 1)])
       ELSE Stop([settings EXCEPT !.args = From(at)])

(* A word that is no option: the file, if there is neither an expression   *)
(* nor a file yet, or else the first of the arguments.                     *)
ReadFree ==
    /\ pc = "options" /\ at <= Len(Argv) /\ Word \notin OptionLike
    /\ IF settings.expr = Unset /\ settings.file = Unset
       THEN Take(1, [settings EXCEPT !.file = Word])
       ELSE Stop([settings EXCEPT !.args = From(at)])

ReadEnd == pc = "options" /\ at > Len(Argv) /\ Stop(settings)

Conflict == settings.expr # Unset /\ settings.file # Unset

RefuseConflict == pc = "check" /\ Conflict /\ Exit(1, "expression and file")

(* default_library_dir or ls_newstate.                                     *)
NoMemory == pc \in {"check", "newstate"} /\ ~Conflict /\ Starve("out of memory")

-----------------------------------------------------------------------------
(* ensure_directory_exists.  stat fails where nothing is, where a link     *)
(* leads to nothing, and below what is no directory; mkdir fails where     *)
(* something is, that link included (EEXIST), where the system refuses it, *)
(* and below what is no directory.                                         *)
Reachable(k) == \A j \in 1..(k - 1) : store[j] = "dir"
Makeable(k)  == Reachable(k) /\ store[k] = "absent" /\ k \notin start.denied

(* The copy of the path that the walk cuts at every slash is not made, and *)
(* main takes that for a directory that could not be.                      *)
CopyFails == pc = "check" /\ ~Conflict /\ Starve("store")

CheckDone ==
    /\ pc = "check"
    /\ ~Conflict
    /\ pc' = "stat"
    /\ at' = 1
    /\ UNCHANGED <<start, settings, store, missing, stdout, stderr, code, starved>>
    /\ UNCHANGED apiVars

(* Mutant of Stat: the loop does not advance past what is there.           *)
StatAgain ==
    /\ pc = "stat"
    /\ at <= Depth
    /\ missing' = (~Reachable(at) \/ store[at] \in {"absent", "link"})
    /\ pc' = IF missing' THEN "mkdir" ELSE "stat"
    /\ UNCHANGED <<start, at, settings, store, stdout, stderr, code, starved>>
    /\ UNCHANGED apiVars

Stat ==
    /\ pc = "stat"
    /\ at <= Depth
    /\ missing' = (~Reachable(at) \/ store[at] \in {"absent", "link"})
    /\ pc' = IF missing' THEN "mkdir" ELSE "stat"
    /\ at' = IF missing' THEN at ELSE at + 1
    /\ UNCHANGED <<start, settings, store, stdout, stderr, code, starved>>
    /\ UNCHANGED apiVars

(* Mutant of MkdirExists: EEXIST is an error like any other.               *)
MkdirExistsFatal == pc = "mkdir" /\ Reachable(at) /\ store[at] # "absent" /\ Exit(1, "store")

MkdirDone(made) ==
    /\ store' = made
    /\ pc' = "stat"
    /\ at' = at + 1
    /\ UNCHANGED <<start, settings, missing, stdout, stderr, code, starved>>
    /\ UNCHANGED apiVars

Mkdir == pc = "mkdir" /\ Makeable(at) /\ MkdirDone([store EXCEPT ![at] = "dir"])

MkdirExists == pc = "mkdir" /\ Reachable(at) /\ store[at] # "absent" /\ MkdirDone(store)

(* Mutant of MkdirFails: the error is not looked at.                       *)
MkdirFailsIgnored ==
    /\ pc = "mkdir"
    /\ ~Makeable(at)
    /\ ~(Reachable(at) /\ store[at] # "absent")
    /\ MkdirDone(store)

MkdirFails ==
    /\ pc = "mkdir"
    /\ ~Makeable(at)
    /\ ~(Reachable(at) /\ store[at] # "absent")
    /\ Exit(1, "store")

(* Another process does the same, or makes the directory a link leads to.  *)
OtherMakes ==
    /\ pc \in {"stat", "mkdir"}
    /\ \E k \in 1..Depth :
          /\ Makeable(k) \/ store[k] = "link"
          /\ store' = [store EXCEPT ![k] = "dir"]
    /\ UNCHANGED <<start, pc, at, settings, missing, stdout, stderr, code, starved>>
    /\ UNCHANGED apiVars

StoreDone ==
    /\ pc = "stat"
    /\ at > Depth
    /\ pc' = "newstate"
    /\ UNCHANGED <<start, at, settings, store, missing, stdout, stderr, code, starved>>
    /\ UNCHANGED apiVars

-----------------------------------------------------------------------------
(* ls_eval_string on the expression or on what standard input holds, or    *)
(* ls_eval_file.                                                           *)
OptionsRead == [trace |-> settings.trace, limit |-> settings.limit]
Goto(place) ==
    pc' = place /\ UNCHANGED <<start, at, settings, store, missing, stdout, stderr, code, starved>>

Evaluate   == pc = "newstate" /\ Begin(FirstObject, OptionsRead) /\ Goto("evaluating")

(* Mutant of Unreadable: main finds that out for itself and sets the       *)
(* library's error without a call.                                         *)
UnreadableUncalled ==
    /\ pc = "newstate"
    /\ settings.file # Unset
    /\ verdict' = "refused"
    /\ ErrSet(calls)
    /\ UNCHANGED <<result, blocks, phase, target, options, held, calls>>
    /\ Goto("evaluating")

Unreadable == pc = "newstate" /\ settings.file # Unset /\ Refuse(FirstObject, OptionsRead)
                              /\ Goto("evaluating")
StdinFails ==
    /\ pc = "newstate"
    /\ settings.expr = Unset /\ settings.file = Unset
    /\ Starve("out of memory")

Evaluating == pc = "evaluating" /\ EvalStep /\ UNCHANGED mainVars

Say(condition, message) == IF condition THEN <<message>> ELSE <<>>

(* Mutant of Report: the exit code is set before the outcome is known.     *)
ReportAlwaysZero ==
    /\ pc = "evaluating"
    /\ phase = "idle"
    /\ pc' = "done"
    /\ code' = 0
    /\ stdout' = IF verdict = "ok" THEN result[FirstObject].output ELSE 0
    /\ stderr' = stderr \o Say(verdict # "ok", "error")
    /\ UNCHANGED <<start, at, settings, store, missing, starved>>
    /\ UNCHANGED apiVars

Report ==
    /\ pc = "evaluating"
    /\ phase = "idle"
    /\ pc' = "done"
    /\ IF verdict = "ok"
       THEN /\ stdout' = result[FirstObject].output
            /\ stderr' = stderr \o Say(result[FirstObject].trace # 0, "trace")
                                \o Say(~settings.quiet, "steps")
                                \o Say(result[FirstObject].limited, "limit warning")
            /\ code' = 0
       ELSE /\ stderr' = Append(stderr, IF ErrMsg = 0 THEN "error" ELSE "error: why")
            /\ UNCHANGED <<stdout, code>>
    /\ UNCHANGED <<start, at, settings, store, missing, starved>>
    /\ UNCHANGED apiVars

(* The label done.                                                         *)
Release == pc = "done" /\ FreeResult(FirstObject) /\ Goto("exited")

ReadWord ==
    \/ ReadSeparator \/ ReadExpr \/ ReadLimit \/ ReadSwitch \/ ReadHelp
    \/ ReadUnknown \/ ReadFree \/ ReadEnd

Main ==
    \/ ReadWord \/ RefuseConflict \/ NoMemory
    \/ CopyFails \/ CheckDone \/ Stat \/ Mkdir \/ MkdirExists \/ MkdirFails \/ StoreDone
    \/ Evaluate \/ Unreadable \/ StdinFails \/ Evaluating \/ Report \/ Release

ClientStep == pc = "client" /\ ApiNext /\ UNCHANGED mainVars

Next == Main \/ OtherMakes \/ ClientStep
Spec == Init /\ [][Next]_vars /\ WF_vars(Main)

-----------------------------------------------------------------------------
(* A command line written as the usage text has it, its options in any     *)
(* order, is read as it was meant: no word of one option is taken for      *)
(* another, and an argument after -- may look like an option.              *)
MeantIsRead ==
    start.meant # {} /\ pc # "options" => settings \in start.meant

(* The limit in force is the default or a number given with -n: one that   *)
(* is too large is refused, never replaced by another.  Only a number      *)
(* below zero, which strtoull accepts, becomes a large one.                *)
LimitWrapsOnlyBelowZero ==
    pc \notin {"options", "exited"} =>
        \/ settings.limit = DefaultLimit
        \/ \E i \in 1..(Len(Argv) - 1) :
              /\ Argv[i] = "-n" /\ Argv[i + 1] \in DOMAIN Numbers
              /\ \/ settings.limit = Numbers[Argv[i + 1]].magnitude
                 \/ Numbers[Argv[i + 1]].negative

(* Exit code 0 says that the output of the one call, or the help that was  *)
(* asked for, has been printed; 1 that nothing was printed but a reason.   *)
(* The warning is given exactly if the reduction was cut off, and the      *)
(* blocks of the result are freed on every way out.                        *)
ExitTellsOutcome ==
    /\ stdout # 0 => code = 0 /\ stdout = calls
    /\ pc = "done" /\ stdout # 0 =>
          (result[FirstObject].limited <=> \E i \in DOMAIN stderr : stderr[i] = "limit warning")
    /\ pc = "exited" =>
          /\ code = 0 => stdout # 0 \/ (calls = 0 /\ stderr = <<"usage">>)
          /\ code = 1 => stdout = 0 /\ stderr # <<>>
          /\ blocks = {}

(* When evaluation begins something stands at the library path, below      *)
(* directories only, whoever made them: a directory, or a file or a link   *)
(* to nothing that was there before, which main takes for the directory.   *)
StoreReady ==
    pc \in {"newstate", "evaluating", "done"} =>
        /\ \A k \in 1..(Depth - 1) : store[k] = "dir"
        /\ store[Depth] # "absent"

(* The program gives the library directory up only if there was no memory  *)
(* for a copy of its path, if the system refuses to make the very prefix   *)
(* that the walk has come to, or if above that prefix stands something     *)
(* that is no directory; never because another process was first.          *)
StoreFailureIsReal ==
    stderr = <<"store">> =>
        \/ starved
        \/ at \in start.denied
        \/ \E k \in 1..(at - 1) : store[k] \in {"file", "link"}

(* Every run of the program ends, whatever fails.                          *)
Exits == (pc # "client") ~> (pc = "exited")
=============================================================================
