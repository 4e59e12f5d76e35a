----------------------------- MODULE Evaluation -----------------------------
(***************************************************************************)
(* The embedding interface of lambdaScript (ls.h): ls_eval_string and      *)
(* ls_eval_file (ls.c) as the phases they run in order, what each leaves   *)
(* in the caller's ls_Result and in the one process-wide error buffer      *)
(* (err.c), and ls_errmsg.                                                 *)
(*                                                                         *)
(* Calls are numbered.  A block of text is known by what it is and by the  *)
(* call that allocated it, a message by the call that wrote it; 0 is NULL, *)
(* and the empty message.  What the phases compute is the business of the  *)
(* modules Imports, Syntax, Program, Interp and Reducer.                   *)
(***************************************************************************)
EXTENDS Naturals, FiniteSets

CONSTANTS Objects,     \* the ls_Result objects of the process
          FirstObject, \* one of them
          MaxCalls,    \* bound on the calls it makes
          Limits,      \* the values of max_steps
          DefaultLimit \* the one ls_options_init sets

ASSUME ObjectsAssumption == FirstObject \in Objects
ASSUME MaxCallsAssumption == MaxCalls \in Nat
ASSUME StepLimitsAssumption == Limits \subseteq Nat /\ DefaultLimit \in Limits

VARIABLES
    result,    \* each ls_Result: output, trace, steps, limited
    blocks,    \* blocks of text allocated and not freed
    errUp,     \* g_has_error
    errText,   \* g_errbuf, by the call that wrote it
    phase,     \* the phase of the running call, "idle" when there is none
    target,    \* the object of the latest call
    options,   \* its options
    held,      \* its local pointer trace
    calls,     \* calls begun so far
    verdict    \* what became of the latest call

apiVars == <<result, blocks, errUp, errText, phase, target, options, held, calls, verdict>>

Calls    == 0..MaxCalls
Options  == [trace : BOOLEAN, limit : Limits]
Results  == [output : Calls, trace : Calls, steps : Nat, limited : BOOLEAN]
Phases   == {"idle", "import", "merge", "scan", "parse", "lower", "reduce", "render"}

(* A call is refused when it returns before it looks at the result object, *)
(* mute when it fails without a message; it is released when it went well  *)
(* and the caller has freed the result since.                              *)
Verdicts == {"none", "running", "ok", "released", "failed", "mute", "refused"}

(* ls_result_init, ls_options_init.                                        *)
EmptyResult == [output |-> 0, trace |-> 0, steps |-> 0, limited |-> FALSE]
DefaultOptions == [trace |-> FALSE, limit |-> DefaultLimit]

Outputs(r) == {<<"output", n>> : n \in {r.output} \ {0}}
Traces(n)  == {<<"trace", i>> : i \in {n} \ {0}}
Owned(r)   == Outputs(r) \cup Traces(r.trace)

(* ls_errmsg, whatever state it is asked about.                            *)
ErrMsg == IF errUp THEN errText ELSE 0

ApiInit ==
    /\ result = [o \in Objects |-> EmptyResult]
    /\ blocks = {}
    /\ errUp = FALSE
    /\ errText = 0
    /\ phase = "idle"
    /\ target = FirstObject
    /\ options = DefaultOptions
    /\ held = 0
    /\ calls = 0
    /\ verdict = "none"

-----------------------------------------------------------------------------
(* err_set and err_clear.                                                  *)
ErrSet(n) == errUp' = TRUE /\ errText' = n
ErrClear  == errUp' = FALSE /\ errText' = 0

(* The caller's own ls_result_free.                                        *)
FreeResult(o) ==
    /\ phase = "idle"
    /\ result' = [result EXCEPT ![o] = EmptyResult]
    /\ blocks' = blocks \ Owned(result[o])
    /\ verdict' = IF o = target /\ verdict = "ok" THEN "released" ELSE verdict
    /\ UNCHANGED <<errUp, errText, phase, target, options, held, calls>>

(* Mutant of CanCall: a call inside a call.                                *)
CanCallAnyTime == calls < MaxCalls

CanCall == phase = "idle" /\ calls < MaxCalls

(* source is NULL, or ls_eval_file cannot read the file: the message is    *)
(* set, the result object not touched.                                     *)
Refuse(o, opts) ==
    /\ CanCall
    /\ calls' = calls + 1
    /\ target' = o
    /\ options' = opts
    /\ verdict' = "refused"
    /\ ErrSet(calls + 1)
    /\ UNCHANGED <<result, blocks, phase, held>>

(* Mutant of Begin: the result is not emptied first.                       *)
BeginUnfreed(o, opts) ==
    /\ CanCall
    /\ calls' = calls + 1
    /\ target' = o
    /\ options' = opts
    /\ verdict' = "running"
    /\ phase' = "import"
    /\ UNCHANGED <<result, blocks, errUp, errText, held>>

Begin(o, opts) ==
    /\ CanCall
    /\ calls' = calls + 1
    /\ target' = o
    /\ options' = opts
    /\ verdict' = "running"
    /\ phase' = "import"
    /\ result' = [result EXCEPT ![o] = EmptyResult]
    /\ blocks' = blocks \ Owned(result[o])
    /\ UNCHANGED <<errUp, errText, held>>

-----------------------------------------------------------------------------
(* The phases.  One that fails goes to the label fail, which frees the     *)
(* locals: trace is all of them that a result could have taken over.       *)
Goes(from, to) == phase = from /\ phase' = to
Kept == UNCHANGED <<target, options, calls>>

(* Mutant of Fail: the trace of a call that fails is not freed.            *)
FailLeaking(how) ==
    /\ phase' = "idle"
    /\ verdict' = how
    /\ held' = 0
    /\ UNCHANGED <<result, blocks>>
    /\ Kept

Fail(how) ==
    /\ phase' = "idle"
    /\ verdict' = how
    /\ blocks' = blocks \ Traces(held)
    /\ held' = 0
    /\ UNCHANGED result
    /\ Kept

(* preprocess_imports and merge_source_with_builtins leave the flag as it  *)
(* was; so does the scan.                                                  *)
Import ==
    /\ Goes("import", "merge")
    /\ UNCHANGED <<result, blocks, errUp, errText, held, verdict>> /\ Kept
Merge ==
    /\ Goes("merge", "scan")
    /\ UNCHANGED <<result, blocks, errUp, errText, held, verdict>> /\ Kept
Scan ==
    /\ Goes("scan", "parse")
    /\ UNCHANGED <<result, blocks, errUp, errText, held, verdict>> /\ Kept

(* Mutant of FailWithMessage: the flag is raised, the text left.           *)
FailWithOldMessage ==
    /\ phase \in {"import", "merge", "scan", "parse", "lower", "reduce", "render"}
    /\ errUp' = TRUE
    /\ UNCHANGED errText
    /\ Fail("failed")

(* Every phase may fail with a message of its own.                         *)
FailWithMessage ==
    /\ phase \in {"import", "merge", "scan", "parse", "lower", "reduce", "render"}
    /\ ErrSet(calls)
    /\ Fail("failed")

(* resolve_user_import_path: no memory for the copy of an absolute path,   *)
(* and NULL goes up without a message.                                     *)
FailMutely ==
    /\ phase = "import"
    /\ UNCHANGED <<errUp, errText>>
    /\ Fail("mute")

(* parser_parse_expr clears the flag for every line; a subscript tried and *)
(* given up (try_parse_paren_subscript_suffix) leaves it raised again.     *)
Parse ==
    /\ Goes("parse", "lower")
    /\ ErrClear \/ ErrSet(calls)
    /\ UNCHANGED <<result, blocks, held, verdict>> /\ Kept

(* value_from_program.                                                     *)
Lower ==
    /\ Goes("lower", "reduce")
    /\ ErrClear
    /\ UNCHANGED <<result, blocks, held, verdict>> /\ Kept

(* Either reduction loop; what it promises is module BoundedNormalization. *)
(* A step that succeeds leaves the flag down.                              *)
Reduce ==
    /\ Goes("reduce", "render")
    /\ \E n \in 0..options.limit, cut \in BOOLEAN :
          /\ cut => n = options.limit
          /\ result' = [result EXCEPT ![target].steps = n, ![target].limited = cut]
    /\ held' = IF options.trace THEN calls ELSE 0
    /\ blocks' = blocks \cup Traces(held')
    /\ ErrClear
    /\ UNCHANGED verdict /\ Kept

(* value_to_string, and the result takes over both blocks.                 *)
Render ==
    /\ Goes("render", "idle")
    /\ result' = [result EXCEPT ![target].output = calls, ![target].trace = held]
    /\ blocks' = blocks \cup {<<"output", calls>>}
    /\ held' = 0
    /\ verdict' = "ok"
    /\ UNCHANGED <<errUp, errText>> /\ Kept

EvalStep ==
    \/ Import \/ Merge \/ Scan \/ Parse \/ Lower \/ Reduce \/ Render
    \/ FailWithMessage \/ FailMutely

(* What a program that embeds the library may do.                          *)
Caller ==
    \E o \in Objects :
        \/ FreeResult(o)
        \/ \E opts \in Options : Refuse(o, opts) \/ Begin(o, opts)

ApiNext == Caller \/ EvalStep

(* What a process makes of the interface by calling it, and what the       *)
(* program does whose main is one such caller (ls.h).                      *)
ApiSpec == ApiInit /\ [][ApiNext]_apiVars

-----------------------------------------------------------------------------
(* A call's message is one that it wrote, and its result is only ever      *)
(* filled while a call is running on it.                                   *)
ApiTypeOK ==
    /\ result \in [Objects -> Results]
    /\ blocks \subseteq {"output", "trace"} \X Calls
    /\ errUp \in BOOLEAN
    /\ errText \in Calls
    /\ phase \in Phases
    /\ target \in Objects
    /\ options \in Options
    /\ held \in Calls
    /\ calls \in Calls
    /\ verdict \in Verdicts
    /\ phase # "idle" <=> verdict = "running"

(* ls_eval_string hands output and trace over to the result and sets its   *)
(* own pointers to NULL, and every other way out frees them: no block is   *)
(* lost, none has two owners that would free it twice, none is owned after *)
(* it was freed.                                                           *)
BlocksHaveOneOwner ==
    /\ blocks = (UNION {Owned(result[o]) : o \in Objects}) \cup Traces(held)
    /\ \A o \in Objects :
          /\ Owned(result[o]) \cap Traces(held) = {}
          /\ \A p \in Objects \ {o} : Owned(result[o]) \cap Owned(result[p]) = {}

(* Between calls ls_errmsg speaks of the latest one, though the buffer is  *)
(* the process's and never cleared when a call begins: a call that failed  *)
(* left its own message, one that went well none.  A call that failed      *)
(* mutely may leave that of an earlier call, never one of its own.         *)
MessageIsOfLastCall ==
    /\ verdict \in {"failed", "refused"} => ErrMsg = calls
    /\ verdict \in {"ok", "released"} => ErrMsg = 0
    /\ verdict = "mute" => ErrMsg # calls

(* A call that went well leaves its own output, a trace exactly if that    *)
(* was asked for, and a count within the limit, all of it if the reduction *)
(* was cut off.  A call that failed leaves no text of an earlier one,      *)
(* unless it was refused before it came to the result.                     *)
ResultIsOfLastCall ==
    LET r == result[target] IN
    /\ verdict = "ok" =>
          /\ r.output = calls
          /\ r.trace = (IF options.trace THEN calls ELSE 0)
          /\ r.steps <= options.limit
          /\ r.limited => r.steps = options.limit
    /\ verdict \in {"failed", "mute"} => r.output = 0 /\ r.trace = 0

-----------------------------------------------------------------------------
(* While a call runs its object is in its hands, and nobody asks for the   *)
(* message.                                                                *)
SeenResult  == [o \in Objects |-> IF phase # "idle" /\ o = target THEN EmptyResult ELSE result[o]]
SeenMessage == IF phase = "idle" THEN ErrMsg ELSE 0

Promise == INSTANCE CallPromise WITH result <- SeenResult, message <- SeenMessage

(* Whatever the phases do, a call touches no object but its own, and what  *)
(* it leaves there and in ls_errmsg is what CallPromise says.               *)
KeepsPromise == Promise!PromiseSpec
=============================================================================
