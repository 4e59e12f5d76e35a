------------------------------ MODULE Reducer ------------------------------
(***************************************************************************)
(* The reduction loop of lambdaScript: interp_reduce_normal (interp.c),    *)
(* its second copy reduce_with_trace (ls.c), and what the three kinds of   *)
(* callers do with the term, the step count and the limit flag they get    *)
(* back.                                                                   *)
(*                                                                         *)
(* One call is modelled, over an arbitrary deterministic one-step          *)
(* reduction stepOf (module Interp models the real one).  g_has_error, the *)
(* process-wide error flag of err.c, may be left raised by an earlier      *)
(* call.  An allocation may fail at any point where the code allocates;    *)
(* starved records that one did.  trace is the list of lines               *)
(* reduce_with_trace prints, and a history variable in the untraced loop.  *)
(***************************************************************************)
EXTENDS Naturals, Sequences

CONSTANTS Terms, Normal, Failed, Limits, NoTerm, NoAnswer,
          AllocMayFail    \* TRUE when malloc may return NULL

ASSUME OutcomesDistinct ==
    /\ Normal \notin Terms
    /\ Failed \notin Terms
    /\ Normal # Failed
ASSUME NullsDistinct ==
    /\ NoTerm \notin Terms
    /\ NoAnswer \notin [ok : BOOLEAN, term : Terms \cup {NoTerm},
                       steps : Nat, limited : BOOLEAN]
ASSUME LimitsAssumption == Limits \subseteq Nat
ASSUME AllocAssumption == AllocMayFail \in BOOLEAN

VARIABLES
    stepOf,     \* interp_step_normal as a function of the term
    input,      \* the term handed over
    maxSteps,   \* max_steps
    caller,     \* who calls
    pc,         \* where the call is
    current,    \* the local current
    steps,      \* the local steps
    hitLimit,   \* the local hit_limit
    trace,      \* the trace buffer, one [label, term] per line
    err,        \* g_has_error
    starved,    \* some allocation of this call returned NULL
    answer      \* what the caller ends up with

vars == <<stepOf, input, maxSteps, caller, pc, current, steps, hitLimit,
          trace, err, starved, answer>>
callVars == <<stepOf, input, maxSteps, caller>>

Promise == INSTANCE BoundedNormalization
             WITH path <- IF answer = NoAnswer THEN <<>> ELSE trace,
                  starved <- answer # NoAnswer /\ starved

Outcomes == Terms \cup {Normal, Failed}
Callers  == {"eval", "trace", "clone", "applied"}
Answers  == [ok : BOOLEAN, term : Terms \cup {NoTerm}, steps : Nat, limited : BOOLEAN]

TypeOK ==
    /\ stepOf \in [Terms -> Outcomes]
    /\ input \in Terms
    /\ maxSteps \in Limits
    /\ caller \in Callers
    /\ pc \in {"start", "loop", "probe", "finish", "done"}
    /\ current \in Terms \cup {NoTerm}
    /\ steps \in Nat
    /\ hitLimit \in BOOLEAN
    /\ trace \in Seq([label : Nat, term : Terms])
    /\ err \in BOOLEAN
    /\ starved \in BOOLEAN
    /\ answer \in Answers \cup {NoAnswer}

Init ==
    /\ stepOf \in [Terms -> Outcomes]
    /\ input \in Terms
    /\ maxSteps \in Limits
    /\ caller \in Callers
    /\ pc = "start"
    /\ current = NoTerm
    /\ steps = 0
    /\ hitLimit = FALSE
    /\ trace = <<>>
    /\ err \in BOOLEAN
    /\ starved = FALSE
    /\ answer = NoAnswer

-----------------------------------------------------------------------------
(* interp_step_normal on the current term, once err_clear has lowered the  *)
(* flag: its result, and whether it leaves the flag raised.                *)
StepResult == stepOf[current]
ErrAfterStep == StepResult = Failed

Line(n, t) == [label |-> n, term |-> t]

(* A NULL term with the flag raised: the loop frees what it holds and      *)
(* returns NULL; the out-parameters keep the zeros they were reset to.     *)
GiveUp ==
    /\ pc' = "done"
    /\ current' = NoTerm
    /\ answer' = [ok |-> FALSE, term |-> NoTerm, steps |-> 0, limited |-> FALSE]
    /\ UNCHANGED <<callVars, steps, hitLimit, trace>>

OutOfMemory ==
    /\ AllocMayFail
    /\ starved' = TRUE
    /\ err' = TRUE
    /\ GiveUp

(* The copy of the term and, in the traced loop, line [0].                 *)
Start ==
    /\ pc = "start"
    /\ pc' = "loop"
    /\ current' = input
    /\ trace' = <<Line(0, input)>>
    /\ err' = FALSE
    /\ UNCHANGED <<callVars, steps, hitLimit, starved, answer>>

(* value_clone or the rendering of line [0] gets no memory.                *)
StartFails ==
    /\ pc = "start"
    /\ OutOfMemory

-----------------------------------------------------------------------------
InLoop == pc = "loop" /\ steps < maxSteps

(* Mutants of Advance: the NULL check is gone; the count is not kept.      *)
AdvanceUnchecked ==
    /\ InLoop
    /\ caller # "trace"
    /\ current' = StepResult
    /\ steps' = steps + 1
    /\ trace' = Append(trace, Line(steps + 1, StepResult))
    /\ err' = ErrAfterStep
    /\ UNCHANGED <<callVars, pc, hitLimit, starved, answer>>
AdvanceUncounted ==
    /\ InLoop
    /\ caller # "trace"
    /\ StepResult \in Terms
    /\ current' = StepResult
    /\ err' = ErrAfterStep
    /\ UNCHANGED <<callVars, pc, steps, trace, hitLimit, starved, answer>>

(* One turn of interp_reduce_normal's loop.                                *)
Advance ==
    /\ InLoop
    /\ caller # "trace"
    /\ StepResult \in Terms
    /\ current' = StepResult
    /\ steps' = steps + 1
    /\ trace' = Append(trace, Line(steps + 1, StepResult))
    /\ err' = ErrAfterStep
    /\ UNCHANGED <<callVars, pc, hitLimit, starved, answer>>

(* Mutant of AdvanceTraced: the line is rendered before the count.         *)
AdvanceTracedEarly ==
    /\ InLoop
    /\ caller = "trace"
    /\ StepResult \in Terms
    /\ steps' = steps + 1
    /\ trace' = Append(trace, Line(steps, StepResult))
    /\ current' = StepResult
    /\ err' = ErrAfterStep
    /\ UNCHANGED <<callVars, pc, hitLimit, starved, answer>>

(* One turn of reduce_with_trace's loop: count, render the new term under  *)
(* the new count, then make it the current one.                            *)
AdvanceTraced ==
    /\ InLoop
    /\ caller = "trace"
    /\ StepResult \in Terms
    /\ steps' = steps + 1
    /\ trace' = Append(trace, Line(steps', StepResult))
    /\ current' = StepResult
    /\ err' = ErrAfterStep
    /\ UNCHANGED <<callVars, pc, hitLimit, starved, answer>>

RenderFails ==
    /\ InLoop
    /\ caller = "trace"
    /\ StepResult \in Terms
    /\ OutOfMemory

(* An allocation fails somewhere inside the step.  beta_reduce and the     *)
(* value constructors return NULL without raising the flag, so the step    *)
(* looks like "no redex here": it may come back with a redex found further *)
(* right, with nothing (which ends the loop), or with an error.            *)
StepStarvedElsewhere ==
    /\ InLoop
    /\ AllocMayFail
    /\ \E t \in Terms :
         /\ current' = t
         /\ trace' = Append(trace, Line(steps + 1, t))
    /\ steps' = steps + 1
    /\ err' = FALSE
    /\ starved' = TRUE
    /\ UNCHANGED <<callVars, pc, hitLimit, answer>>

StepStarvedSilently ==
    /\ pc \in {"loop", "probe"}
    /\ pc = "loop" => steps < maxSteps
    /\ AllocMayFail
    /\ pc' = "finish"
    /\ err' = FALSE
    /\ starved' = TRUE
    /\ UNCHANGED <<callVars, current, steps, hitLimit, trace, answer>>

StepStarvedLoudly ==
    /\ pc \in {"loop", "probe"}
    /\ pc = "loop" => steps < maxSteps
    /\ OutOfMemory

(* NULL without the flag: the term is in normal form, break.               *)
Stop ==
    /\ InLoop
    /\ StepResult = Normal
    /\ pc' = "finish"
    /\ err' = ErrAfterStep
    /\ UNCHANGED <<callVars, current, steps, hitLimit, trace, starved, answer>>

(* NULL with the flag.                                                     *)
StepFails ==
    /\ InLoop \/ pc = "probe"
    /\ StepResult = Failed
    /\ err' = ErrAfterStep
    /\ UNCHANGED starved
    /\ GiveUp

(* The loop has used its budget: one more step is tried and thrown away,   *)
(* only to learn whether there is one.                                     *)
LimitReached ==
    /\ pc = "loop"
    /\ steps = maxSteps
    /\ pc' = "probe"
    /\ UNCHANGED <<callVars, current, steps, hitLimit, trace, err, starved, answer>>

(* Mutants of Probe: the budget used up is a limit hit, or never one.      *)
ProbeAlways ==
    /\ pc = "probe"
    /\ StepResult # Failed
    /\ hitLimit' = TRUE
    /\ pc' = "finish"
    /\ err' = ErrAfterStep
    /\ UNCHANGED <<callVars, current, steps, trace, starved, answer>>
ProbeNever ==
    /\ pc = "probe"
    /\ StepResult # Failed
    /\ hitLimit' = FALSE
    /\ pc' = "finish"
    /\ err' = ErrAfterStep
    /\ UNCHANGED <<callVars, current, steps, trace, starved, answer>>

Probe ==
    /\ pc = "probe"
    /\ StepResult # Failed
    /\ hitLimit' = (StepResult \in Terms)
    /\ pc' = "finish"
    /\ err' = ErrAfterStep
    /\ UNCHANGED <<callVars, current, steps, trace, starved, answer>>

-----------------------------------------------------------------------------
(* ls_eval_string keeps the term, the count and the flag.                  *)
ReturnToEval ==
    /\ pc = "finish"
    /\ caller \in {"eval", "trace"}
    /\ pc' = "done"
    /\ answer' = [ok |-> TRUE, term |-> current, steps |-> steps, limited |-> hitLimit]
    /\ UNCHANGED <<callVars, current, steps, hitLimit, trace, err, starved>>

(* reduce_applied_once passes no pointers: the flag is lost.               *)
ReturnToApplied ==
    /\ pc = "finish"
    /\ caller = "applied"
    /\ pc' = "done"
    /\ answer' = [ok |-> TRUE, term |-> current, steps |-> steps, limited |-> FALSE]
    /\ UNCHANGED <<callVars, current, steps, hitLimit, trace, err, starved>>

(* Mutant of ReturnToClone: an unfinished term is good enough.             *)
ReturnToCloneAnyway ==
    /\ pc = "finish"
    /\ caller = "clone"
    /\ pc' = "done"
    /\ answer' = [ok |-> TRUE, term |-> current, steps |-> steps, limited |-> FALSE]
    /\ UNCHANGED <<callVars, current, steps, hitLimit, trace, err, starved>>

(* reduce_clone_normal turns the flag into an error.                       *)
ReturnToClone ==
    /\ pc = "finish"
    /\ caller = "clone"
    /\ ~hitLimit
    /\ pc' = "done"
    /\ answer' = [ok |-> TRUE, term |-> current, steps |-> steps, limited |-> FALSE]
    /\ UNCHANGED <<callVars, current, steps, hitLimit, trace, err, starved>>

(* Mutant of RefuseUnfinished: NULL, but no error is set.                  *)
RefuseQuietly ==
    /\ pc = "finish"
    /\ caller = "clone"
    /\ hitLimit
    /\ UNCHANGED <<err, starved>>
    /\ GiveUp

RefuseUnfinished ==
    /\ pc = "finish"
    /\ caller = "clone"
    /\ hitLimit
    /\ err' = TRUE
    /\ UNCHANGED starved
    /\ GiveUp

Next ==
    \/ Start \/ StartFails
    \/ Advance \/ AdvanceTraced \/ RenderFails
    \/ StepStarvedElsewhere \/ StepStarvedSilently \/ StepStarvedLoudly
    \/ Stop \/ StepFails \/ LimitReached \/ Probe
    \/ ReturnToEval \/ ReturnToApplied \/ ReturnToClone \/ RefuseUnfinished

Spec == Init /\ [][Next]_vars
FairSpec == Spec /\ WF_vars(Next)

-----------------------------------------------------------------------------
Succeeded == answer # NoAnswer /\ answer.ok

(* A caller that is told nothing of a limit holds a normal form, unless    *)
(* memory ran out or it is reduce_applied_once: interp_reduce_normal       *)
(* and reduce_with_trace probe one step past the limit, so a term that     *)
(* reaches its normal form in exactly max_steps steps is not reported as   *)
(* cut off, and one that does not is.                                      *)
UnflaggedIsNormal ==
    Succeeded /\ ~answer.limited /\ ~starved /\ caller # "applied"
        => stepOf[answer.term] = Normal

(* The warning "reduction stopped after reaching step limit" is never      *)
(* false: the limit was used up and the term really goes on.               *)
FlaggedGoesOn ==
    Succeeded /\ answer.limited /\ ~starved
        => answer.steps = maxSteps /\ stepOf[answer.term] \in Terms

(* A call fails only for a cause of its own: a flag that an earlier call   *)
(* left raised in the process-wide g_has_error never makes it fail, and a  *)
(* successful call leaves the flag lowered.                                *)
ErrorIsOwn ==
    answer # NoAnswer =>
        /\ err = ~answer.ok
        /\ ~answer.ok => \/ starved
                         \/ stepOf[trace[Len(trace)].term] = Failed
                         \/ caller = "clone" /\ Len(trace) - 1 = maxSteps

(* What -t prints is the reduction: lines numbered from 0, each the step   *)
(* of the one before, the first the program, the last the printed result   *)
(* and its number the [steps=N] of the result.                             *)
TraceIsReduction ==
    Succeeded /\ ~starved =>
        /\ trace[1].term = input
        /\ trace[Len(trace)] = Line(answer.steps, answer.term)
        /\ \A i \in 1..(Len(trace) - 1) :
              /\ trace[i + 1].label = trace[i].label + 1
              /\ trace[i + 1].term = stepOf[trace[i].term]

(* Each call implements the one-shot promise.                              *)
ImplementsPromise == Promise!AbsSpec

(* The limit ends every reduction, also that of a term with no normal      *)
(* form.                                                                   *)
Terminates == <>(pc = "done")
=============================================================================
