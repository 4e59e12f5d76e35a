------------------------ MODULE BoundedNormalization ------------------------
(***************************************************************************)
(* What a caller of lambdaScript's reducer is promised, with no loop in    *)
(* sight: it hands over a term and a step limit, and gets back the last    *)
(* term of a chain of single reduction steps that starts at its term and   *)
(* is no longer than the limit, told truthfully whether more steps remain. *)
(*                                                                         *)
(* stepOf is the one-step reduction: it maps a term to the next term, to   *)
(* Normal when there is none, to Failed when the step reports an error.    *)
(***************************************************************************)
EXTENDS Naturals, Sequences

CONSTANTS Terms,          \* the terms a reduction can reach
          Normal,         \* "no step applies": interp_step_normal returns NULL
          Failed,         \* NULL with the error flag raised
          Limits,         \* the step limits callers pass
          NoTerm,         \* the NULL term
          NoAnswer        \* the call has not returned

VARIABLES stepOf, input, maxSteps, caller, path, starved, answer

absVars == <<stepOf, input, maxSteps, caller, path, starved, answer>>

Outcomes == Terms \cup {Normal, Failed}

(***************************************************************************)
(* The four places that reduce.  "eval" and "trace" are ls_eval_string     *)
(* without and with options->trace; "clone" is reduce_clone_normal, which  *)
(* refuses an unfinished result; "applied" is reduce_applied_once, which   *)
(* passes no pointer for the flag and takes whatever term comes back.      *)
(***************************************************************************)
Callers == {"eval", "trace", "clone", "applied"}

(***************************************************************************)
(* p is a chain of terms from t, each line numbered as -t prints it; the   *)
(* chain is faithful when every link is the step reduction prescribes.     *)
(***************************************************************************)
IsNumbered(p, t) ==
    /\ Len(p) > 0
    /\ p[1].term = t
    /\ \A i \in 1..Len(p) : p[i].label = i - 1

IsFaithful(p) == \A i \in 1..(Len(p) - 1) : p[i + 1].term = stepOf[p[i].term]

LastTerm(p) == p[Len(p)].term
HasStep(t)  == stepOf[t] \in Terms

(***************************************************************************)
(* A successful answer carries the end of the chain and its length.        *)
(* Unless an allocation failed inside a step (the reducer cannot tell the  *)
(* NULL it gets from a normal form), the chain is faithful, a caller that  *)
(* reads the flag is told of a limit exactly when the chain used it up and *)
(* goes on, and reduce_applied_once alone may get an unfinished term       *)
(* without being told.                                                     *)
(***************************************************************************)
Success(p, lost, a) ==
    /\ IsNumbered(p, input)
    /\ a.term = LastTerm(p)
    /\ a.steps = Len(p) - 1
    /\ a.steps <= maxSteps
    /\ a.limited => caller \in {"eval", "trace"} /\ a.steps = maxSteps
    /\ lost \/ /\ IsFaithful(p)
               /\ a.limited => HasStep(a.term)
               /\ \/ a.limited
                  \/ stepOf[a.term] = Normal
                  \/ caller = "applied" /\ a.steps = maxSteps /\ HasStep(a.term)

(***************************************************************************)
(* A failed answer has a cause: an allocation failed, or the step at the   *)
(* end of a faithful chain within the limit reported an error, or the      *)
(* limit cut off a caller that insists on a normal form.  The              *)
(* out-parameters are left as they were reset.                             *)
(***************************************************************************)
Failure(p, lost, a) ==
    /\ a = [ok |-> FALSE, term |-> NoTerm, steps |-> 0, limited |-> FALSE]
    /\ lost \/ /\ IsNumbered(p, input)
               /\ IsFaithful(p)
               /\ Len(p) - 1 <= maxSteps
               /\ \/ stepOf[LastTerm(p)] = Failed
                  \/ caller = "clone" /\ Len(p) - 1 = maxSteps /\ HasStep(LastTerm(p))

AbsInit ==
    /\ stepOf \in [Terms -> Outcomes]
    /\ input \in Terms
    /\ maxSteps \in Limits
    /\ caller \in Callers
    /\ path = <<>>
    /\ starved = FALSE
    /\ answer = NoAnswer

Give ==
    /\ answer = NoAnswer
    /\ answer' # NoAnswer
    /\ \/ answer'.ok /\ Success(path', starved', answer')
       \/ ~answer'.ok /\ Failure(path', starved', answer')
    /\ UNCHANGED <<stepOf, input, maxSteps, caller>>

AbsSpec == AbsInit /\ [][Give]_absVars
=============================================================================
