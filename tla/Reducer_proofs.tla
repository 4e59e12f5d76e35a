--------------------------- MODULE Reducer_proofs ---------------------------
(***************************************************************************)
(* Proofs about the reduction loop, for every set of terms, every one-step *)
(* reduction over it, every set of limits, and with or without allocation  *)
(* failures.                                                               *)
(***************************************************************************)
EXTENDS Reducer, TLAPS

Lines == [label : Nat, term : Terms]

(***************************************************************************)
(* The chain built so far, and what the loop knows of its end.             *)
(***************************************************************************)
ChainInv ==
    /\ Len(trace) = steps + 1
    /\ steps <= maxSteps
    /\ Promise!IsNumbered(trace, input)
    /\ starved \/ Promise!IsFaithful(trace)

FlagInv ==
    /\ hitLimit => steps = maxSteps
    /\ starved \/ IF hitLimit THEN stepOf[current] \in Terms ELSE stepOf[current] = Normal

StartInv ==
    pc = "start" => trace = <<>> /\ steps = 0 /\ ~hitLimit /\ ~starved

RunningInv ==
    pc \in {"loop", "probe", "finish"} =>
        /\ ChainInv
        /\ current \in Terms
        /\ current = trace[Len(trace)].term
        /\ pc \in {"loop", "probe"} => ~hitLimit
        /\ pc = "probe" => steps = maxSteps
        /\ pc = "finish" => FlagInv /\ ~err

DoneInv ==
    IF pc = "done"
    THEN /\ answer \in Answers
         /\ err = ~answer.ok
         /\ IF answer.ok THEN Promise!Success(trace, starved, answer)
                         ELSE Promise!Failure(trace, starved, answer)
    ELSE answer = NoAnswer

(***************************************************************************)
(* The inductive invariant.                                                *)
(***************************************************************************)
IInv == TypeOK /\ StartInv /\ RunningInv /\ DoneInv

-----------------------------------------------------------------------------
(* Appending the next line keeps a chain a chain.                          *)
LEMMA AppendLine ==
    ASSUME NEW p \in Seq(Lines), NEW n \in Nat, NEW t \in Terms,
           Len(p) = n + 1,
           Promise!IsNumbered(p, input)
    PROVE  LET q == Append(p, Line(n + 1, t))
           IN  /\ q \in Seq(Lines)
               /\ Len(q) = n + 2
               /\ q[Len(q)].term = t
               /\ Promise!IsNumbered(q, input)
               /\ Promise!IsFaithful(p) /\ t = stepOf[p[Len(p)].term]
                    => Promise!IsFaithful(q)
<1> DEFINE q == Append(p, Line(n + 1, t))
<1>1. Line(n + 1, t) \in Lines
  BY DEF Line, Lines
<1>2. q \in Seq(Lines) /\ Len(q) = n + 2
  BY <1>1
<1>3. q[n + 2] = Line(n + 1, t) /\ \A i \in 1..(n + 1) : q[i] = p[i]
  BY <1>1
<1>4. q[Len(q)].term = t
  BY <1>2, <1>3 DEF Line
<1>5. Promise!IsNumbered(q, input)
  <2>1. q[1].term = input
    BY <1>3 DEF Promise!IsNumbered
  <2>2. ASSUME NEW i \in 1..Len(q)
        PROVE  q[i].label = i - 1
    <3>1. CASE i = n + 2
      BY <1>3, <3>1 DEF Line
    <3>2. CASE i \in 1..(n + 1)
      BY <1>3, <3>2 DEF Promise!IsNumbered
    <3> QED
      BY <1>2, <2>2, <3>1, <3>2
  <2> QED
    BY <1>2, <2>1, <2>2 DEF Promise!IsNumbered
<1>6. ASSUME Promise!IsFaithful(p), t = stepOf[p[Len(p)].term]
      PROVE  Promise!IsFaithful(q)
  <2>1. ASSUME NEW i \in 1..(Len(q) - 1)
        PROVE  q[i + 1].term = stepOf[q[i].term]
    <3>1. CASE i = n + 1
      BY <1>2, <1>3, <1>6, <3>1 DEF Line
    <3>2. CASE i \in 1..n
      BY <1>3, <1>6, <3>2 DEF Promise!IsFaithful
    <3> QED
      BY <1>2, <2>1, <3>1, <3>2
  <2> QED
    BY <2>1 DEF Promise!IsFaithful
<1> QED
  BY <1>2, <1>4, <1>5, <1>6

(* A call that has just been made satisfies the invariant.                 *)
LEMMA InitInv == Init => IInv
<1> SUFFICES ASSUME Init
             PROVE  IInv
  OBVIOUS
<1>1. TypeOK
  <2>1. trace \in Seq([label : Nat, term : Terms])
    BY DEF Init
  <2> QED
    BY <2>1 DEF Init, TypeOK
<1>2. StartInv /\ RunningInv /\ DoneInv
  BY DEF Init, StartInv, RunningInv, DoneInv
<1> QED
  BY <1>1, <1>2 DEF IInv

(* A call that gives up satisfies the invariant when it has a cause.       *)
LEMMA GiveUpInv ==
    ASSUME TypeOK, GiveUp, err' = TRUE, starved' \in BOOLEAN,
           \/ starved'
           \/ /\ Promise!IsNumbered(trace, input)
              /\ Promise!IsFaithful(trace)
              /\ Len(trace) - 1 <= maxSteps
              /\ \/ stepOf[trace[Len(trace)].term] = Failed
                 \/ /\ caller = "clone"
                    /\ Len(trace) - 1 = maxSteps
                    /\ stepOf[trace[Len(trace)].term] \in Terms
    PROVE  IInv'
<1>1. TypeOK'
  <2>1. answer' \in Answers
    BY DEF GiveUp, Answers
  <2> QED
    BY <2>1 DEF TypeOK, GiveUp, callVars
<1>2. StartInv' /\ RunningInv'
  BY DEF GiveUp, StartInv, RunningInv
<1>3. Promise!Failure(trace, starved, answer)'
  BY DEF GiveUp, callVars, Promise!Failure, Promise!IsNumbered, Promise!IsFaithful,
         Promise!LastTerm, Promise!HasStep
<1>4. DoneInv'
  BY <1>1, <1>3 DEF GiveUp, DoneInv, Answers
<1> QED
  BY <1>1, <1>2, <1>4 DEF IInv

(* A turn of either loop, also one whose step was starved of memory.       *)
LEMMA TurnInv ==
    ASSUME IInv, pc = "loop", steps < maxSteps, NEW t \in Terms,
           t = stepOf[current] \/ starved',
           starved => starved',
           current' = t,
           steps' = steps + 1,
           trace' = Append(trace, Line(steps + 1, t)),
           err' = FALSE,
           starved' \in BOOLEAN,
           UNCHANGED <<callVars, pc, hitLimit, answer>>
    PROVE  IInv'
<1> USE DEF IInv
<1>0. maxSteps \in Nat /\ steps \in Nat
  BY LimitsAssumption DEF TypeOK
<1>1. trace \in Seq(Lines) /\ ChainInv /\ current = trace[Len(trace)].term /\ ~hitLimit
  BY DEF TypeOK, Lines, RunningInv
<1>2. Len(trace) = steps + 1 /\ Promise!IsNumbered(trace, input)
  BY <1>1 DEF ChainInv
<1>3. /\ trace' \in Seq(Lines)
      /\ Len(trace') = steps + 2
      /\ trace'[Len(trace')].term = t
      /\ Promise!IsNumbered(trace', input)
      /\ Promise!IsFaithful(trace) /\ t = stepOf[trace[Len(trace)].term]
           => Promise!IsFaithful(trace')
  BY <1>0, <1>1, <1>2, AppendLine
<1>4. TypeOK'
  <2>1. trace' \in Seq([label : Nat, term : Terms])
    BY <1>3 DEF Lines
  <2>2. steps' \in Nat /\ current' \in Terms
    BY <1>0
  <2>3. /\ stepOf' \in [Terms -> Outcomes]
        /\ input' \in Terms
        /\ maxSteps' \in Limits
        /\ caller' \in Callers
    BY DEF TypeOK, callVars
  <2>4. /\ pc' \in {"start", "loop", "probe", "finish", "done"}
        /\ hitLimit' \in BOOLEAN
        /\ answer' \in Answers \cup {NoAnswer}
    BY DEF TypeOK, callVars
  <2> QED
    BY <2>1, <2>2, <2>3, <2>4 DEF TypeOK
<1>5. ChainInv'
  <2>1. Len(trace') = steps' + 1 /\ steps' <= maxSteps'
    BY <1>0, <1>3 DEF callVars
  <2>2. Promise!IsNumbered(trace, input)'
    BY <1>3 DEF callVars, Promise!IsNumbered
  <2>3. starved' \/ Promise!IsFaithful(trace)'
    BY <1>1, <1>3 DEF ChainInv, callVars, Promise!IsFaithful
  <2> QED
    BY <2>1, <2>2, <2>3 DEF ChainInv
<1>6. StartInv' /\ RunningInv'
  BY <1>1, <1>3, <1>5 DEF StartInv, RunningInv
<1>7. DoneInv'
  BY DEF DoneInv
<1> QED
  BY <1>4, <1>6, <1>7

(* Handing the term back satisfies the invariant.                          *)
LEMMA ReturnInv ==
    ASSUME IInv, pc = "finish",
           pc' = "done",
           NEW flag \in BOOLEAN,
           answer' = [ok |-> TRUE, term |-> current, steps |-> steps, limited |-> flag],
           \/ caller \in {"eval", "trace"} /\ flag = hitLimit
           \/ caller = "applied" /\ ~flag
           \/ caller = "clone" /\ ~flag /\ ~hitLimit,
           UNCHANGED <<callVars, current, steps, hitLimit, trace, err, starved>>
    PROVE  IInv'
<1> USE DEF IInv
<1>0. maxSteps \in Nat /\ steps \in Nat
  BY LimitsAssumption DEF TypeOK
<1>1. ChainInv /\ FlagInv /\ current \in Terms /\ current = trace[Len(trace)].term
  BY DEF RunningInv
<1>2. answer' \in Answers
  BY <1>0, <1>1 DEF Answers
<1>3. TypeOK'
  BY <1>2 DEF TypeOK, callVars
<1>4. Promise!Success(trace, starved, answer)'
  <2>1. Promise!IsNumbered(trace, input)'
    BY <1>1 DEF ChainInv, callVars, Promise!IsNumbered
  <2>2. starved \/ Promise!IsFaithful(trace)'
    BY <1>1 DEF ChainInv, callVars, Promise!IsFaithful
  <2>3. /\ answer'.term = Promise!LastTerm(trace)'
        /\ answer'.steps = Len(trace') - 1
        /\ answer'.steps <= maxSteps'
    BY <1>0, <1>1 DEF ChainInv, callVars, Promise!LastTerm
  <2>4. answer'.limited => caller' \in {"eval", "trace"} /\ answer'.steps = maxSteps'
    BY <1>1 DEF FlagInv, callVars
  <2>5. starved \/ /\ answer'.limited => Promise!HasStep(answer.term)'
                   /\ \/ answer'.limited
                      \/ stepOf'[answer'.term] = Normal
                      \/ /\ caller' = "applied"
                         /\ answer'.steps = maxSteps'
                         /\ Promise!HasStep(answer.term)'
    BY <1>1 DEF FlagInv, callVars, Promise!HasStep
  <2> QED
    BY <2>1, <2>2, <2>3, <2>4, <2>5 DEF Promise!Success
<1>5. DoneInv'
  <2>1. err' = FALSE /\ answer'.ok = TRUE
    BY DEF RunningInv, TypeOK
  <2> QED
    BY <1>2, <1>4, <2>1 DEF DoneInv
<1>6. StartInv' /\ RunningInv'
  BY DEF StartInv, RunningInv
<1> QED
  BY <1>3, <1>5, <1>6

(* The invariant is inductive: one step per action.                        *)
LEMMA NextInv == IInv /\ [Next]_vars => IInv'
<1> SUFFICES ASSUME IInv, [Next]_vars
             PROVE  IInv'
  OBVIOUS
<1> USE DEF IInv
<1>0. maxSteps \in Nat /\ steps \in Nat /\ TypeOK
  BY LimitsAssumption DEF TypeOK
<1>1. CASE Start
  <2>1. ChainInv'
    <3>1. trace' = <<Line(0, input)>> /\ Len(trace') = 1 /\ trace'[1].term = input
             /\ trace'[1].label = 0
      BY <1>1 DEF Start, Line
    <3>2. Promise!IsNumbered(trace, input)'
      BY <1>1, <3>1 DEF Start, callVars, Promise!IsNumbered
    <3>3. Promise!IsFaithful(trace)'
      BY <3>1 DEF Promise!IsFaithful
    <3> QED
      BY <1>0, <1>1, <3>1, <3>2, <3>3 DEF Start, StartInv, callVars, ChainInv
  <2>2. TypeOK'
    <3>1. trace' \in Seq([label : Nat, term : Terms])
      BY <1>1 DEF Start, Line, TypeOK
    <3> QED
      BY <1>1, <3>1 DEF Start, TypeOK, callVars
  <2>3. RunningInv'
    <3>1. trace'[Len(trace')].term = current' /\ current' \in Terms /\ ~hitLimit'
      BY <1>1 DEF Start, Line, TypeOK, StartInv, callVars
    <3> QED
      BY <1>1, <2>1, <3>1 DEF Start, RunningInv
  <2>4. StartInv' /\ DoneInv'
    BY <1>1 DEF Start, StartInv, DoneInv
  <2> QED
    BY <2>2, <2>3, <2>4
<1>2. CASE StartFails
  BY <1>0, <1>2, GiveUpInv DEF StartFails, OutOfMemory
<1>3. CASE Advance
  BY <1>3, TurnInv, OutcomesDistinct
  DEF Advance, InLoop, StepResult, ErrAfterStep, TypeOK
<1>4. CASE AdvanceTraced
  BY <1>4, TurnInv, OutcomesDistinct
  DEF AdvanceTraced, InLoop, StepResult, ErrAfterStep, TypeOK
<1>5. CASE RenderFails
  BY <1>0, <1>5, GiveUpInv DEF RenderFails, OutOfMemory
<1>6. CASE StepStarvedElsewhere
  BY <1>6, TurnInv DEF StepStarvedElsewhere, InLoop
<1>7. CASE StepStarvedSilently
  <2>1. TypeOK'
    BY <1>7 DEF StepStarvedSilently, TypeOK, callVars
  <2>2. ChainInv' /\ FlagInv'
    BY <1>7 DEF StepStarvedSilently, RunningInv, ChainInv, FlagInv, callVars,
                Promise!IsNumbered
  <2>3. StartInv' /\ RunningInv' /\ DoneInv'
    BY <1>7, <2>2 DEF StepStarvedSilently, StartInv, RunningInv, DoneInv, callVars
  <2> QED
    BY <2>1, <2>3
<1>8. CASE StepStarvedLoudly
  BY <1>0, <1>8, GiveUpInv DEF StepStarvedLoudly, OutOfMemory
<1>9. CASE Stop
  <2>1. TypeOK'
    BY <1>9 DEF Stop, TypeOK, callVars, ErrAfterStep
  <2>2. ChainInv' /\ FlagInv'
    BY <1>9, OutcomesDistinct
    DEF Stop, InLoop, StepResult, RunningInv, ChainInv, FlagInv, callVars,
        Promise!IsNumbered, Promise!IsFaithful
  <2>3. ~err'
    BY <1>9, OutcomesDistinct DEF Stop, ErrAfterStep
  <2>4. StartInv' /\ RunningInv' /\ DoneInv'
    BY <1>9, <2>2, <2>3 DEF Stop, InLoop, StartInv, RunningInv, DoneInv, callVars
  <2> QED
    BY <2>1, <2>4
<1>10. CASE StepFails
  <2>1. Len(trace) - 1 <= maxSteps /\ current = trace[Len(trace)].term
    BY <1>0, <1>10 DEF StepFails, InLoop, RunningInv, ChainInv
  <2>2. starved \/ /\ Promise!IsNumbered(trace, input)
                   /\ Promise!IsFaithful(trace)
    BY <1>10 DEF StepFails, InLoop, RunningInv, ChainInv
  <2>3. err' = TRUE /\ stepOf[current] = Failed /\ starved' = starved /\ starved \in BOOLEAN
    BY <1>0, <1>10 DEF StepFails, StepResult, ErrAfterStep, TypeOK
  <2> QED
    BY <1>0, <1>10, <2>1, <2>2, <2>3, GiveUpInv DEF StepFails
<1>11. CASE LimitReached
  <2>1. TypeOK'
    BY <1>11 DEF LimitReached, TypeOK, callVars
  <2>2. ChainInv'
    BY <1>11 DEF LimitReached, RunningInv, ChainInv, callVars,
                 Promise!IsNumbered, Promise!IsFaithful
  <2>3. StartInv' /\ RunningInv' /\ DoneInv'
    BY <1>11, <2>2 DEF LimitReached, StartInv, RunningInv, DoneInv, callVars
  <2> QED
    BY <2>1, <2>3
<1>12. CASE Probe
  <2>1. TypeOK'
    BY <1>12 DEF Probe, TypeOK, callVars, ErrAfterStep
  <2>2. current \in Terms /\ stepOf[current] \in Terms \cup {Normal}
    BY <1>12 DEF Probe, StepResult, RunningInv, TypeOK, Outcomes
  <2>3. ChainInv' /\ FlagInv'
    BY <1>12, <2>2
    DEF Probe, StepResult, RunningInv, ChainInv, FlagInv, callVars,
        Promise!IsNumbered, Promise!IsFaithful
  <2>4. ~err'
    BY <1>12 DEF Probe, ErrAfterStep
  <2>5. StartInv' /\ RunningInv' /\ DoneInv'
    BY <1>12, <2>3, <2>4 DEF Probe, StartInv, RunningInv, DoneInv, callVars
  <2> QED
    BY <2>1, <2>5
<1>13. CASE ReturnToEval
  BY <1>0, <1>13, ReturnInv DEF ReturnToEval, TypeOK
<1>14. CASE ReturnToApplied
  BY <1>14, ReturnInv DEF ReturnToApplied
<1>15. CASE ReturnToClone
  BY <1>15, ReturnInv DEF ReturnToClone
<1>16. CASE RefuseUnfinished
  <2>1. Len(trace) - 1 = maxSteps /\ Len(trace) - 1 <= maxSteps /\ current = trace[Len(trace)].term
    BY <1>0, <1>16 DEF RefuseUnfinished, RunningInv, ChainInv, FlagInv
  <2>2. starved \/ /\ Promise!IsNumbered(trace, input)
                   /\ Promise!IsFaithful(trace)
                   /\ stepOf[current] \in Terms
    BY <1>16 DEF RefuseUnfinished, RunningInv, ChainInv, FlagInv
  <2>3. starved' = starved /\ starved \in BOOLEAN
    BY <1>0, <1>16 DEF RefuseUnfinished, TypeOK
  <2> QED
    BY <1>0, <1>16, <2>1, <2>2, <2>3, GiveUpInv DEF RefuseUnfinished
<1>17. CASE UNCHANGED vars
  <2>1. TypeOK' /\ StartInv'
    BY <1>17 DEF vars, TypeOK, StartInv
  <2>2. RunningInv'
    BY <1>17 DEF vars, RunningInv, ChainInv, FlagInv, Promise!IsNumbered, Promise!IsFaithful
  <2>3. DoneInv'
    BY <1>17 DEF vars, DoneInv, Promise!Success, Promise!Failure, Promise!IsNumbered,
                 Promise!IsFaithful, Promise!LastTerm, Promise!HasStep
  <2> QED
    BY <2>1, <2>2, <2>3
<1> QED
  BY <1>1, <1>2, <1>3, <1>4, <1>5, <1>6, <1>7, <1>8, <1>9, <1>10, <1>11, <1>12,
     <1>13, <1>14, <1>15, <1>16, <1>17
  DEF Next

-----------------------------------------------------------------------------
(* The strengthened invariant holds of every reduction call, whatever the  *)
(* step function, the limit and the caller.                                *)
THEOREM Invariance == Spec => []IInv
  BY InitInv, NextInv, PTL DEF Spec

(* Every variable keeps its type.                                          *)
THEOREM TypeCorrect == Spec => []TypeOK
<1>1. IInv => TypeOK
  BY DEF IInv
<1> QED
  BY <1>1, Invariance, PTL

(* A successful call that reports no limit returned a normal form, for any *)
(* caller that can be told of one.                                         *)
THEOREM UnflaggedResultsAreNormal == Spec => []UnflaggedIsNormal
<1>1. IInv => UnflaggedIsNormal
  BY DEF IInv, DoneInv, UnflaggedIsNormal, Succeeded, Promise!Success
<1> QED
  BY <1>1, Invariance, PTL

(* The step-limit warning is raised only for a reduction that goes on.     *)
THEOREM FlaggedResultsGoOn == Spec => []FlaggedGoesOn
<1>1. IInv => FlaggedGoesOn
  BY DEF IInv, DoneInv, FlaggedGoesOn, Succeeded, Promise!Success, Promise!HasStep
<1> QED
  BY <1>1, Invariance, PTL

(* A call fails only for a cause of its own.                               *)
THEOREM ErrorsAreOwn == Spec => []ErrorIsOwn
<1>1. IInv => ErrorIsOwn
  BY DEF IInv, DoneInv, ErrorIsOwn, Promise!Failure, Promise!LastTerm, Promise!HasStep
<1> QED
  BY <1>1, Invariance, PTL

(* The printed trace is the reduction, step by step.                       *)
THEOREM TracesAreReductions == Spec => []TraceIsReduction
<1>1. IInv => TraceIsReduction
  <2> SUFFICES ASSUME IInv, Succeeded, ~starved
               PROVE  /\ trace[1].term = input
                      /\ trace[Len(trace)] = Line(answer.steps, answer.term)
                      /\ \A i \in 1..(Len(trace) - 1) :
                            /\ trace[i + 1].label = trace[i].label + 1
                            /\ trace[i + 1].term = stepOf[trace[i].term]
    BY DEF TraceIsReduction
  <2>1. /\ Promise!IsNumbered(trace, input)
        /\ Promise!IsFaithful(trace)
        /\ answer.term = trace[Len(trace)].term
        /\ answer.steps = Len(trace) - 1
    BY DEF IInv, DoneInv, Succeeded, Promise!Success, Promise!LastTerm
  <2>2. trace \in Seq(Lines) /\ Len(trace) \in Nat /\ Len(trace) > 0
    BY <2>1 DEF IInv, TypeOK, Lines, Promise!IsNumbered
  <2>3. trace[1].term = input
    BY <2>1 DEF Promise!IsNumbered
  <2>4. trace[Len(trace)] = Line(answer.steps, answer.term)
    <3>1. trace[Len(trace)] \in Lines
      BY <2>2
    <3>2. trace[Len(trace)].label = answer.steps
      BY <2>1, <2>2 DEF Promise!IsNumbered
    <3> QED
      BY <2>1, <3>1, <3>2 DEF Lines, Line
  <2>5. ASSUME NEW i \in 1..(Len(trace) - 1)
        PROVE  /\ trace[i + 1].label = trace[i].label + 1
               /\ trace[i + 1].term = stepOf[trace[i].term]
    <3>1. trace[i + 1].label = (i + 1) - 1 /\ trace[i].label = i - 1
      BY <2>1, <2>2, <2>5 DEF Promise!IsNumbered
    <3> QED
      BY <2>1, <2>5, <3>1 DEF Promise!IsFaithful
  <2> QED
    BY <2>3, <2>4, <2>5
<1> QED
  BY <1>1, Invariance, PTL

(* The loop implements the one-shot promise: the step that returns maps to *)
(* Give, every other step to a stutter.                                    *)
THEOREM Refinement == Spec => ImplementsPromise
<1>1. Init => Promise!AbsInit
  BY DEF Init, Promise!AbsInit, Outcomes, Callers, Promise!Outcomes, Promise!Callers
<1>2. IInv /\ IInv' /\ [Next]_vars => [Promise!Give]_(Promise!absVars)
  <2> SUFFICES ASSUME IInv, IInv', [Next]_vars
               PROVE  Promise!Give \/ UNCHANGED Promise!absVars
    OBVIOUS
  <2>1. UNCHANGED <<stepOf, input, maxSteps, caller>>
    BY DEF Next, vars, callVars, Start, StartFails, Advance, AdvanceTraced, RenderFails,
           StepStarvedElsewhere, StepStarvedSilently, StepStarvedLoudly, Stop, StepFails,
           LimitReached, Probe, ReturnToEval, ReturnToApplied, ReturnToClone,
           RefuseUnfinished, OutOfMemory, GiveUp
  <2>2. pc = "done" => UNCHANGED vars
    BY DEF Next, vars, Start, StartFails, Advance, AdvanceTraced, RenderFails, InLoop,
           StepStarvedElsewhere, StepStarvedSilently, StepStarvedLoudly, Stop, StepFails,
           LimitReached, Probe, ReturnToEval, ReturnToApplied, ReturnToClone,
           RefuseUnfinished
  <2>3. CASE pc' # "done"
    <3>1. answer = NoAnswer /\ answer' = NoAnswer
      BY <2>2, <2>3 DEF IInv, DoneInv, vars
    <3> QED
      BY <2>1, <3>1 DEF Promise!absVars
  <2>4. CASE pc = "done"
    BY <2>2, <2>4 DEF vars, Promise!absVars
  <2>5. CASE pc # "done" /\ pc' = "done"
    <3>1. answer = NoAnswer /\ answer' # NoAnswer
      BY <2>5, NullsDistinct DEF IInv, DoneInv, Answers
    <3>2. IF answer'.ok THEN Promise!Success(trace, starved, answer)'
                        ELSE Promise!Failure(trace, starved, answer)'
      BY <2>5 DEF IInv, DoneInv
    <3>3. starved' \in BOOLEAN
      BY DEF IInv, TypeOK
    <3>4. Promise!Give
      BY <2>1, <3>1, <3>2, <3>3
      DEF Promise!Give, Promise!Success, Promise!Failure, Promise!IsNumbered,
          Promise!IsFaithful, Promise!LastTerm, Promise!HasStep
    <3> QED
      BY <3>4
  <2> QED
    BY <2>3, <2>4, <2>5
<1> QED
  BY <1>1, <1>2, Invariance, PTL DEF Spec, ImplementsPromise, Promise!AbsSpec


-----------------------------------------------------------------------------
(* How many more steps the call can take: the turns that the limit leaves  *)
(* it, the probe, the return.                                              *)
StepsLeft ==
    CASE pc = "start"  -> maxSteps + 4
      [] pc = "loop"   -> (maxSteps - steps) + 3
      [] pc = "probe"  -> 2
      [] pc = "finish" -> 1
      [] OTHER         -> 0

(* interp.c:791, ls.c:1120: no reduction goes on for ever, not even that   *)
(* of a term without a normal form.  Whatever the step function, the limit *)
(* and the allocations that fail, every step of the call lowers a number   *)
(* that is at most four more than the limit.  This is what Terminates      *)
(* needs beyond the fairness of the call.                                  *)
THEOREM EveryStepNearsTheReturn ==
    Spec => /\ [](StepsLeft \in 0..(maxSteps + 4))
            /\ [][StepsLeft' < StepsLeft]_vars
<1>1. IInv => StepsLeft \in 0..(maxSteps + 4)
  <2> SUFFICES ASSUME IInv
               PROVE  StepsLeft \in 0..(maxSteps + 4)
    OBVIOUS
  <2>1. maxSteps \in Nat /\ steps \in Nat
    BY LimitsAssumption DEF IInv, TypeOK
  <2>2. pc = "loop" => steps <= maxSteps
    BY DEF IInv, RunningInv, ChainInv
  <2> QED
    BY <2>1, <2>2 DEF StepsLeft
<1>2. IInv /\ [Next]_vars => [StepsLeft' < StepsLeft]_vars
  <2> SUFFICES ASSUME IInv, Next
               PROVE  StepsLeft' < StepsLeft
    OBVIOUS
  <2>1. maxSteps \in Nat /\ steps \in Nat /\ maxSteps' = maxSteps
    BY LimitsAssumption
    DEF IInv, TypeOK, Next, Start, StartFails, Advance, AdvanceTraced, RenderFails,
        StepStarvedElsewhere, StepStarvedSilently, StepStarvedLoudly, Stop, StepFails,
        LimitReached, Probe, ReturnToEval, ReturnToApplied, ReturnToClone, RefuseUnfinished,
        OutOfMemory, GiveUp, callVars
  <2>2. pc = "start" => steps = 0
    BY DEF IInv, StartInv
  <2>3. CASE Start
    BY <2>1, <2>2, <2>3 DEF Start, StepsLeft
  <2>4. CASE Advance \/ AdvanceTraced \/ StepStarvedElsewhere
    <3>1. pc = "loop" /\ pc' = "loop" /\ steps < maxSteps /\ steps' = steps + 1
      BY <2>4 DEF Advance, AdvanceTraced, StepStarvedElsewhere, InLoop
    <3> QED
      BY <2>1, <3>1 DEF StepsLeft
  <2>5. CASE LimitReached
    BY <2>1, <2>5 DEF LimitReached, StepsLeft
  <2>6. CASE StepStarvedSilently \/ Stop \/ Probe
    <3>1. /\ pc \in {"loop", "probe"} /\ pc' = "finish"
          /\ pc = "loop" => steps < maxSteps
      BY <2>6 DEF StepStarvedSilently, Stop, Probe, InLoop
    <3> QED
      BY <2>1, <3>1 DEF StepsLeft
  <2>7. CASE StartFails \/ RenderFails \/ StepStarvedLoudly \/ StepFails
    <3>1. /\ pc \in {"start", "loop", "probe"} /\ pc' = "done"
          /\ pc = "loop" => steps < maxSteps
      BY <2>7
      DEF StartFails, RenderFails, StepStarvedLoudly, StepFails, OutOfMemory, GiveUp, InLoop
    <3> QED
      BY <2>1, <3>1 DEF StepsLeft
  <2>8. CASE ReturnToEval \/ ReturnToApplied \/ ReturnToClone \/ RefuseUnfinished
    <3>1. pc = "finish" /\ pc' = "done"
      BY <2>8 DEF ReturnToEval, ReturnToApplied, ReturnToClone, RefuseUnfinished, GiveUp
    <3> QED
      BY <3>1 DEF StepsLeft
  <2> QED
    BY <2>3, <2>4, <2>5, <2>6, <2>7, <2>8 DEF Next
<1> QED
  BY Invariance, <1>1, <1>2, PTL DEF Spec
=============================================================================
