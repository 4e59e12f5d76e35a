------------------------- MODULE Evaluation_proofs -------------------------
(***************************************************************************)
(* Proofs about the embedding interface, for any number of ls_Result       *)
(* objects, calls and limits, and for a caller that frees and calls in any *)
(* order.                                                                  *)
(***************************************************************************)
EXTENDS Evaluation, TLAPS

(* No number of a call is used before the call has begun, and while it     *)
(* runs its result is empty.                                               *)
Past ==
    \A o \in Objects : result[o].output <= calls /\ result[o].trace <= calls

Running ==
    phase # "idle" =>
        /\ calls # 0
        /\ result[target].output = 0
        /\ result[target].trace = 0
        /\ \A o \in Objects : result[o].output < calls /\ result[o].trace < calls

(* The local pointer trace is set between the reduction and the end.       *)
HeldTrace ==
    /\ phase # "render" => held = 0
    /\ phase = "render" => held = (IF options.trace THEN calls ELSE 0)

Reduced ==
    phase = "render" =>
        /\ ~errUp
        /\ result[target].steps <= options.limit
        /\ result[target].limited => result[target].steps = options.limit

(* The buffer holds a message of a call that has begun; of an earlier one  *)
(* when a call has just begun.                                             *)
Message ==
    /\ errText <= calls
    /\ phase = "import" => errText < calls

IInv ==
    /\ ApiTypeOK
    /\ BlocksHaveOneOwner
    /\ Past /\ Running /\ HeldTrace /\ Reduced /\ Message
    /\ MessageIsOfLastCall
    /\ ResultIsOfLastCall

-----------------------------------------------------------------------------
(* Which blocks an object owns, and when two own none in common.           *)
LEMMA OwnedIs ==
    ASSUME NEW r, NEW b
    PROVE  b \in Owned(r) <=> \/ r.output # 0 /\ b = <<"output", r.output>>
                              \/ r.trace # 0 /\ b = <<"trace", r.trace>>
  BY DEF Owned, Outputs, Traces

LEMMA TracesAre ==
    ASSUME NEW n, NEW b
    PROVE  b \in Traces(n) <=> n # 0 /\ b = <<"trace", n>>
  BY DEF Traces

LEMMA ApartIs ==
    ASSUME NEW r, NEW s,
           r.output # 0 => s.output # r.output,
           r.trace # 0 => s.trace # r.trace
    PROVE  Owned(r) \cap Owned(s) = {} /\ Owned(s) \cap Owned(r) = {}
  <1>1. \A b \in Owned(r) : b \notin Owned(s)
    <2> TAKE b \in Owned(r)
    <2>1. CASE r.output # 0 /\ b = <<"output", r.output>>
      BY <2>1, OwnedIs
    <2>2. CASE r.trace # 0 /\ b = <<"trace", r.trace>>
      BY <2>2, OwnedIs
    <2> QED
      BY <2>1, <2>2, OwnedIs
  <1> QED
    BY <1>1

LEMMA ApartFromTraces ==
    ASSUME NEW r, NEW n, n # 0 => r.trace # n
    PROVE  Owned(r) \cap Traces(n) = {}
  <1>1. \A b \in Traces(n) : b \notin Owned(r)
    BY OwnedIs, TracesAre
  <1> QED
    BY <1>1

(* The limits are numbers, and so is every count up to one.                *)
LEMMA LimitsAreNumbers == \A p \in Options : p.limit \in Nat /\ p.trace \in BOOLEAN
  BY StepLimitsAssumption DEF Options

LEMMA InitHolds == ApiInit => IInv
  <1> SUFFICES ASSUME ApiInit PROVE IInv
    OBVIOUS
  <1>1. \A o \in Objects : Owned(result[o]) = {}
    BY DEF ApiInit, EmptyResult, Owned, Outputs, Traces
  <1>2. Traces(held) = {}
    BY DEF ApiInit, Traces
  <1>3. BlocksHaveOneOwner
    BY <1>1, <1>2 DEF BlocksHaveOneOwner, ApiInit
  <1>4. result \in [Objects -> Results] /\ options \in Options
    BY MaxCallsAssumption, StepLimitsAssumption
    DEF ApiInit, Results, EmptyResult, Options, DefaultOptions, Calls
  <1>5. ApiTypeOK
    <2>1. 0 \in Calls
      BY MaxCallsAssumption DEF Calls
    <2>2. phase \in Phases /\ verdict \in Verdicts /\ (phase # "idle" <=> verdict = "running")
      BY DEF ApiInit, Phases, Verdicts
    <2> QED
      BY <1>4, <2>1, <2>2, ObjectsAssumption DEF ApiTypeOK, ApiInit
  <1> QED
    BY <1>3, <1>5, ObjectsAssumption
    DEF IInv, ApiInit, Past, Running, HeldTrace, Reduced, Message, MessageIsOfLastCall,
        ResultIsOfLastCall, EmptyResult

-----------------------------------------------------------------------------
(* What the actions do to the blocks.                                      *)
LEMMA UntouchedKeepsBlocks ==
    ASSUME IInv, UNCHANGED <<result, blocks, held>>
    PROVE  BlocksHaveOneOwner'
  BY DEF IInv, BlocksHaveOneOwner

(* An object's blocks freed, by its owner or when a call begins.           *)
LEMMA EmptyingKeepsBlocks ==
    ASSUME IInv, NEW o \in Objects,
           result' = [result EXCEPT ![o] = EmptyResult],
           blocks' = blocks \ Owned(result[o]),
           held' = held
    PROVE  BlocksHaveOneOwner'
  <1>1. result \in [Objects -> Results] /\ BlocksHaveOneOwner
    BY DEF IInv, ApiTypeOK
  <1>2. /\ Owned(result'[o]) = {}
        /\ \A p \in Objects \ {o} : Owned(result'[p]) = Owned(result[p])
    BY <1>1 DEF EmptyResult, Owned, Outputs, Traces
  <1>3. /\ Owned(result[o]) \cap Traces(held) = {}
        /\ \A p \in Objects \ {o} : Owned(result[o]) \cap Owned(result[p]) = {}
    BY <1>1 DEF BlocksHaveOneOwner
  <1>4. blocks = (UNION {Owned(result[p]) : p \in Objects}) \cup Traces(held)
    BY <1>1 DEF BlocksHaveOneOwner
  <1>5. blocks' = (UNION {Owned(result'[p]) : p \in Objects}) \cup Traces(held')
    BY <1>2, <1>3, <1>4
  <1>6. ASSUME NEW p \in Objects
        PROVE  /\ Owned(result'[p]) \cap Traces(held') = {}
               /\ \A q \in Objects \ {p} : Owned(result'[p]) \cap Owned(result'[q]) = {}
    <2>1. /\ Owned(result[p]) \cap Traces(held) = {}
          /\ \A q \in Objects \ {p} : Owned(result[p]) \cap Owned(result[q]) = {}
      BY <1>1 DEF BlocksHaveOneOwner
    <2> QED
      BY <1>2, <2>1
  <1> QED
    BY <1>5, <1>6 DEF BlocksHaveOneOwner

(* A phase that fails frees the local trace.                               *)
LEMMA FailingKeepsBlocks ==
    ASSUME IInv, NEW how, Fail(how)
    PROVE  BlocksHaveOneOwner'
  <1>1. BlocksHaveOneOwner
    BY DEF IInv
  <1>2. Traces(held') = {}
    BY DEF Fail, Traces
  <1>3. blocks = (UNION {Owned(result[o]) : o \in Objects}) \cup Traces(held)
    BY <1>1 DEF BlocksHaveOneOwner
  <1>4. \A o \in Objects : /\ Owned(result[o]) \cap Traces(held) = {}
                           /\ \A p \in Objects \ {o} : Owned(result[o]) \cap Owned(result[p]) = {}
    BY <1>1 DEF BlocksHaveOneOwner
  <1>5. result' = result /\ blocks' = blocks \ Traces(held)
    BY DEF Fail
  <1>6. blocks' = (UNION {Owned(result'[o]) : o \in Objects}) \cup Traces(held')
    BY <1>2, <1>3, <1>4, <1>5
  <1> QED
    BY <1>2, <1>4, <1>5, <1>6 DEF BlocksHaveOneOwner

(* The reduction allocates a trace, or none.                               *)
LEMMA ReducingKeepsBlocks ==
    ASSUME IInv, Reduce
    PROVE  BlocksHaveOneOwner'
  <1>1. /\ result \in [Objects -> Results] /\ target \in Objects
        /\ BlocksHaveOneOwner /\ phase = "reduce" /\ held = 0
    BY DEF IInv, ApiTypeOK, HeldTrace, Reduce, Goes
  <1>2. /\ calls # 0 /\ calls \in Nat
        /\ \A o \in Objects : result[o].trace < calls
    BY <1>1 DEF IInv, Running, ApiTypeOK, Calls
  <1>3. PICK n \in 0..options.limit, cut \in BOOLEAN :
            result' = [result EXCEPT ![target].steps = n, ![target].limited = cut]
    BY DEF Reduce
  <1>4. \A o \in Objects : result'[o].output = result[o].output /\ result'[o].trace = result[o].trace
    BY <1>1, <1>3 DEF Results
  <1>5. \A o \in Objects : Owned(result'[o]) = Owned(result[o])
    BY <1>4 DEF Owned, Outputs
  <1>6. Traces(held) = {}
    BY <1>1 DEF Traces
  <1>7. blocks = UNION {Owned(result[o]) : o \in Objects}
    BY <1>1, <1>6 DEF BlocksHaveOneOwner
  <1>8. blocks' = (UNION {Owned(result'[o]) : o \in Objects}) \cup Traces(held')
    BY <1>5, <1>7 DEF Reduce
  <1>9. held' \in {0, calls}
    BY DEF Reduce
  <1>10. \A o \in Objects : Owned(result'[o]) \cap Traces(held') = {}
    <2> TAKE o \in Objects
    <2>1. held' # 0 => result'[o].trace # held'
      <3>1. result[o].trace \in Nat
        BY <1>1 DEF Results, Calls
      <3> QED
        BY <1>2, <1>4, <1>9, <3>1
    <2> QED
      BY <2>1, ApartFromTraces
  <1>11. \A o \in Objects : \A p \in Objects \ {o} : Owned(result'[o]) \cap Owned(result'[p]) = {}
    BY <1>1, <1>5 DEF BlocksHaveOneOwner
  <1> QED
    BY <1>8, <1>10, <1>11 DEF BlocksHaveOneOwner

(* The result takes the output and the trace over.                         *)
LEMMA RenderingKeepsBlocks ==
    ASSUME IInv, Render
    PROVE  BlocksHaveOneOwner'
  <1>1. /\ result \in [Objects -> Results] /\ target \in Objects
        /\ BlocksHaveOneOwner /\ phase = "render" /\ calls \in Nat
    BY DEF IInv, ApiTypeOK, Render, Goes, Calls
  <1>2. /\ calls # 0
        /\ result[target].output = 0 /\ result[target].trace = 0
        /\ \A o \in Objects : result[o].output < calls /\ result[o].trace < calls
    BY <1>1 DEF IInv, Running
  <1>3. held \in {0, calls}
    BY <1>1 DEF IInv, HeldTrace
  <1>4. /\ result' = [result EXCEPT ![target].output = calls, ![target].trace = held]
        /\ blocks' = blocks \cup {<<"output", calls>>}
        /\ held' = 0
    BY DEF Render
  <1>5. /\ result'[target].output = calls /\ result'[target].trace = held
        /\ \A o \in Objects \ {target} : result'[o] = result[o]
    BY <1>1, <1>4 DEF Results
  <1>6. Owned(result[target]) = {} /\ Traces(held') = {}
    BY <1>2, <1>4 DEF Owned, Outputs, Traces
  <1>7. Owned(result'[target]) = {<<"output", calls>>} \cup Traces(held)
    BY <1>2, <1>5 DEF Owned, Outputs
  <1>8. \A o \in Objects \ {target} : Owned(result'[o]) = Owned(result[o])
    BY <1>5
  <1>9. blocks = (UNION {Owned(result[o]) : o \in Objects}) \cup Traces(held)
    BY <1>1 DEF BlocksHaveOneOwner
  <1>10. blocks' = (UNION {Owned(result'[o]) : o \in Objects}) \cup Traces(held')
    BY <1>1, <1>4, <1>6, <1>7, <1>8, <1>9
  <1>11. \A o \in Objects \ {target} : /\ Owned(result'[o]) \cap Owned(result'[target]) = {}
                                       /\ Owned(result'[target]) \cap Owned(result'[o]) = {}
    <2> TAKE o \in Objects \ {target}
    <2>1. result[o].output \in Nat /\ result[o].trace \in Nat
      BY <1>1 DEF Results, Calls
    <2>2. result'[o].output # calls /\ (held # 0 => result'[o].trace # held)
      BY <1>1, <1>2, <1>3, <1>5, <2>1
    <2> QED
      <3>1. /\ result'[target].output # 0 => result'[o].output # result'[target].output
            /\ result'[target].trace # 0 => result'[o].trace # result'[target].trace
        BY <1>5, <2>2
      <3> QED
        BY <3>1, ApartIs
  <1>12. \A o, p \in Objects \ {target} : o # p => Owned(result'[o]) \cap Owned(result'[p]) = {}
    BY <1>1, <1>8 DEF BlocksHaveOneOwner
  <1> QED
    BY <1>6, <1>10, <1>11, <1>12 DEF BlocksHaveOneOwner

-----------------------------------------------------------------------------
(* The rest of the invariant, an action at a time.                         *)
CallNumbers  == Past /\ Running /\ HeldTrace /\ Reduced /\ Message
Promises == MessageIsOfLastCall /\ ResultIsOfLastCall

(* What the types say of the numbers.                                      *)
LEMMA Typed ==
    ASSUME ApiTypeOK
    PROVE  /\ calls \in Nat /\ errText \in Nat /\ held \in Nat
           /\ options.limit \in Nat
           /\ \A o \in Objects : /\ result[o] \in Results
                                 /\ result[o].output \in Nat
                                 /\ result[o].trace \in Nat
                                 /\ result[o].steps \in Nat
  BY LimitsAreNumbers DEF ApiTypeOK, Results, Calls

LEMMA EmptyIsResult == EmptyResult \in Results
  BY MaxCallsAssumption DEF EmptyResult, Results, Calls

LEMMA FreeResultKeeps ==
    ASSUME IInv, NEW o \in Objects, FreeResult(o)
    PROVE  IInv'
  <1> USE DEF FreeResult
  <1>1. ApiTypeOK /\ CallNumbers /\ Promises
    BY DEF IInv, CallNumbers, Promises
  <1>2. /\ result'[o] = EmptyResult
        /\ \A p \in Objects \ {o} : result'[p] = result[p]
    BY <1>1 DEF ApiTypeOK
  <1>3. ApiTypeOK'
    BY <1>1, EmptyIsResult DEF ApiTypeOK, Verdicts
  <1>4. CallNumbers'
    <2>1. Past'
      BY <1>1, <1>2, Typed DEF CallNumbers, Past, EmptyResult
    <2> QED
      BY <1>1, <2>1 DEF CallNumbers, Running, HeldTrace, Reduced, Message
  <1>5. Promises'
    <2>1. MessageIsOfLastCall'
      BY <1>1 DEF Promises, MessageIsOfLastCall, ErrMsg
    <2>2. CASE o = target
      BY <1>1, <1>2, <2>1, <2>2 DEF Promises, ResultIsOfLastCall, EmptyResult
    <2>3. CASE o # target
      <3>1. result'[target'] = result[target] /\ verdict' = verdict
        BY <1>1, <1>2, <2>3 DEF ApiTypeOK
      <3> QED
        BY <1>1, <2>1, <3>1 DEF Promises, ResultIsOfLastCall
    <2> QED
      BY <2>2, <2>3
  <1>6. BlocksHaveOneOwner'
    BY EmptyingKeepsBlocks
  <1> QED
    BY <1>3, <1>4, <1>5, <1>6 DEF IInv, CallNumbers, Promises

LEMMA RefuseKeeps ==
    ASSUME IInv, NEW o \in Objects, NEW opts \in Options, Refuse(o, opts)
    PROVE  IInv'
  <1> USE DEF Refuse, CanCall, ErrSet
  <1>1. ApiTypeOK /\ CallNumbers /\ Promises
    BY DEF IInv, CallNumbers, Promises
  <1>2. calls' \in Calls /\ calls' = calls + 1
    BY <1>1, MaxCallsAssumption DEF ApiTypeOK, Calls
  <1>3. ApiTypeOK'
    BY <1>1, <1>2 DEF ApiTypeOK, Verdicts
  <1>4. CallNumbers'
    BY <1>1, <1>2, Typed DEF CallNumbers, Past, Running, HeldTrace, Reduced, Message
  <1>5. Promises'
    BY DEF Promises, MessageIsOfLastCall, ErrMsg, ResultIsOfLastCall
  <1>6. BlocksHaveOneOwner'
    BY UntouchedKeepsBlocks
  <1> QED
    BY <1>3, <1>4, <1>5, <1>6 DEF IInv, CallNumbers, Promises

LEMMA BeginKeeps ==
    ASSUME IInv, NEW o \in Objects, NEW opts \in Options, Begin(o, opts)
    PROVE  IInv'
  <1> USE DEF Begin, CanCall
  <1>1. ApiTypeOK /\ CallNumbers
    BY DEF IInv, CallNumbers
  <1>2. calls' \in Calls /\ calls' = calls + 1
    BY <1>1, MaxCallsAssumption DEF ApiTypeOK, Calls
  <1>3. ApiTypeOK'
    BY <1>1, <1>2, EmptyIsResult DEF ApiTypeOK, Verdicts, Phases
  <1>4. /\ result'[o] = EmptyResult
        /\ \A p \in Objects \ {o} : result'[p] = result[p]
    BY <1>1 DEF ApiTypeOK
  <1>5. \A p \in Objects : result'[p].output < calls' /\ result'[p].trace < calls'
    BY <1>1, <1>2, <1>4, Typed DEF CallNumbers, Past, EmptyResult
  <1>6. \A p \in Objects : result'[p].output \in Nat /\ result'[p].trace \in Nat
    BY <1>3 DEF ApiTypeOK, Results, Calls
  <1>7. CallNumbers'
    <2>1. Past' /\ Running'
      BY <1>1, <1>2, <1>4, <1>5, <1>6, Typed DEF Past, Running, EmptyResult
    <2>2. HeldTrace' /\ Reduced' /\ Message'
      BY <1>1, <1>2, Typed DEF CallNumbers, HeldTrace, Reduced, Message
    <2> QED
      BY <2>1, <2>2 DEF CallNumbers
  <1>8. Promises'
    BY DEF Promises, MessageIsOfLastCall, ResultIsOfLastCall
  <1>9. BlocksHaveOneOwner'
    BY EmptyingKeepsBlocks
  <1> QED
    BY <1>3, <1>7, <1>8, <1>9 DEF IInv, CallNumbers, Promises

(* The phases that allocate nothing: import, merge, scan, parse, lower.    *)
LEMMA QuietPhasesKeep ==
    ASSUME IInv, Import \/ Merge \/ Scan \/ Parse \/ Lower
    PROVE  IInv'
  <1> USE DEF Import, Merge, Scan, Parse, Lower, Goes, Kept, ErrSet, ErrClear
  <1>1. ApiTypeOK /\ CallNumbers
    BY DEF IInv, CallNumbers
  <1>2. /\ UNCHANGED <<result, blocks, held, verdict, target, options, calls>>
        /\ phase' \in {"merge", "scan", "parse", "lower", "reduce"}
        /\ phase # "idle" /\ phase # "render"
    OBVIOUS
  <1>3. errText' \in Calls /\ errUp' \in BOOLEAN /\ errText' <= calls
    <2>1. 0 \in Calls /\ 0 <= calls /\ calls <= calls
      BY <1>1, MaxCallsAssumption, Typed DEF Calls
    <2>2. \/ errText' = errText /\ errUp' = errUp
          \/ errText' = 0 /\ errUp' = FALSE
          \/ errText' = calls /\ errUp' = TRUE
      OBVIOUS
    <2>3. /\ errText \in Calls /\ errUp \in BOOLEAN /\ calls \in Calls
          /\ errText <= calls
      BY <1>1 DEF CallNumbers, Message, ApiTypeOK
    <2> QED
      BY <2>1, <2>2, <2>3
  <1>4. ApiTypeOK'
    BY <1>1, <1>2, <1>3 DEF ApiTypeOK, Phases
  <1>5. CallNumbers'
    BY <1>1, <1>2, <1>3 DEF CallNumbers, Past, Running, HeldTrace, Reduced, Message
  <1>6. Promises'
    BY <1>1, <1>2 DEF ApiTypeOK, Promises, MessageIsOfLastCall, ResultIsOfLastCall
  <1>7. BlocksHaveOneOwner'
    BY <1>2, UntouchedKeepsBlocks
  <1> QED
    BY <1>4, <1>5, <1>6, <1>7 DEF IInv, CallNumbers, Promises

LEMMA FailuresKeep ==
    ASSUME IInv, FailWithMessage \/ FailMutely
    PROVE  IInv'
  <1> USE DEF FailWithMessage, FailMutely, Fail, Kept, ErrSet
  <1>1. ApiTypeOK /\ CallNumbers
    BY DEF IInv, CallNumbers
  <1>2. PICK how \in {"failed", "mute"} : Fail(how)
    OBVIOUS
  <1>3. blocks' \subseteq blocks /\ held' = 0
    BY <1>2
  <1>4. ApiTypeOK'
    <2>1. 0 \in Calls
      BY MaxCallsAssumption DEF Calls
    <2>2. errUp' \in BOOLEAN /\ errText' \in Calls
      BY <1>1 DEF ApiTypeOK
    <2>3. phase' \in Phases /\ verdict' \in Verdicts /\ (phase' # "idle" <=> verdict' = "running")
      BY <1>2 DEF Phases, Verdicts
    <2>4. UNCHANGED <<result, target, options, calls>>
      BY <1>2
    <2> QED
      BY <1>1, <1>3, <2>1, <2>2, <2>3, <2>4 DEF ApiTypeOK
  <1>5. CallNumbers'
    BY <1>1, <1>2, Typed DEF CallNumbers, Past, Running, HeldTrace, Reduced, Message
  <1>6. Promises'
    <2>1. result'[target'].output = 0 /\ result'[target'].trace = 0
      BY <1>1, <1>2 DEF CallNumbers, Running
    <2>2. ResultIsOfLastCall'
      BY <1>2, <2>1 DEF ResultIsOfLastCall
    <2>3. MessageIsOfLastCall'
      BY <1>1, Typed DEF CallNumbers, Message, Running, MessageIsOfLastCall, ErrMsg
    <2> QED
      BY <2>2, <2>3 DEF Promises
  <1>7. BlocksHaveOneOwner'
    BY <1>2, FailingKeepsBlocks
  <1> QED
    BY <1>4, <1>5, <1>6, <1>7 DEF IInv, CallNumbers, Promises

LEMMA ReduceKeeps ==
    ASSUME IInv, Reduce
    PROVE  IInv'
  <1> USE DEF Reduce, Goes, Kept, ErrClear
  <1>1. ApiTypeOK /\ CallNumbers
    BY DEF IInv, CallNumbers
  <1>2. PICK n \in 0..options.limit, cut \in BOOLEAN :
            /\ cut => n = options.limit
            /\ result' = [result EXCEPT ![target].steps = n, ![target].limited = cut]
    OBVIOUS
  <1>3. n \in Nat /\ n <= options.limit
    BY <1>1, Typed
  <1>4. /\ result'[target] = [result[target] EXCEPT !.steps = n, !.limited = cut]
        /\ \A o \in Objects \ {target} : result'[o] = result[o]
    BY <1>1, <1>2 DEF ApiTypeOK, Results
  <1>5. /\ result' \in [Objects -> Results]
        /\ result'[target].steps = n /\ result'[target].limited = cut
        /\ \A o \in Objects : result'[o].output = result[o].output /\ result'[o].trace = result[o].trace
    <2>1. result[target] \in Results /\ target \in Objects /\ result \in [Objects -> Results]
      BY <1>1 DEF ApiTypeOK
    <2>2. /\ result'[target] \in Results
          /\ result'[target].steps = n /\ result'[target].limited = cut
          /\ result'[target].output = result[target].output
          /\ result'[target].trace = result[target].trace
      BY <1>3, <1>4, <2>1 DEF Results
    <2>3. \A o \in Objects : result'[o] \in Results
      BY <1>4, <2>1, <2>2
    <2>4. result' = [o \in Objects |-> result'[o]]
      BY <1>2, <2>1
    <2>5. result' \in [Objects -> Results]
      BY <2>3, <2>4
    <2> QED
      BY <1>4, <2>2, <2>5
  <1>6. held' = (IF options.trace THEN calls ELSE 0) /\ held' \in Calls
    BY <1>1, MaxCallsAssumption DEF ApiTypeOK, Calls
  <1>7. Traces(held') \subseteq {"output", "trace"} \X Calls
    BY <1>6 DEF Traces
  <1>8. ApiTypeOK'
    <2>1. errUp' \in BOOLEAN /\ errText' \in Calls
      <3>1. 0 \in Calls
        BY MaxCallsAssumption DEF Calls
      <3>2. errUp' = FALSE /\ errText' = 0
        OBVIOUS
      <3> QED
        BY <3>1, <3>2
    <2>2. phase' \in Phases /\ verdict' = verdict /\ (phase' # "idle" <=> verdict' = "running")
      BY <1>1 DEF Phases, ApiTypeOK
    <2>3. blocks' \subseteq {"output", "trace"} \X Calls
      BY <1>1, <1>7 DEF ApiTypeOK
    <2> QED
      BY <1>1, <1>5, <1>6, <2>1, <2>2, <2>3 DEF ApiTypeOK
  <1>9. CallNumbers'
    <2>1. Past' /\ Running'
      BY <1>1, <1>5 DEF CallNumbers, Past, Running, ApiTypeOK
    <2>2. HeldTrace' /\ Reduced' /\ Message'
      BY <1>1, <1>2, <1>3, <1>5, <1>6, Typed DEF HeldTrace, Reduced, Message
    <2> QED
      BY <2>1, <2>2 DEF CallNumbers
  <1>10. Promises'
    BY <1>1 DEF ApiTypeOK, Promises, MessageIsOfLastCall, ResultIsOfLastCall
  <1>11. BlocksHaveOneOwner'
    BY ReducingKeepsBlocks
  <1> QED
    BY <1>8, <1>9, <1>10, <1>11 DEF IInv, CallNumbers, Promises

LEMMA RenderKeeps ==
    ASSUME IInv, Render
    PROVE  IInv'
  <1> USE DEF Render, Goes, Kept
  <1>1. ApiTypeOK /\ CallNumbers
    BY DEF IInv, CallNumbers
  <1>2. result'[target] = [result[target] EXCEPT !.output = calls, !.trace = held]
    BY <1>1 DEF ApiTypeOK, Results
  <1>3. \A o \in Objects \ {target} : result'[o] = result[o]
    BY <1>1 DEF ApiTypeOK
  <1>4. /\ result'[target].output = calls /\ result'[target].trace = held
        /\ result'[target].steps = result[target].steps
        /\ result'[target].limited = result[target].limited
    BY <1>1, <1>2 DEF ApiTypeOK, Results
  <1>5. result' \in [Objects -> Results]
    <2>1. /\ result[target] \in Results /\ target \in Objects /\ result \in [Objects -> Results]
          /\ calls \in Calls /\ held \in Calls
      BY <1>1 DEF ApiTypeOK
    <2>2. result'[target] \in Results
      BY <1>2, <2>1 DEF Results
    <2>3. result' = [o \in Objects |-> result'[o]]
      BY <2>1
    <2> QED
      BY <1>3, <2>1, <2>2, <2>3
  <1>6. ApiTypeOK'
    BY <1>1, <1>5, MaxCallsAssumption DEF ApiTypeOK, Phases, Verdicts, Calls
  <1>7. held \in {0, calls} /\ held = (IF options.trace THEN calls ELSE 0)
    BY <1>1 DEF CallNumbers, HeldTrace
  <1>8. CallNumbers'
    <2>1. Past'
      <3>1. calls' = calls /\ calls \in Nat /\ Past
        BY <1>1, Typed DEF CallNumbers
      <3>2. ASSUME NEW o \in Objects
            PROVE  result'[o].output <= calls /\ result'[o].trace <= calls
        <4>1. CASE o = target
          BY <1>4, <1>7, <3>1, <4>1
        <4>2. CASE o # target
          BY <1>3, <3>1, <4>2 DEF Past
        <4> QED
          BY <4>1, <4>2
      <3> QED
        BY <3>1, <3>2 DEF Past
    <2> QED
      BY <1>1, <2>1 DEF CallNumbers, Running, HeldTrace, Reduced, Message
  <1>9. Promises'
    <2>1. ResultIsOfLastCall'
      BY <1>1, <1>4, <1>7 DEF CallNumbers, Reduced, ResultIsOfLastCall
    <2> QED
      BY <1>1, <2>1 DEF CallNumbers, Reduced, Promises, MessageIsOfLastCall, ErrMsg
  <1>10. BlocksHaveOneOwner'
    BY RenderingKeepsBlocks
  <1> QED
    BY <1>6, <1>8, <1>9, <1>10 DEF IInv, CallNumbers, Promises

LEMMA StepHolds == IInv /\ [ApiNext]_apiVars => IInv'
  <1> SUFFICES ASSUME IInv, [ApiNext]_apiVars PROVE IInv'
    OBVIOUS
  <1>1. CASE Caller
    <2>1. PICK o \in Objects :
              \/ FreeResult(o)
              \/ \E opts \in Options : Refuse(o, opts) \/ Begin(o, opts)
      BY <1>1 DEF Caller
    <2> QED
      BY <2>1, FreeResultKeeps, RefuseKeeps, BeginKeeps
  <1>2. CASE EvalStep
    BY <1>2, QuietPhasesKeep, FailuresKeep, ReduceKeeps, RenderKeeps DEF EvalStep
  <1>3. CASE UNCHANGED apiVars
    BY <1>3 DEF apiVars, IInv, ApiTypeOK, BlocksHaveOneOwner, Past, Running, HeldTrace, Reduced,
                Message, MessageIsOfLastCall, ErrMsg, ResultIsOfLastCall
  <1> QED
    BY <1>1, <1>2, <1>3 DEF ApiNext

-----------------------------------------------------------------------------
THEOREM Invariance == ApiSpec => []IInv
  BY InitHolds, StepHolds, PTL DEF ApiSpec

(* Whatever the caller does, the state of the interface keeps its types:   *)
(* in particular a call is running exactly while a phase is (ls.c:1224).   *)
THEOREM EvaluationTypes == ApiSpec => []ApiTypeOK
  <1>1. IInv => ApiTypeOK
    BY DEF IInv
  <1> QED
    BY <1>1, Invariance, PTL

(* ls_eval_string and ls_result_free (ls.c:1209-1318) neither lose a block *)
(* of text nor free one twice, in any sequence of calls.                   *)
THEOREM NoBlockLostOrShared == ApiSpec => []BlocksHaveOneOwner
  <1>1. IInv => BlocksHaveOneOwner
    BY DEF IInv
  <1> QED
    BY <1>1, Invariance, PTL

(* Between calls ls_errmsg (ls.c:1347) speaks of the latest call only, but *)
(* for a call that failed without a message.                               *)
THEOREM MessagesAreCurrent == ApiSpec => []MessageIsOfLastCall
  <1>1. IInv => MessageIsOfLastCall
    BY DEF IInv
  <1> QED
    BY <1>1, Invariance, PTL

(* What the result holds after a call (ls.c:1300-1318) is that call's.     *)
THEOREM ResultsAreCurrent == ApiSpec => []ResultIsOfLastCall
  <1>1. IInv => ResultIsOfLastCall
    BY DEF IInv
  <1> QED
    BY <1>1, Invariance, PTL

-----------------------------------------------------------------------------
(* Until the reduction is through, the object is as ls_result_free left it.*)
Fresh == phase \notin {"idle", "render"} => result[target] = EmptyResult

PInv == IInv /\ Fresh

LEMMA FreshHolds == PInv /\ [ApiNext]_apiVars => PInv'
  <1> SUFFICES ASSUME PInv, [ApiNext]_apiVars PROVE Fresh'
    BY StepHolds DEF PInv
  <1>1. ApiTypeOK /\ Fresh
    BY DEF PInv, IInv
  <1>2. CASE Caller
    <2>1. PICK o \in Objects :
              \/ FreeResult(o)
              \/ \E opts \in Options : Refuse(o, opts) \/ Begin(o, opts)
      BY <1>2 DEF Caller
    <2>2. phase' = "idle" \/ (phase' = "import" /\ target' = o /\ result'[o] = EmptyResult)
      BY <1>1, <2>1 DEF FreeResult, Refuse, Begin, CanCall, ApiTypeOK
    <2> QED
      BY <2>2 DEF Fresh
  <1>3. CASE EvalStep
    <2>1. CASE Import \/ Merge \/ Scan \/ Parse \/ Lower
      BY <1>1, <2>1 DEF Import, Merge, Scan, Parse, Lower, Goes, Kept, Fresh
    <2>2. CASE Reduce \/ Render \/ FailWithMessage \/ FailMutely
      <3>1. phase' \in {"render", "idle"}
        BY <2>2 DEF Reduce, Render, FailWithMessage, FailMutely, Fail, Goes
      <3> QED
        BY <3>1 DEF Fresh
    <2> QED
      BY <1>3, <2>1, <2>2 DEF EvalStep
  <1>4. CASE UNCHANGED apiVars
    BY <1>1, <1>4 DEF apiVars, Fresh
  <1> QED
    BY <1>2, <1>3, <1>4 DEF ApiNext

LEMMA SameEmpty == Promise!EmptyResult = EmptyResult
  BY DEF Promise!EmptyResult, EmptyResult

LEMMA PromiseInits == ApiInit => Promise!PromiseInit
  <1> SUFFICES ASSUME ApiInit PROVE Promise!PromiseInit
    OBVIOUS
  <1>1. SeenResult = [o \in Objects |-> EmptyResult] /\ SeenMessage = 0
    BY DEF ApiInit, SeenResult, SeenMessage, ErrMsg
  <1> QED
    BY <1>1, SameEmpty DEF ApiInit, Promise!PromiseInit, DefaultOptions

(* Between the calls the objects are seen as they are.                     *)
LEMMA SeenWhenIdle ==
    ASSUME ApiTypeOK, phase = "idle"
    PROVE  SeenResult = result /\ SeenMessage = ErrMsg
  BY DEF SeenResult, SeenMessage, ApiTypeOK

LEMMA FreeingIsPromised ==
    ASSUME PInv, NEW o \in Objects, FreeResult(o)
    PROVE  Promise!Free
  <1>1. /\ ApiTypeOK /\ ApiTypeOK' /\ phase = "idle" /\ phase' = "idle"
        /\ verdict # "running"
    BY FreeResultKeeps DEF PInv, IInv, ApiTypeOK, FreeResult
  <1>2. SeenResult = result /\ SeenMessage = ErrMsg
    BY <1>1, SeenWhenIdle
  <1>3. SeenResult' = result' /\ SeenMessage' = ErrMsg'
    BY <1>1, SeenWhenIdle DEF SeenResult, SeenMessage, ApiTypeOK
  <1>4. SeenResult' = [SeenResult EXCEPT ![o] = Promise!EmptyResult]
    BY <1>2, <1>3, SameEmpty DEF FreeResult
  <1>5. SeenMessage' = SeenMessage
    BY <1>2, <1>3 DEF FreeResult, ErrMsg
  <1> QED
    BY <1>1, <1>4, <1>5 DEF Promise!Free, Promise!Running, FreeResult

LEMMA RefusalIsPromised ==
    ASSUME PInv, NEW o \in Objects, NEW opts \in Options, Refuse(o, opts)
    PROVE  Promise!Call
  <1>1. /\ ApiTypeOK /\ ApiTypeOK' /\ phase = "idle" /\ phase' = "idle"
        /\ verdict # "running"
    BY RefuseKeeps DEF PInv, IInv, ApiTypeOK, Refuse, CanCall
  <1>2. SeenResult = result
    BY <1>1, SeenWhenIdle
  <1>3. SeenResult' = result' /\ SeenMessage' = ErrMsg'
    BY <1>1 DEF SeenResult, SeenMessage, ApiTypeOK
  <1>4. SeenResult' = SeenResult /\ SeenMessage' = calls'
    BY <1>2, <1>3 DEF Refuse, ErrSet, ErrMsg
  <1> QED
    BY <1>1, <1>4 DEF Promise!Call, Promise!Running, Refuse, CanCall, Options

LEMMA BeginningIsPromised ==
    ASSUME PInv, NEW o \in Objects, NEW opts \in Options, Begin(o, opts)
    PROVE  Promise!Call
  <1>1. ApiTypeOK /\ phase = "idle" /\ phase' = "import" /\ target' = o /\ verdict # "running"
    BY DEF PInv, IInv, ApiTypeOK, Begin, CanCall
  <1>2. SeenResult = result
    BY <1>1, SeenWhenIdle
  <1>3. SeenResult' = [result EXCEPT ![o] = EmptyResult] /\ SeenMessage' = 0
    BY <1>1 DEF SeenResult, SeenMessage, Begin, ApiTypeOK
  <1>4. SeenResult' = [SeenResult EXCEPT ![target'] = Promise!EmptyResult]
    BY <1>1, <1>2, <1>3, SameEmpty
  <1> QED
    BY <1>1, <1>3, <1>4 DEF Promise!Call, Promise!Running, Begin, CanCall, Options

(* A phase within a call is not seen.                                      *)
LEMMA PhasesAreHidden ==
    ASSUME PInv, Import \/ Merge \/ Scan \/ Parse \/ Lower \/ Reduce
    PROVE  UNCHANGED Promise!promiseVars
  <1>1. /\ ApiTypeOK /\ phase # "idle" /\ phase' # "idle"
        /\ UNCHANGED <<target, options, calls, verdict>>
    BY DEF PInv, IInv, Import, Merge, Scan, Parse, Lower, Reduce, Goes, Kept
  <1>2. \A o \in Objects \ {target} : result'[o] = result[o]
    <2>1. CASE Import \/ Merge \/ Scan \/ Parse \/ Lower
      BY <2>1 DEF Import, Merge, Scan, Parse, Lower
    <2>2. CASE Reduce
      BY <1>1, <2>2 DEF Reduce, ApiTypeOK
    <2> QED
      BY <2>1, <2>2
  <1>3. SeenResult' = SeenResult /\ SeenMessage' = SeenMessage
    BY <1>1, <1>2 DEF SeenResult, SeenMessage
  <1> QED
    BY <1>1, <1>3 DEF Promise!promiseVars

(* The record a call leaves is one that a return may leave.                *)
LEMMA EndingIsPromised ==
    ASSUME PInv, Render \/ FailWithMessage \/ FailMutely
    PROVE  Promise!Return
  <1> DEFINE r == result'[target]
  <1>1. /\ ApiTypeOK /\ Running /\ HeldTrace /\ Reduced /\ Message /\ Fresh
        /\ phase # "idle" /\ verdict = "running" /\ phase' = "idle"
        /\ UNCHANGED <<target, options, calls>>
    BY DEF PInv, IInv, ApiTypeOK, Render, FailWithMessage, FailMutely, Fail, Goes, Kept
  <1>2. ApiTypeOK'
    BY RenderKeeps, FailuresKeep DEF PInv, IInv
  <1>3. SeenResult' = result' /\ SeenMessage' = ErrMsg'
    BY <1>1, <1>2 DEF SeenResult, SeenMessage, ApiTypeOK
  <1>4. \A o \in Objects \ {target} : result'[o] = result[o]
    BY <1>1 DEF Render, FailWithMessage, FailMutely, Fail, ApiTypeOK
  <1>5. SeenResult' = [SeenResult EXCEPT ![target] = r]
    BY <1>1, <1>2, <1>3, <1>4 DEF SeenResult, ApiTypeOK
  <1>6. /\ result[target] \in Results /\ r \in Results
        /\ calls \in Nat /\ options.limit \in Nat
        /\ result[target].output = 0 /\ result[target].trace = 0
    BY <1>1, <1>2, Typed DEF ApiTypeOK, Running
  <1>7. /\ result[target].steps \in 0..options.limit
        /\ result[target].limited => result[target].steps = options.limit
    <2>1. CASE phase = "render"
      BY <1>1, <1>6, <2>1 DEF Reduced, Results
    <2>2. CASE phase # "render"
      BY <1>1, <1>6, <2>2 DEF Fresh, EmptyResult
    <2> QED
      BY <2>1, <2>2
  <1>8. /\ r.steps = result[target].steps
        /\ r.limited = result[target].limited
    <2>1. CASE Render
      BY <1>1, <1>6, <2>1 DEF Render, ApiTypeOK, Results
    <2>2. CASE FailWithMessage \/ FailMutely
      BY <2>2 DEF FailWithMessage, FailMutely, Fail
    <2> QED
      BY <2>1, <2>2
  <1>9. Promise!Succeed(r) \/ Promise!GiveUp(r)
    <2>1. CASE Render
      <3>1. r.output = calls /\ r.trace = held
        BY <1>1, <1>6, <2>1 DEF Render, ApiTypeOK, Results
      <3>2. held = (IF options.trace THEN calls ELSE 0) /\ ~errUp
        BY <1>1, <2>1 DEF Render, Goes, HeldTrace, Reduced
      <3>3. SeenMessage' = 0 /\ verdict' = "ok"
        BY <1>3, <2>1, <3>2 DEF Render, ErrMsg
      <3> QED
        BY <3>1, <3>2, <3>3 DEF Promise!Succeed
    <2>2. CASE FailWithMessage
      <3>1. r = result[target] /\ SeenMessage' = calls /\ verdict' = "failed"
        BY <1>3, <2>2 DEF FailWithMessage, Fail, ErrSet, ErrMsg
      <3> QED
        BY <1>6, <3>1 DEF Promise!GiveUp
    <2>3. CASE FailMutely
      <3>1. r = result[target] /\ verdict' = "mute" /\ phase = "import"
            /\ UNCHANGED <<errUp, errText>>
        BY <2>3 DEF FailMutely, Fail
      <3>2. errText \in Nat /\ errText < calls /\ calls # 0
        BY <1>1, <3>1, Typed DEF Message, Running
      <3>3. SeenMessage' \in {0, errText}
        BY <1>3, <3>1 DEF ErrMsg
      <3>4. SeenMessage' \in 0..(calls - 1)
        BY <1>6, <3>2, <3>3
      <3> QED
        BY <1>6, <3>1, <3>4 DEF Promise!GiveUp
    <2> QED
      BY <2>1, <2>2, <2>3
  <1>10. r.output \in {0, calls} /\ r.trace \in {0, calls}
    BY <1>9 DEF Promise!Succeed, Promise!GiveUp
  <1> HIDE DEF r
  <1>11. r \in [output : {0, calls}, trace : {0, calls},
                steps : 0..options.limit, limited : BOOLEAN]
    BY <1>6, <1>7, <1>8, <1>10 DEF Results
  <1> QED
    BY <1>1, <1>5, <1>7, <1>8, <1>9, <1>11 DEF Promise!Return, Promise!Running

(* ls_eval_string and ls_eval_file (ls.c:1184-1345), with all their phases *)
(* and ways out, are calls that touch one object and leave there and in    *)
(* ls_errmsg what CallPromise says, in any sequence of calls.              *)
THEOREM CallsKeepPromise == ApiSpec => KeepsPromise
  <1>1. ApiInit => PInv
    <2>1. ApiInit => Fresh
      BY DEF ApiInit, Fresh
    <2> QED
      BY <2>1, InitHolds DEF PInv
  <1>2. PInv /\ [ApiNext]_apiVars
          => [Promise!Call \/ Promise!Return \/ Promise!Free]_(Promise!promiseVars)
    <2> SUFFICES ASSUME PInv, [ApiNext]_apiVars
                 PROVE  [Promise!Call \/ Promise!Return \/ Promise!Free]_(Promise!promiseVars)
      OBVIOUS
    <2>1. CASE Caller
      <3>1. PICK o \in Objects :
                \/ FreeResult(o)
                \/ \E opts \in Options : Refuse(o, opts) \/ Begin(o, opts)
        BY <2>1 DEF Caller
      <3> QED
        BY <3>1, FreeingIsPromised, RefusalIsPromised, BeginningIsPromised
    <2>2. CASE EvalStep
      BY <2>2, PhasesAreHidden, EndingIsPromised DEF EvalStep
    <2>3. CASE UNCHANGED apiVars
      BY <2>3 DEF apiVars, Promise!promiseVars, SeenResult, SeenMessage, ErrMsg
    <2> QED
      BY <2>1, <2>2, <2>3 DEF ApiNext
  <1> QED
    BY <1>1, <1>2, FreshHolds, PromiseInits, PTL DEF ApiSpec, KeepsPromise, Promise!PromiseSpec
=============================================================================
