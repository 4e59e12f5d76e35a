---------------------------- MODULE CallPromise ----------------------------
(***************************************************************************)
(* What an embedding program is promised of ls_eval_string, ls_eval_file   *)
(* and ls_errmsg, with no phases in sight: a call is begun and returns, it *)
(* touches the one result object it was given, and what it leaves there    *)
(* and in ls_errmsg is its own.                                            *)
(***************************************************************************)
EXTENDS Naturals

CONSTANTS Objects, FirstObject, MaxCalls, Limits, DefaultLimit

VARIABLES result,    \* each object, as its owner sees it between the calls
          message,   \* the call whose message ls_errmsg gives, 0 for none
          target, options, calls, verdict

promiseVars == <<result, message, target, options, calls, verdict>>

EmptyResult == [output |-> 0, trace |-> 0, steps |-> 0, limited |-> FALSE]

PromiseInit ==
    /\ result = [o \in Objects |-> EmptyResult]
    /\ message = 0
    /\ target = FirstObject
    /\ options = [trace |-> FALSE, limit |-> DefaultLimit]
    /\ calls = 0
    /\ verdict = "none"

Running == verdict = "running"

(* A call that begins empties the object; one that is refused at once,     *)
(* since there is nothing to read, leaves it as it was.                    *)
Call ==
    /\ ~Running
    /\ calls < MaxCalls
    /\ calls' = calls + 1
    /\ target' \in Objects
    /\ options' \in [trace : BOOLEAN, limit : Limits]
    /\ \/ /\ verdict' = "running"
          /\ result' = [result EXCEPT ![target'] = EmptyResult]
          /\ message' = 0
       \/ /\ verdict' = "refused"
          /\ message' = calls'
          /\ UNCHANGED result

(* All went well: the output is there, the trace if it was asked for, and  *)
(* ls_errmsg has nothing to say.                                           *)
Succeed(r) ==
    /\ verdict' = "ok"
    /\ r.output = calls
    /\ r.trace = (IF options.trace THEN calls ELSE 0)
    /\ message' = 0

(* Something failed: no text is left, and the message is the call's own;   *)
(* without memory for a path it is that of an earlier call, or none.       *)
GiveUp(r) ==
    /\ r.output = 0 /\ r.trace = 0
    /\ \/ verdict' = "failed" /\ message' = calls
       \/ verdict' = "mute" /\ message' \in 0..(calls - 1)

(* Either way the count is within the limit, all of it if there was a cut. *)
Return ==
    /\ Running
    /\ \E r \in [output : {0, calls}, trace : {0, calls},
                steps : 0..options.limit, limited : BOOLEAN] :
          /\ r.limited => r.steps = options.limit
          /\ Succeed(r) \/ GiveUp(r)
          /\ result' = [result EXCEPT ![target] = r]
    /\ UNCHANGED <<target, options, calls>>

(* The owner frees an object when no call runs; the message stays.         *)
Free ==
    /\ ~Running
    /\ \E o \in Objects :
          /\ result' = [result EXCEPT ![o] = EmptyResult]
          /\ verdict' = IF o = target /\ verdict = "ok" THEN "released" ELSE verdict
    /\ UNCHANGED <<message, target, options, calls>>

PromiseSpec == PromiseInit /\ [][Call \/ Return \/ Free]_promiseVars
=============================================================================
