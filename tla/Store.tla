------------------------------- MODULE Store -------------------------------
(***************************************************************************)
(* What every controller of the operator meets: objects of the API server  *)
(* seen through a controller-runtime client, whose reads come from an      *)
(* informer cache that lags behind and whose Updates carry the             *)
(* resourceVersion of the copy they were made from; and requests that      *)
(* fail.                                                                   *)
(***************************************************************************)
EXTENDS Naturals, FiniteSets

CONSTANTS Faults,      \* the kinds of fault that may happen, see Fault
          MaxFaults    \* a bound on the number of faults of a behaviour

VARIABLE faults        \* how many faults have happened

-----------------------------------------------------------------------------
(* One object: its latest version, the version in the informer cache, and  *)
(* the holders of a copy that has the latest resourceVersion. A holder is  *)
(* the cache, the worker of a controller, or the admission of a pod.       *)

Cache  == "cache"
Worker == "worker"

New(v) == [obj |-> v, cache |-> v, fresh |-> {Cache}]

Current(s, h) == h \in s.fresh

(* A write nobody holds the result of; one that changes nothing keeps the  *)
(* resourceVersion.                                                        *)
Write(s, v) == IF v = s.obj THEN s ELSE [s EXCEPT !.obj = v, !.fresh = {}]

(* A write that leaves every field of the model as it was.                 *)
Touched(s) == [s EXCEPT !.fresh = {}]

(* The watch brings the latest version to the cache.                       *)
Delivered(s) == [s EXCEPT !.cache = s.obj, !.fresh = @ \cup {Cache}]

(* h reads the object from the cache, and forgets its copy.                *)
Copied(s, h) ==
  [s EXCEPT !.fresh = IF Cache \in @ THEN @ \cup {h} ELSE @ \ {h}]
Forgotten(s, h) == [s EXCEPT !.fresh = @ \ {h}]

(* A fault of a given kind: "api", a request to the API server fails;      *)
(* "sdn", a request to the SDN controller fails; "refuse", the API server  *)
(* does not create an admitted pod; "crash", the operator restarts;        *)
(* "touch", somebody else writes to an object.                             *)
CanFail(kind) == kind \in Faults /\ faults < MaxFaults
Fault(kind) == CanFail(kind) /\ faults' = faults + 1

(* What an Update by h that turns s into v may lead to: the object after   *)
(* it, what the caller is told, and the fault it takes. A request that     *)
(* failed may have been executed.                                          *)
UpdateOutcomes(s, h, v) ==
  IF ~ Current(s, h)
  THEN {[after |-> s, ok |-> FALSE, cost |-> 0]}
  ELSE {[after |-> Write(s, v), ok |-> TRUE, cost |-> 0]}
       \cup {o \in {[after |-> s, ok |-> FALSE, cost |-> 1],
                    [after |-> Write(s, v), ok |-> FALSE, cost |-> 1]} :
               CanFail("api")}

(* What a request to another controller may lead to: whether it was        *)
(* executed, what the caller is told, and the fault it takes. One that     *)
(* failed may have been executed, when only its answer was late.           *)
CallOutcomes ==
  {[done |-> TRUE, ok |-> TRUE, cost |-> 0]}
  \cup {o \in {[done |-> FALSE, ok |-> FALSE, cost |-> 1],
               [done |-> TRUE, ok |-> FALSE, cost |-> 1]} : CanFail("sdn")}
=============================================================================
