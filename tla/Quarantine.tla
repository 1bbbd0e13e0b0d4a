----------------------------- MODULE Quarantine -----------------------------
(***************************************************************************)
(* QuarantinePodRequestReconciler.Reconcile. For one request its worker    *)
(* moves the ports of the selected pods, one after the other, from the one *)
(* source network to the target: detach, attach, the annotation of the     *)
(* pod, the statuses of the two networks; then it writes the status of the *)
(* request. Between two of these requests the worker of the pod controller *)
(* attaches and cleans up the same pods, users delete them, and others     *)
(* write the same statuses.                                                *)
(*                                                                         *)
(* Every pod has one network and so one port; which attachment and which   *)
(* switch that is does not matter here.                                    *)
(***************************************************************************)
EXTENDS Store, Integers

CONSTANTS Pods, Networks, Requests, None,
          Home,      \* the network a pod asks for when it is created
          Ips,       \* the addresses of pods
          IpOf,      \* the address of each pod, None in a network without any
          Selected,  \* the pods the labels of a request select,
          Sources,   \* the networks they select
          Target,    \* and the network the pods are to move to
          Repeats    \* may a port be attached, or detached, when it already is?

ASSUME QuarantineAssumption ==
  /\ Home \in [Pods -> Networks] /\ IpOf \in [Pods -> Ips \cup {None}]
  /\ Selected \in [Requests -> SUBSET Pods]
  /\ Sources \in [Requests -> SUBSET Networks] /\ Target \in [Requests -> Networks]
  /\ None \notin Pods \cup Networks \cup Requests \cup Ips
  /\ Repeats \subseteq BOOLEAN /\ Repeats # {}
  /\ MaxFaults \in Nat

VARIABLES pod,       \* the Pod objects
          net,       \* the status of every L2Network
          req,       \* the QuarantinePodRequest objects
          served,    \* the targets that are in the SDN controller
          attached,  \* the ports in them, by pod
          podQueue, podWork,   \* the pod controller
          queue, work,         \* the quarantine controller
          born,      \* what has been created: each pod and request once
          late       \* ports put back where the quarantine took them out: history

controllerVars == <<podQueue, podWork, queue, work>>
vars == <<pod, net, req, served, attached, controllerVars, born, late, faults>>

-----------------------------------------------------------------------------
(* The objects: a pod that was admitted, with the network its annotation   *)
(* names; the status of a network; the status of a request.                *)

PodObject == [net : Networks, fin : BOOLEAN, del : BOOLEAN]
NetStatus == [count : Nat, assigned : [Ips -> Pods \cup {None}]]
NewStatus == [count |-> 0, assigned |-> [a \in Ips |-> None]]

(* The status of a network with one pod less, whose address is forgotten,  *)
(* and with one more, whose address is recorded, whoever had it there.     *)
Forget(s, p) == [a \in Ips |-> IF a = IpOf[p] THEN None ELSE s.assigned[a]]

(* A slip: the count is not looked at.                                     *)
LeftUncounted(s, p) == [count |-> s.count - 1, assigned |-> Forget(s, p)]

Left(s, p) ==
  [count |-> IF s.count > 0 THEN s.count - 1 ELSE 0, assigned |-> Forget(s, p)]
Entered(s, p) ==
  [count |-> s.count + 1,
   assigned |-> [a \in Ips |-> IF a = IpOf[p] THEN p ELSE s.assigned[a]]]

Reasons == {"Pending", "NoSingleSource", "TargetL2NetworkNotFound", "InvalidRequest",
            "TargetL2NetworkCheckFailed", "TargetL2NetworkUnavailable",
            "PodMoveFailed", "PodsMoved"}

(* The requests of one move, in order. The message of a failed move tells  *)
(* which pod and which of them it was.                                     *)
Moving == {"detach", "attach", "annotate", "leave", "enter"}
RequestStatus == [reason : Reasons, moved : Nat, pod : Pods \cup {None},
                  step : Moving \cup {""}]
NewRequest == [reason |-> "Pending", moved |-> 0, pod |-> None, step |-> ""]

PodWorker == "podWorker"
Holders == {Cache, Worker, PodWorker}
Stored(V) == [obj : V, cache : V, fresh : SUBSET Holders]

PodWork == [at : {"finalize", "attach", "detach", "unfinalize"},
            pod : Pods, net : Networks]

(* The worker: its stage, the request, the source network, the pods still  *)
(* to be moved, the one it is at, how many have been, what it will report. *)
Work == [at : Moving \cup {"check", "answer", "panic"},
         req : Requests, source : Networks \cup {None}, todo : SUBSET Pods,
         pod : Pods \cup {None}, moved : Nat, status : RequestStatus]

ASSUME QuarantineObjects ==
  None \notin PodObject \cup NetStatus \cup RequestStatus \cup PodWork \cup Work

Targets == {Target[r] : r \in Requests}

TypeOK ==
  /\ pod \in [Pods -> Stored(PodObject \cup {None})]
  /\ net \in [Networks -> Stored(NetStatus \cup {None})]
  /\ req \in [Requests -> Stored(RequestStatus \cup {None})]
  /\ served \subseteq Targets
  /\ attached \subseteq Networks \X Pods /\ late \subseteq Networks \X Pods
  /\ podQueue \subseteq Pods /\ podWork \in PodWork \cup {None}
  /\ born \subseteq Pods \cup Requests
  /\ queue \subseteq Requests /\ work \in Work \cup {None}
  /\ faults \in Nat

Init ==
  /\ pod = [p \in Pods |-> New(None)]
  /\ \E known \in SUBSET Networks :
       /\ net = [n \in Networks |-> New(IF n \in known THEN NewStatus ELSE None)]
       /\ served \in SUBSET (known \cap Targets)
  /\ req = [r \in Requests |-> New(None)]
  /\ attached = {} /\ late = {} /\ born = {}
  /\ podQueue = {} /\ podWork = None /\ queue = {} /\ work = None
  /\ faults = 0

Exists(p) == pod[p].obj # None
Live(p) == Exists(p) /\ ~ pod[p].obj.del

-----------------------------------------------------------------------------
(* Users, the API server, the watches, the webhook and the L2Network       *)
(* controller. Which networks exist, and which of them the SDN controller  *)
(* knows, is decided before: nothing here waits for either.                *)

(* The webhook admits a pod of a network it knows, and records it there,   *)
(* unless that fails.                                                      *)
AdmitPod(p) ==
  LET n == Home[p]
  IN  /\ p \notin born /\ born' = born \cup {p}
      /\ net[n].obj # None /\ Current(net[n], Cache)
      /\ pod' = [pod EXCEPT ![p] = Write(@, [net |-> n, fin |-> FALSE, del |-> FALSE])]
      /\ \/ net' = [net EXCEPT ![n] = Write(@, Entered(@.obj, p))] /\ UNCHANGED faults
         \/ Fault("api") /\ UNCHANGED net
      /\ UNCHANGED <<req, served, attached, controllerVars, late>>

DeletePod(p) ==
  /\ Live(p)
  /\ pod' = [pod EXCEPT ![p] = Write(@, [@.obj EXCEPT !.del = TRUE])]
  /\ UNCHANGED <<net, req, served, attached, controllerVars, born, late, faults>>

RemovePod(p) ==
  /\ Exists(p) /\ pod[p].obj.del /\ ~ pod[p].obj.fin
  /\ pod' = [pod EXCEPT ![p] = Write(@, None)]
  /\ UNCHANGED <<net, req, served, attached, controllerVars, born, late, faults>>

CreateRequest(r) ==
  /\ r \notin born /\ born' = born \cup {r}
  /\ req' = [req EXCEPT ![r] = Write(@, NewRequest)]
  /\ UNCHANGED <<pod, net, served, attached, controllerVars, late, faults>>

DeleteRequest(r) ==
  /\ req[r].obj # None
  /\ req' = [req EXCEPT ![r] = Write(@, None)]
  /\ UNCHANGED <<pod, net, served, attached, controllerVars, born, late, faults>>

(* The kubelet, or the L2Network controller, writes a status.              *)
TouchPod(p) ==
  /\ Exists(p) /\ Fault("touch")
  /\ pod' = [pod EXCEPT ![p] = Touched(@)]
  /\ UNCHANGED <<net, req, served, attached, controllerVars, born, late>>

TouchNetwork(n) ==
  /\ net[n].obj # None /\ Fault("touch")
  /\ net' = [net EXCEPT ![n] = Touched(@)]
  /\ UNCHANGED <<pod, req, served, attached, controllerVars, born, late>>

(* A watch event; that of a pod, or a request, puts it on a queue. Nobody  *)
(* looks at a status in the cache: it only matters whether there is one.   *)
DeliverPod(p) ==
  /\ ~ Current(pod[p], Cache)
  /\ pod' = [pod EXCEPT ![p] = Delivered(@)]
  /\ podQueue' = podQueue \cup {p}
  /\ UNCHANGED <<net, req, served, attached, podWork, queue, work, born, late, faults>>

DeliverNetwork(n) ==
  /\ ~ Current(net[n], Cache)
  /\ net' = [net EXCEPT ![n].fresh = @ \cup {Cache}]
  /\ UNCHANGED <<pod, req, served, attached, controllerVars, born, late, faults>>

DeliverRequest(r) ==
  /\ ~ Current(req[r], Cache)
  /\ req' = [req EXCEPT ![r].fresh = @ \cup {Cache},
                        ![r].cache = IF req[r].obj = None THEN None ELSE NewRequest]
  /\ queue' = queue \cup {r}
  /\ UNCHANGED <<pod, net, served, attached, podQueue, podWork, work, born, late, faults>>

Resync ==
  /\ queue' = queue \cup {r \in Requests : req[r].cache # None}
  /\ podQueue' = podQueue \cup {p \in Pods : pod[p].cache # None}
  /\ UNCHANGED <<pod, net, req, served, attached, podWork, work, born, late, faults>>

Environment ==
  \/ \E n \in Networks : TouchNetwork(n) \/ DeliverNetwork(n)
  \/ \E p \in Pods :
       AdmitPod(p) \/ DeletePod(p) \/ RemovePod(p) \/ TouchPod(p) \/ DeliverPod(p)
  \/ \E r \in Requests : CreateRequest(r) \/ DeleteRequest(r) \/ DeliverRequest(r)
  \/ Resync

-----------------------------------------------------------------------------
(* The SDN controller may or may not accept what has been done already.    *)

SdnOutcomes(repeated) ==
  {o \in CallOutcomes : repeated /\ o.ok => TRUE \in Repeats}
  \cup {o \in {[done |-> TRUE, ok |-> FALSE, cost |-> 0]} :
          repeated /\ FALSE \in Repeats}

Attach(port, o) == attached' = attached \cup {q \in {port} : o.done}
Detach(port, o) == attached' = attached \ {q \in {port} : o.done}

-----------------------------------------------------------------------------
(* The worker of the pod controller, PodController for a pod of one port.  *)

PodWorkingAt(stage) == podWork # None /\ podWork.at = stage

NeedsAttach(object) == ~ object.del /\ ~ object.fin
NeedsCleanup(object) == object.del /\ object.fin

IgnorePod(p) ==
  /\ podWork = None /\ p \in podQueue
  /\ pod[p].cache # None
       => ~ NeedsAttach(pod[p].cache) /\ ~ NeedsCleanup(pod[p].cache)
  /\ podQueue' = podQueue \ {p}
  /\ UNCHANGED <<pod, net, req, served, attached, podWork, queue, work, born, late, faults>>

BeginPod(p) ==
  /\ podWork = None /\ p \in podQueue /\ pod[p].cache # None
  /\ \/ NeedsAttach(pod[p].cache)
     \/ NeedsCleanup(pod[p].cache)
  /\ podWork' = [at |-> IF pod[p].cache.del THEN "detach" ELSE "finalize",
                 pod |-> p, net |-> pod[p].cache.net]
  /\ pod' = [pod EXCEPT ![p] = Copied(@, PodWorker)]
  /\ podQueue' = podQueue \ {p}
  /\ UNCHANGED <<net, req, served, attached, queue, work, born, late, faults>>

AddFinalizer ==
  LET p == podWork.pod
  IN  /\ PodWorkingAt("finalize")
      /\ \E o \in UpdateOutcomes(pod[p], PodWorker, [pod[p].obj EXCEPT !.fin = TRUE]) :
           /\ pod' = [pod EXCEPT ![p] = Forgotten(o.after, PodWorker)]
           /\ faults' = faults + o.cost
           /\ IF o.ok
              THEN podWork' = [podWork EXCEPT !.at = "attach"] /\ UNCHANGED podQueue
              ELSE podWork' = None /\ podQueue' = podQueue \cup {p}
      /\ UNCHANGED <<net, req, served, attached, queue, work, born, late>>

(* The quarantine has taken the port of a pod out of a network already.    *)
TakenOut(n, p) ==
  \/ pod[p].obj = None \/ pod[p].obj.net # n
  \/ work # None /\ work.pod = p /\ work.source = n /\ work.at \in {"attach", "annotate"}

(* The network is the one of the copy the finalizer was written to.        *)
AttachPod ==
  LET port == <<podWork.net, podWork.pod>>
  IN  /\ PodWorkingAt("attach")
      /\ \E o \in SdnOutcomes(port \in attached) :
           /\ Attach(port, o)
           /\ faults' = faults + o.cost
      /\ late' = late \cup {q \in {port} : TakenOut(q[1], q[2])}
      /\ podWork' = None
      /\ UNCHANGED <<pod, net, req, served, podQueue, queue, work, born>>

(* An error of the SDN controller is only logged.                          *)
DetachPod ==
  LET port == <<podWork.net, podWork.pod>>
  IN  /\ PodWorkingAt("detach")
      /\ \E o \in SdnOutcomes(port \notin attached) :
           /\ Detach(port, o)
           /\ faults' = faults + o.cost
      /\ podWork' = [podWork EXCEPT !.at = "unfinalize"]
      /\ UNCHANGED <<pod, net, req, served, podQueue, queue, work, born, late>>

(* A slip: the update writes the finalizer back.                           *)
KeepFinalizer ==
  LET p == podWork.pod
  IN  /\ PodWorkingAt("unfinalize")
      /\ \E o \in UpdateOutcomes(pod[p], PodWorker, pod[p].obj) :
           /\ pod' = [pod EXCEPT ![p] = Forgotten(o.after, PodWorker)]
           /\ faults' = faults + o.cost
      /\ podWork' = None
      /\ UNCHANGED <<net, req, served, attached, podQueue, queue, work, born, late>>

(* The port is free again, and the finalizer removed; an error of either   *)
(* is dropped.                                                             *)
RemoveFinalizer ==
  LET p == podWork.pod
  IN  /\ PodWorkingAt("unfinalize")
      /\ \E o \in UpdateOutcomes(pod[p], PodWorker, [pod[p].obj EXCEPT !.fin = FALSE]) :
           /\ pod' = [pod EXCEPT ![p] = Forgotten(o.after, PodWorker)]
           /\ faults' = faults + o.cost
      /\ podWork' = None
      /\ UNCHANGED <<net, req, served, attached, podQueue, queue, work, born, late>>

PodWorkerStep == AddFinalizer \/ AttachPod \/ DetachPod \/ RemoveFinalizer

-----------------------------------------------------------------------------
(* The worker of the quarantine controller takes a request from its queue  *)
(* and reads the request and the networks from the cache.                  *)

WorkingAt(stage) == work # None /\ work.at = stage

IgnoreRequest(r) ==
  /\ work = None /\ r \in queue /\ req[r].cache = None
  /\ queue' = queue \ {r}
  /\ UNCHANGED <<pod, net, req, served, attached, podQueue, podWork, work, born, late, faults>>

Known(n) == net[n].cache # None

(* The network the selector matches, when it matches exactly one.          *)
SourcesFound(r) == {n \in Sources[r] : Known(n)}

Report(reason, moved) == [NewRequest EXCEPT !.reason = reason, !.moved = moved]

(* What is wrong with the request already, in the order it is looked at.   *)
Objection(r) ==
  IF Cardinality(SourcesFound(r)) # 1 THEN "NoSingleSource"
  ELSE IF ~ Known(Target[r]) THEN "TargetL2NetworkNotFound"
  ELSE IF Target[r] \in SourcesFound(r) THEN "InvalidRequest"
  ELSE "Pending"

BeginRequest(r) ==
  LET objection == Objection(r)
  IN  /\ work = None /\ r \in queue /\ req[r].cache # None
      /\ \E n \in IF objection = "NoSingleSource" THEN {None} ELSE SourcesFound(r) :
           work' = [at |-> IF objection = "Pending" THEN "check" ELSE "answer",
                    req |-> r, source |-> n, todo |-> {}, pod |-> None, moved |-> 0,
                    status |-> Report(objection, 0)]
      /\ req' = [req EXCEPT ![r] = Copied(@, Worker)]
      /\ net' = [n \in Networks |-> Copied(net[n], Worker)]
      /\ queue' = queue \ {r}
      /\ UNCHANGED <<pod, served, attached, podQueue, podWork, born, late, faults>>

GoOn(stage) == work' = [work EXCEPT !.at = stage]
Answer(reason, moved) ==
  work' = [work EXCEPT !.at = "answer", !.status = Report(reason, moved)]

(* A failed move ends the work on the request; its message names the pod.  *)
Fail ==
  work' = [work EXCEPT !.at = "answer",
             !.status = [reason |-> "PodMoveFailed", moved |-> work.moved,
                         pod |-> work.pod, step |-> work.at]]

(* The next of the listed pods, or the end of the list.                    *)
MoveNext(todo, moved) ==
  \/ todo = {} /\ Answer("PodsMoved", moved)
  \/ \E p \in todo :
       work' = [work EXCEPT !.at = "detach", !.pod = p, !.todo = todo \ {p},
                            !.moved = moved]

(* The selected pods that the cache shows in the source network.           *)
PodsToMove ==
  {p \in Selected[work.req] :
     pod[p].cache # None /\ ~ pod[p].cache.del /\ pod[p].cache.net = work.source}

(* A slip: nothing is answered while the target is unavailable.            *)
CheckTargetSilently ==
  /\ WorkingAt("check")
  /\ \/ /\ Fault("sdn") /\ Answer("TargetL2NetworkCheckFailed", 0)
        /\ UNCHANGED pod
     \/ /\ Target[work.req] \notin served
        /\ work' = None
        /\ UNCHANGED <<pod, faults>>
     \/ /\ Target[work.req] \in served
        /\ MoveNext(PodsToMove, 0)
        /\ pod' = [p \in Pods |-> Copied(pod[p], Worker)]
        /\ UNCHANGED faults
  /\ UNCHANGED <<net, req, served, attached, podQueue, podWork, queue, born, late>>

(* The SDN controller is asked for the target, and then the pods are read. *)
CheckTarget ==
  /\ WorkingAt("check")
  /\ \/ /\ Fault("sdn") /\ Answer("TargetL2NetworkCheckFailed", 0)
        /\ UNCHANGED pod
     \/ /\ Target[work.req] \notin served
        /\ Answer("TargetL2NetworkUnavailable", 0)
        /\ UNCHANGED <<pod, faults>>
     \/ /\ Target[work.req] \in served
        /\ MoveNext(PodsToMove, 0)
        /\ pod' = [p \in Pods |-> Copied(pod[p], Worker)]
        /\ UNCHANGED faults
  /\ UNCHANGED <<net, req, served, attached, podQueue, podWork, queue, born, late>>

-----------------------------------------------------------------------------
(* One pod is moved.                                                       *)

DetachFromSource ==
  LET port == <<work.source, work.pod>>
  IN  /\ WorkingAt("detach")
      /\ \E o \in SdnOutcomes(port \notin attached) :
           /\ Detach(port, o)
           /\ faults' = faults + o.cost
           /\ IF o.ok THEN GoOn("attach") ELSE Fail
           /\ late' = late \ {q \in {port} : o.done}
      /\ UNCHANGED <<pod, net, req, served, podQueue, podWork, queue, born>>

(* A slip: an error of the SDN controller is ignored.                      *)
AttachIgnoringError ==
  LET port == <<Target[work.req], work.pod>>
  IN  /\ WorkingAt("attach")
      /\ \E o \in SdnOutcomes(port \in attached) :
           /\ Attach(port, o)
           /\ faults' = faults + o.cost
      /\ GoOn("annotate")
      /\ UNCHANGED <<pod, net, req, served, podQueue, podWork, queue, born, late>>

AttachToTarget ==
  LET port == <<Target[work.req], work.pod>>
  IN  /\ WorkingAt("attach")
      /\ \E o \in SdnOutcomes(port \in attached) :
           /\ Attach(port, o)
           /\ faults' = faults + o.cost
           /\ IF o.ok THEN GoOn("annotate") ELSE Fail
      /\ UNCHANGED <<pod, net, req, served, podQueue, podWork, queue, born, late>>

UpdateAnnotation ==
  LET p == work.pod
  IN  /\ WorkingAt("annotate")
      /\ \E o \in UpdateOutcomes(pod[p], Worker,
                                 [pod[p].obj EXCEPT !.net = Target[work.req]]) :
           /\ pod' = [pod EXCEPT ![p] = Forgotten(o.after, Worker)]
           /\ faults' = faults + o.cost
           /\ IF o.ok THEN GoOn("leave") ELSE Fail
      /\ UNCHANGED <<net, req, served, attached, podQueue, podWork, queue, born, late>>

(* The result of an update is the worker's new copy.                       *)
Held(s) == [s EXCEPT !.fresh = @ \cup {Worker}]
Updated(s, o) == IF o.ok THEN Held(o.after) ELSE o.after

(* A slip: an error is ignored.                                            *)
LeaveIgnoringError ==
  LET n == work.source
  IN  /\ WorkingAt("leave")
      /\ \E o \in UpdateOutcomes(net[n], Worker, Left(net[n].obj, work.pod)) :
           /\ net' = [net EXCEPT ![n] = Updated(@, o)]
           /\ faults' = faults + o.cost
      /\ GoOn("enter")
      /\ UNCHANGED <<pod, req, served, attached, podQueue, podWork, queue, born, late>>

UpdateSourceStatus ==
  LET n == work.source
  IN  /\ WorkingAt("leave")
      /\ \E o \in UpdateOutcomes(net[n], Worker, Left(net[n].obj, work.pod)) :
           /\ net' = [net EXCEPT ![n] = Updated(@, o)]
           /\ faults' = faults + o.cost
           /\ IF o.ok THEN GoOn("enter") ELSE Fail
      /\ UNCHANGED <<pod, req, served, attached, podQueue, podWork, queue, born, late>>

UpdateTargetStatus ==
  LET n == Target[work.req]
  IN  /\ WorkingAt("enter")
      /\ \E o \in UpdateOutcomes(net[n], Worker, Entered(net[n].obj, work.pod)) :
           /\ net' = [net EXCEPT ![n] = Updated(@, o)]
           /\ faults' = faults + o.cost
           /\ IF o.ok THEN MoveNext(work.todo, work.moved + 1) ELSE Fail
      /\ UNCHANGED <<pod, req, served, attached, podQueue, podWork, queue, born, late>>

-----------------------------------------------------------------------------
(* The status of the request is written last, whatever has happened. Only  *)
(* an error of that brings the request back to the queue; otherwise it is  *)
(* the change of the status, if there is any, that does. A request that is *)
(* gone needs no status.                                                   *)

StatusOutcomes(r) ==
  IF req[r].obj = None
  THEN {[after |-> req[r], ok |-> TRUE, cost |-> 0]}
  ELSE UpdateOutcomes(req[r], Worker, work.status)

SetQuarantineStatus ==
  LET r == work.req
  IN  /\ WorkingAt("answer")
      /\ \E o \in StatusOutcomes(r) :
           /\ req' = [req EXCEPT ![r] = Forgotten(o.after, Worker)]
           /\ faults' = faults + o.cost
           /\ IF ~ o.ok THEN work' = None /\ queue' = queue \cup {r}
              ELSE /\ UNCHANGED queue
                   /\ IF work.status.reason = "NoSingleSource"
                      THEN GoOn("panic") ELSE work' = None
      /\ pod' = [p \in Pods |-> Forgotten(pod[p], Worker)]
      /\ net' = [n \in Networks |-> Forgotten(net[n], Worker)]
      /\ UNCHANGED <<served, attached, podQueue, podWork, born, late>>

WorkerStep ==
  \/ CheckTarget \/ DetachFromSource \/ AttachToTarget \/ UpdateAnnotation
  \/ UpdateSourceStatus \/ UpdateTargetStatus \/ SetQuarantineStatus

(* The operator starts again: it lists every object and looks at each.     *)
StartAgain ==
  /\ pod' = [p \in Pods |-> New(pod[p].obj)]
  /\ net' = [n \in Networks |-> [net[n] EXCEPT !.fresh = {Cache}]]
  /\ req' = [r \in Requests |->
               [New(req[r].obj) EXCEPT !.cache = IF @ = None THEN None ELSE NewRequest]]
  /\ podQueue' = {p \in Pods : Exists(p)} /\ podWork' = None
  /\ queue' = {r \in Requests : req[r].obj # None} /\ work' = None
  /\ UNCHANGED <<served, attached, born, late>>

Restart == Fault("crash") /\ StartAgain

(* Without a source network the status is written and no error returned,   *)
(* so that Reconcile goes on with a nil pointer; the operator dies of it.  *)
Panic == WorkingAt("panic") /\ StartAgain /\ UNCHANGED faults

Next ==
  \/ Environment
  \/ \E p \in Pods : IgnorePod(p) \/ BeginPod(p)
  \/ PodWorkerStep
  \/ \E r \in Requests : IgnoreRequest(r) \/ BeginRequest(r)
  \/ WorkerStep \/ Panic \/ Restart

Spec == Init /\ [][Next]_vars

(* The watch delivers, and both workers serve their queues in order. They  *)
(* serve nothing for long while the operator keeps dying.                  *)
Fairness ==
  /\ \A p \in Pods :
       /\ WF_vars(DeliverPod(p)) /\ WF_vars(RemovePod(p))
       /\ SF_vars(IgnorePod(p) \/ BeginPod(p))
  /\ \A r \in Requests :
       /\ WF_vars(DeliverRequest(r))
       /\ SF_vars(IgnoreRequest(r) \/ BeginRequest(r))
  /\ \A n \in Networks : WF_vars(DeliverNetwork(n))
  /\ WF_vars(PodWorkerStep) /\ WF_vars(WorkerStep) /\ WF_vars(Panic)

FairSpec == Spec /\ Fairness

-----------------------------------------------------------------------------

(* Where requests may bring a pod, and where they take it from. No pod is  *)
(* taken out of a network that another request has brought it to: the next *)
(* two properties are about pods that are moved once.                      *)
Goals(p) == {Target[r] : r \in {q \in Requests : p \in Selected[q]}}
Origins(p) == UNION {Sources[r] : r \in {q \in Requests : p \in Selected[q]}}
OneWay == \A p \in Pods : Goals(p) \cap Origins(p) = {}

(* A pod whose annotation names the network it was moved to has its port   *)
(* there, and no longer in the one it came from, unless the pod controller *)
(* put it back: the annotation is the last thing to change.                *)
Moved(p) == Live(p) /\ pod[p].obj.net # Home[p]

MovedWithPort ==
  \A p \in Pods : Moved(p) =>
    /\ <<pod[p].obj.net, p>> \in attached
    /\ <<Home[p], p>> \in attached => <<Home[p], p>> \in late

(* The address of a pod is not recorded in two networks.                   *)
RecordedOnce ==
  \A p \in Pods : \A n, m \in Networks :
    /\ net[n].obj # None /\ net[m].obj # None /\ IpOf[p] # None
    /\ net[n].obj.assigned[IpOf[p]] = p /\ net[m].obj.assigned[IpOf[p]] = p
    => n = m

(* Every request is answered, or gone.                                     *)
RequestAnswered ==
  \A r \in Requests :
    req[r].obj # None ~> (req[r].obj = None \/ req[r].obj.reason # "Pending")

(* A deleted pod goes away, whatever the quarantine does to it.            *)
DeletedPodGoes ==
  \A p \in Pods : (Exists(p) /\ pod[p].obj.del) ~> ~ Exists(p)

(* "MovedPodCount is the number of pods moved to the target L2Network."    *)
MovedCountKept ==
  [][\A r \in Requests :
       req[r].obj # None /\ req'[r].obj # None
         /\ req[r].obj.reason = "PodsMoved" /\ req'[r].obj.reason = "PodsMoved"
       => req[r].obj.moved =< req'[r].obj.moved]_vars
=============================================================================
