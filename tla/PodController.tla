--------------------------- MODULE PodController ---------------------------
(***************************************************************************)
(* PodReconciler.Reconcile. The controller has one worker, which takes one *)
(* pod at a time from the work queue. For a new pod it adds the finalizer  *)
(* and then attaches each of the pod's ports in the SDN controller; for a  *)
(* pod that is being deleted it detaches each port, labels its attachment  *)
(* as free, and last of all removes the finalizer. Between two requests    *)
(* anything else may happen, and each of them may fail.                    *)
(***************************************************************************)
EXTENDS Cluster

VARIABLES work,      \* what the worker is doing
          attached,  \* the ports that are in a network of the SDN controller
          lost,      \* the ports whose last detach failed: history
          dns        \* the inter-domain DNS entries of the providers

controllerVars == <<work, attached, lost, dns>>

(* A port of the SDN controller in a virtual network. The OpenFlow id of   *)
(* the switch stands for the node, the number of the port for the name of  *)
(* the attachment, "...veth<number>".                                      *)
Ports == [net : Networks, node : Nodes, nad : Nads]

(* A slip: the number of the port, without the OpenFlow id of its switch.  *)
PortWithoutSwitch(p, object, i) ==
  [net |-> Requested[p][i].net, nad |-> object.nads[i]]

PortOf(p, object, i) ==
  [net |-> Requested[p][i].net, node |-> object.node, nad |-> object.nads[i]]

(* The worker: its stage, the pod, the copy it read, the network it is at. *)
Work == [at : {"finalize", "attach", "detach", "release", "unfinalize"},
         pod : Pods, copy : PodObject, next : Nat]

ControllerTypeOK ==
  /\ work \in Work \cup {None}
  /\ attached \subseteq Ports
  /\ lost \subseteq Ports
  /\ dns \subseteq Networks \X Pods

ControllerInit ==
  /\ work = None
  /\ attached = {}
  /\ lost = {}
  /\ dns = {}

WorkingAt(stage) == work # None /\ work.at = stage

-----------------------------------------------------------------------------
(* The worker takes a pod from the queue and reads it from the cache.      *)

HasMultus(object) == object.nads # <<>>

NeedsAttach(object) == HasMultus(object) /\ ~ object.del /\ ~ object.fin
NeedsCleanup(object) == HasMultus(object) /\ object.del /\ object.fin

(* The pod is gone, errored, already attached, or done with.               *)
Ignore(p) ==
  /\ work = None /\ p \in queue
  /\ pod[p].cache # None
       => ~ NeedsAttach(pod[p].cache) /\ ~ NeedsCleanup(pod[p].cache)
  /\ queue' = queue \ {p}
  /\ UNCHANGED <<pod, nad, net, faults, controllerVars>>

Start(p, stage) ==
  /\ work' = [at |-> stage, pod |-> p, copy |-> pod[p].cache, next |-> 1]
  /\ pod' = [pod EXCEPT ![p] = Copied(@, Worker)]
  /\ queue' = queue \ {p}
  /\ UNCHANGED <<nad, net, faults, attached, lost, dns>>

(* A slip: the ports are attached before there is a finalizer.             *)
BeginWithoutFinalizer(p) ==
  /\ work = None /\ p \in queue
  /\ pod[p].cache # None /\ NeedsAttach(pod[p].cache)
  /\ Start(p, "attach")

BeginAttach(p) ==
  /\ work = None /\ p \in queue
  /\ pod[p].cache # None /\ NeedsAttach(pod[p].cache)
  /\ Start(p, "finalize")

BeginCleanup(p) ==
  /\ work = None /\ p \in queue
  /\ pod[p].cache # None /\ NeedsCleanup(pod[p].cache)
  /\ Start(p, "detach")

-----------------------------------------------------------------------------
(* A pod that is being created.                                            *)

AllNetworksKnown(p) == \A i \in Slots(p) : net[Requested[p][i].net].cache # None

(* The finalizer is written; then the networks are looked up in the cache. *)
(* An error of either step puts the pod back on the queue.                 *)
AddFinalizer ==
  LET p == work.pod
  IN  /\ WorkingAt("finalize")
      /\ \E o \in UpdateOutcomes(pod[p], Worker, [work.copy EXCEPT !.fin = TRUE]) :
           /\ pod' = [pod EXCEPT ![p] = Forgotten(o.after, Worker)]
           /\ faults' = faults + o.cost
           /\ IF o.ok /\ AllNetworksKnown(p)
              THEN work' = [work EXCEPT !.at = "attach"] /\ UNCHANGED queue
              ELSE work' = None /\ queue' = queue \cup {p}
      /\ UNCHANGED <<nad, net, attached, lost, dns>>

(* The next port joins its network, and a pod of an inter-domain network   *)
(* gets a DNS entry, whose failure is only logged. A failed attachment     *)
(* ends the work on the pod, and is not tried again.                       *)
AttachPod ==
  LET p == work.pod
      i == work.next
      port == PortOf(p, work.copy, i)
  IN  /\ WorkingAt("attach")
      /\ \E o \in CallOutcomes :
           /\ attached' = attached \cup {q \in {port} : o.done}
           /\ lost' = lost \ {q \in {port} : o.done}
           /\ faults' = faults + o.cost
           /\ work' = IF o.ok /\ i < Len(Requested[p])
                      THEN [work EXCEPT !.next = i + 1] ELSE None
           /\ dns' \in {dns} \cup {dns \cup {<<q.net, p>>} :
                               q \in {r \in {port} : o.ok /\ r.net \in Provided}}
      /\ UNCHANGED <<pod, nad, net, queue>>

-----------------------------------------------------------------------------
(* A pod that is being deleted.                                            *)

(* The next port leaves its network; an error is only logged.              *)
DetachPod ==
  LET port == PortOf(work.pod, work.copy, work.next)
  IN  /\ WorkingAt("detach")
      /\ \E o \in CallOutcomes :
           /\ attached' = attached \ {q \in {port} : o.done}
           /\ lost' = IF o.done THEN lost \ {port} ELSE lost \cup {port}
           /\ faults' = faults + o.cost
      /\ work' = [work EXCEPT !.at = "release"]
      /\ UNCHANGED <<pod, nad, net, queue, dns>>

(* A slip: an error of the update is only logged.                          *)
ReleaseIgnoringError ==
  LET i == work.next
      v == work.copy.nads[i]
      released == [nad[v].cache EXCEPT ![work.copy.node] = None]
  IN  /\ WorkingAt("release")
      /\ \E o \in UpdateOutcomes(nad[v], Cache, released) :
           /\ nad' = [nad EXCEPT ![v] = o.after]
           /\ faults' = faults + o.cost
      /\ work' = IF i < Len(Requested[work.pod])
                 THEN [work EXCEPT !.at = "detach", !.next = i + 1]
                 ELSE [work EXCEPT !.at = "unfinalize"]
      /\ UNCHANGED <<pod, net, queue, attached, lost, dns>>

(* A slip: the loop ends before the last network.                          *)
ReleaseAllButLast ==
  LET i == work.next
      v == work.copy.nads[i]
      released == [nad[v].cache EXCEPT ![work.copy.node] = None]
  IN  /\ WorkingAt("release")
      /\ \E o \in UpdateOutcomes(nad[v], Cache, released) :
           /\ nad' = [nad EXCEPT ![v] = o.after]
           /\ faults' = faults + o.cost
           /\ work' = IF ~ o.ok THEN None
                      ELSE IF i + 1 < Len(Requested[work.pod])
                           THEN [work EXCEPT !.at = "detach", !.next = i + 1]
                           ELSE [work EXCEPT !.at = "unfinalize"]
      /\ UNCHANGED <<pod, net, queue, attached, lost, dns>>

(* A slip: the labels of the attachment are cleared for every node.        *)
ReleaseOnEveryNode ==
  LET i == work.next
      v == work.copy.nads[i]
  IN  /\ WorkingAt("release")
      /\ \E o \in UpdateOutcomes(nad[v], Cache, [m \in Nodes |-> None]) :
           /\ nad' = [nad EXCEPT ![v] = o.after]
           /\ faults' = faults + o.cost
           /\ work' = IF ~ o.ok THEN None
                      ELSE IF i < Len(Requested[work.pod])
                           THEN [work EXCEPT !.at = "detach", !.next = i + 1]
                           ELSE [work EXCEPT !.at = "unfinalize"]
      /\ UNCHANGED <<pod, net, queue, attached, lost, dns>>

(* The attachment is read from the cache and labelled "false". An error    *)
(* ends the work on the pod without putting it back on the queue.          *)
ReleaseNetAttachDef ==
  LET i == work.next
      v == work.copy.nads[i]
      released == [nad[v].cache EXCEPT ![work.copy.node] = None]
  IN  /\ WorkingAt("release")
      /\ \E o \in UpdateOutcomes(nad[v], Cache, released) :
           /\ nad' = [nad EXCEPT ![v] = o.after]
           /\ faults' = faults + o.cost
           /\ work' = IF ~ o.ok THEN None
                      ELSE IF i < Len(Requested[work.pod])
                           THEN [work EXCEPT !.at = "detach", !.next = i + 1]
                           ELSE [work EXCEPT !.at = "unfinalize"]
      /\ UNCHANGED <<pod, net, queue, attached, lost, dns>>

(* A slip: the pod is written back as it was read.                         *)
KeepFinalizer ==
  LET p == work.pod
  IN  /\ WorkingAt("unfinalize")
      /\ \E o \in UpdateOutcomes(pod[p], Worker, work.copy) :
           /\ pod' = [pod EXCEPT ![p] = Forgotten(o.after, Worker)]
           /\ faults' = faults + o.cost
      /\ work' = None
      /\ UNCHANGED <<nad, net, queue, attached, lost, dns>>

(* The pod is written without the finalizer. An error is dropped too.      *)
RemoveFinalizer ==
  LET p == work.pod
  IN  /\ WorkingAt("unfinalize")
      /\ \E o \in UpdateOutcomes(pod[p], Worker, [work.copy EXCEPT !.fin = FALSE]) :
           /\ pod' = [pod EXCEPT ![p] = Forgotten(o.after, Worker)]
           /\ faults' = faults + o.cost
      /\ work' = None
      /\ UNCHANGED <<nad, net, queue, attached, lost, dns>>

WorkerStep ==
  AddFinalizer \/ AttachPod \/ DetachPod \/ ReleaseNetAttachDef \/ RemoveFinalizer

Controller ==
  \/ \E p \in Pods : Ignore(p) \/ BeginAttach(p) \/ BeginCleanup(p)
  \/ WorkerStep
=============================================================================
