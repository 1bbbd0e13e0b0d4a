------------------------------ MODULE Cluster ------------------------------
(***************************************************************************)
(* The Kubernetes objects that the pod webhook and the pod controller      *)
(* share, and what users, the API server and the watches do to them.       *)
(*                                                                         *)
(* Every member of Pods is one pod object (one UID), created at most once. *)
(***************************************************************************)
EXTENDS Store, Sequences

CONSTANTS Pods, Networks, Nodes,
          Nads,        \* the NetworkAttachmentDefinitions, one per switch port
          None,
          Ips,         \* what a pod may be recorded with in a network's status
          Requested,   \* the l2sm/networks annotation of each pod
          Layer3,      \* the networks whose spec has a NetworkCIDR
          Provided     \* the networks whose spec has a Provider

Request == [net : Networks, ip : Ips \cup {None}]

ASSUME ClusterAssumption ==
  /\ Requested \in [Pods -> Seq(Request)]
  /\ None \notin Pods \cup Networks \cup Nodes \cup Nads \cup Ips
  /\ Layer3 \subseteq Networks /\ Provided \subseteq Networks
  /\ MaxFaults \in Nat

(* A pod asks for at least one network, and for no network twice.          *)
ASSUME RequestAssumption ==
  \A p \in Pods :
    /\ Requested[p] # <<>>
    /\ \A i, j \in DOMAIN Requested[p] :
         Requested[p][i].net = Requested[p][j].net => i = j

Slots(p) == DOMAIN Requested[p]

VARIABLES pod,    \* the Pod objects
          nad,    \* the labels used-<node> of every NetworkAttachmentDefinition
          net,    \* the status of every L2Network
          queue   \* the work queue of the pod controller

clusterVars == <<pod, nad, net, queue, faults>>

-----------------------------------------------------------------------------
(* The cache, the worker of the pod controller and the admission of each   *)
(* pod hold copies.                                                        *)

Holders == {Cache, Worker} \cup Pods

ASSUME HolderAssumption == {Cache, Worker} \cap Pods = {}

Stored(V) == [obj : V, cache : V, fresh : SUBSET Holders]

-----------------------------------------------------------------------------
(* The objects themselves.                                                 *)

(* A pod after admission: nads and ips are its Multus annotation, one      *)
(* attachment and one address per requested network (None: a link-local    *)
(* IPv6 address, or none at all), or <<>> when the webhook put l2sm/error  *)
(* on the pod.                                                             *)
PodObject == [node : Nodes, nads : Seq(Nads), ips : Seq(Ips \cup {None}),
              fin : BOOLEAN, del : BOOLEAN]

(* The label says "true" or "false" only; the model remembers for whom it  *)
(* was set.                                                                *)
Claims == [Nodes -> Pods \cup {None}]

(* An address that could not be written down is recorded too, under the    *)
(* key "<nil>", here None.                                                 *)
NetStatus == [last : Ips \cup {None},
              assigned : [Ips \cup {None} -> Pods \cup {None}],
              count : Nat]

NewStatus == [last |-> None, assigned |-> [a \in Ips \cup {None} |-> None],
              count |-> 0]

ASSUME ObjectAssumption == None \notin PodObject \cup NetStatus

ClusterTypeOK ==
  /\ pod \in [Pods -> Stored(PodObject \cup {None})]
  /\ nad \in [Nads -> Stored(Claims)]
  /\ net \in [Networks -> Stored(NetStatus \cup {None})]
  /\ queue \subseteq Pods
  /\ faults \in Nat

ClusterInit ==
  /\ pod = [p \in Pods |-> New(None)]
  /\ nad = [v \in Nads |-> New([m \in Nodes |-> None])]
  /\ net = [n \in Networks |-> New(None)]
  /\ queue = {}
  /\ faults = 0

-----------------------------------------------------------------------------
(* What users, the API server and the watches do.                          *)

CreateNetwork(n) ==
  /\ net[n].obj = None
  /\ net' = [net EXCEPT ![n] = Write(@, NewStatus)]
  /\ UNCHANGED <<pod, nad, queue, faults>>

DeletePod(p) ==
  /\ pod[p].obj # None
  /\ ~ pod[p].obj.del
  /\ pod' = [pod EXCEPT ![p] = Write(@, [@.obj EXCEPT !.del = TRUE])]
  /\ UNCHANGED <<nad, net, queue, faults>>

(* The API server removes a deleted pod without finalizers.                *)
RemovePod(p) ==
  /\ pod[p].obj # None
  /\ pod[p].obj.del /\ ~ pod[p].obj.fin
  /\ pod' = [pod EXCEPT ![p] = Write(@, None)]
  /\ UNCHANGED <<nad, net, queue, faults>>

(* The kubelet writes the status of a pod.                                 *)
TouchPod(p) ==
  /\ pod[p].obj # None
  /\ Fault("touch")
  /\ pod' = [pod EXCEPT ![p] = Touched(@)]
  /\ UNCHANGED <<nad, net, queue>>

(* The L2Network controller writes the status of a network.                *)
TouchNetwork(n) ==
  /\ net[n].obj # None
  /\ Fault("touch")
  /\ net' = [net EXCEPT ![n] = Touched(@)]
  /\ UNCHANGED <<pod, nad, queue>>

(* A watch event; that of a pod also puts it on the queue.                 *)
DeliverPod(p) ==
  /\ ~ Current(pod[p], Cache)
  /\ pod' = [pod EXCEPT ![p] = Delivered(@)]
  /\ queue' = queue \cup {p}
  /\ UNCHANGED <<nad, net, faults>>

DeliverNad(v) ==
  /\ ~ Current(nad[v], Cache)
  /\ nad' = [nad EXCEPT ![v] = Delivered(@)]
  /\ UNCHANGED <<pod, net, queue, faults>>

DeliverNetwork(n) ==
  /\ ~ Current(net[n], Cache)
  /\ net' = [net EXCEPT ![n] = Delivered(@)]
  /\ UNCHANGED <<pod, nad, queue, faults>>

(* The periodic resync puts every pod of the cache on the queue.           *)
Resync ==
  /\ queue' = queue \cup {p \in Pods : pod[p].cache # None}
  /\ UNCHANGED <<pod, nad, net, faults>>

Environment ==
  \/ \E n \in Networks : CreateNetwork(n) \/ TouchNetwork(n) \/ DeliverNetwork(n)
  \/ \E p \in Pods : DeletePod(p) \/ RemovePod(p) \/ TouchPod(p) \/ DeliverPod(p)
  \/ \E v \in Nads : DeliverNad(v)
  \/ Resync
=============================================================================
