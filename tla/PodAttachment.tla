--------------------------- MODULE PodAttachment ---------------------------
(***************************************************************************)
(* Admission and reconciliation of pods, composed: the handlers of the pod *)
(* webhook, the worker of the pod controller, the users and the watches    *)
(* take turns in any order over the same pods, attachments and networks,   *)
(* and the operator may be restarted at any point.                         *)
(***************************************************************************)
EXTENDS PodWebhook, PodController

vars == <<clusterVars, hook, controllerVars>>

(* A restart of the operator: its handlers and its worker are lost, the    *)
(* caches are filled anew, and every pod is put on the queue. The API      *)
(* server does not create a pod whose admission got no answer.             *)
Restart ==
  /\ Fault("crash")
  /\ work' = None
  /\ hook' = [p \in Pods |-> IF hook[p].at \in {"claim", "record"}
                             THEN NoHandler("done") ELSE hook[p]]
  /\ pod' = [p \in Pods |-> New(pod[p].obj)]
  /\ nad' = [v \in Nads |-> New(nad[v].obj)]
  /\ net' = [n \in Networks |-> New(net[n].obj)]
  /\ queue' = {p \in Pods : pod[p].obj # None}
  /\ UNCHANGED <<attached, lost, dns>>

Init == ClusterInit /\ HookInit /\ ControllerInit

Next ==
  \/ Environment /\ UNCHANGED <<hook, controllerVars>>
  \/ Webhook /\ UNCHANGED controllerVars
  \/ Controller /\ UNCHANGED hook
  \/ Restart

Spec == Init /\ [][Next]_vars

(* The watches deliver, the API server removes deleted pods, the resync    *)
(* comes round, and the worker goes on. Its queue is served in order, so   *)
(* no pod is overtaken for ever: strong fairness for each.                 *)
Fairness ==
  /\ \A p \in Pods :
       /\ WF_vars((DeliverPod(p) \/ RemovePod(p)) /\ UNCHANGED <<hook, controllerVars>>)
       /\ SF_vars((Ignore(p) \/ BeginAttach(p) \/ BeginCleanup(p)) /\ UNCHANGED hook)
  /\ \A v \in Nads : WF_vars(DeliverNad(v) /\ UNCHANGED <<hook, controllerVars>>)
  /\ \A n \in Networks :
       WF_vars(DeliverNetwork(n) /\ UNCHANGED <<hook, controllerVars>>)
  /\ WF_vars(Resync /\ UNCHANGED <<hook, controllerVars>>)
  /\ WF_vars(WorkerStep /\ UNCHANGED hook)

FairSpec == Spec /\ Fairness

-----------------------------------------------------------------------------

TypeOK == ClusterTypeOK /\ HookTypeOK /\ ControllerTypeOK

Exists(p) == pod[p].obj # None

(* p holds the ports of its Multus annotation: it is finalized and listed. *)
Covers(p, port) ==
  /\ Exists(p) /\ pod[p].obj.fin
  /\ HasMultus(pod[p].obj)
  /\ \E i \in Slots(p) : port = PortOf(p, pod[p].obj, i)

(* Every port in a network of the SDN controller belongs to a pod that     *)
(* still has the finalizer, so that its cleanup is yet to come, unless its *)
(* detach failed: Reconcile adds the finalizer before the first attach and *)
(* removes it after the last detach, whatever restarts and errors come in  *)
(* between.                                                                *)
AttachmentsCovered ==
  \A port \in attached : port \in lost \/ \E p \in Pods : Covers(p, port)

(* When a pod loses the finalizer, no attachment is labelled for it.       *)
CleanupReleasesClaims ==
  [][\A p \in Pods :
       Exists(p) /\ pod[p].obj.fin /\ (pod'[p].obj = None \/ ~ pod'[p].obj.fin)
       => \A v \in Nads, m \in Nodes : nad'[v].obj[m] # p]_vars

(* An address recorded for a pod is not given to another pod that did not  *)
(* ask for it: concurrent admissions compute addresses from stale copies,  *)
(* but only one of them is recorded.                                       *)
RecordedAddressKept ==
  [][\A n \in Networks, a \in Ips :
       net[n].obj # None /\ net[n].obj.assigned[a] # None
         => LET p == net'[n].obj.assigned[a]
            IN  \/ p = net[n].obj.assigned[a]
                \/ \E i \in Slots(p) : Requested[p][i] = [net |-> n, ip |-> a]]_vars

(* Every pod that is deleted goes away, whatever finitely many requests    *)
(* fail: work that was dropped on an error is taken up again.              *)
DeletedPodGoes == \A p \in Pods : (Exists(p) /\ pod[p].obj.del) ~> ~ Exists(p)

(* The refinement of PortClaims.                                           *)
Claimed == INSTANCE PortClaims WITH
  Owners <- Pods, Places <- Nads \X Nodes, Nobody <- None,
  owner <- [s \in Nads \X Nodes |-> nad[s[1]].obj[s[2]]]
ClaimSpec == Claimed!Spec

-----------------------------------------------------------------------------
(* The invariant behind these properties, in parts.                        *)

(* What a handler chose, a pod lists and the worker read is one attachment *)
(* per requested network, or none at all in an errored pod.                *)
Lists(p, nads) == nads \in [Slots(p) -> Nads]

WellFormed(p, h) ==
  /\ h.at \in {"claim", "record"} =>
       /\ h.node \in Nodes /\ Lists(p, h.nads)
       /\ h.ips \in [Slots(p) -> Answers \cup {None}]
       /\ h.next \in Slots(p)
  /\ h.at = "reply" => h.node \in Nodes /\ (Lists(p, h.nads) \/ h.nads = <<>>)
  /\ h.at \in {"idle", "done"} => h.nads = <<>> /\ h.ips = <<>>

HandlerShape == \A p \in Pods : WellFormed(p, hook[p])

PodShape ==
  \A p \in Pods :
    /\ Exists(p) => Lists(p, pod[p].obj.nads) \/ pod[p].obj.nads = <<>>
    /\ pod[p].cache # None
         => Lists(p, pod[p].cache.nads) \/ pod[p].cache.nads = <<>>

WorkShape ==
  work # None => Lists(work.pod, work.copy.nads) /\ work.next \in Slots(work.pod)

(* A copy with the latest resourceVersion says what the object says; only  *)
(* a network that exists was copied by a handler.                          *)
UpToDate(s) == Current(s, Cache) => s.cache = s.obj

CopiesCurrent ==
  /\ \A p \in Pods : UpToDate(pod[p])
  /\ \A v \in Nads : UpToDate(nad[v])
  /\ \A n \in Networks : UpToDate(net[n])
  /\ work # None /\ Current(pod[work.pod], Worker) => pod[work.pod].obj = work.copy

HandlerSeesNetwork ==
  \A n \in Networks, p \in Pods : Current(net[n], p) => net[n].obj # None

TypeInv == /\ TypeOK
           /\ HandlerShape /\ PodShape /\ WorkShape
           /\ CopiesCurrent /\ HandlerSeesNetwork

(* A handler whose copy of an attachment is still the latest one chose an  *)
(* attachment that is still free,                                          *)
HandlerSeesFree ==
  \A p \in Pods : \A i \in DOMAIN hook[p].nads :
    LET v == hook[p].nads[i]
    IN  Current(nad[v], p) => nad[v].obj[hook[p].node] = None

(* and one whose copy of a network is, an address nobody was given.        *)
HandlerSeesUnassigned ==
  \A p \in Pods : \A i \in Slots(p) \cap DOMAIN hook[p].ips :
    LET n == Requested[p][i].net
    IN  IsDynamic(p, i) /\ Current(net[n], p) /\ hook[p].ips[i] \in Ips
          /\ net[n].obj # None
        => net[n].obj.assigned[hook[p].ips[i]] = None

(* A pod that brings its own address, or asks for none, is given just that. *)
HandlerKeepsRequest ==
  \A p \in Pods : \A i \in Slots(p) \cap DOMAIN hook[p].ips :
    ~ IsDynamic(p, i) => hook[p].ips[i] = Requested[p][i].ip

(* A pod is created once, after its admission, and keeps its ports.        *)
SamePorts(a, b) == a.node = b.node /\ a.nads = b.nads

PodLife ==
  \A p \in Pods :
    /\ hook[p].at # "done" =>
         pod[p].obj = None /\ pod[p].cache = None /\ (work # None => work.pod # p)
    /\ Exists(p) /\ pod[p].cache # None => SamePorts(pod[p].obj, pod[p].cache)
    /\ Exists(p) /\ work # None /\ work.pod = p => SamePorts(pod[p].obj, work.copy)

(* While the worker attaches, the finalizer is there; while it cleans up,  *)
(* what it has done stays done.                                            *)
AttachesFinalized ==
  WorkingAt("attach") => Exists(work.pod) /\ pod[work.pod].obj.fin

Detached(i) ==
  \/ work.at = "unfinalize"
  \/ work.at = "detach" /\ i < work.next
  \/ work.at = "release" /\ i =< work.next

DetachedStay ==
  work # None =>
    \A i \in Slots(work.pod) :
      Detached(i) => PortOf(work.pod, work.copy, i) \notin attached \ lost

Released(i) ==
  \/ work.at = "unfinalize"
  \/ work.at \in {"detach", "release"} /\ i < work.next

ReleasedStay ==
  work # None =>
    \A i \in Slots(work.pod) :
      Released(i) => nad[work.copy.nads[i]].obj[work.copy.node] # work.pod

(* An attachment is labelled only for a pod that lists it.                 *)
ClaimsListed ==
  \A v \in Nads, m \in Nodes, p \in Pods :
    nad[v].obj[m] = p =>
      /\ hook[p].at # "idle"
      /\ hook[p].at # "done" =>
           hook[p].node = m /\ \E i \in DOMAIN hook[p].nads : hook[p].nads[i] = v
      /\ Exists(p) =>
           pod[p].obj.node = m /\ \E i \in DOMAIN pod[p].obj.nads : pod[p].obj.nads[i] = v

-----------------------------------------------------------------------------
(* What the comments and the documentation say, and the code does not keep *)
(* up.                                                                     *)

Live(p) == Exists(p) /\ ~ pod[p].obj.del

(* Two live pods of one node do not use the same attachment: the webhook   *)
(* updates the attachment to say that it is taken.                         *)
PortNotShared ==
  \A p, q \in Pods :
    Live(p) /\ Live(q) /\ pod[p].obj.node = pod[q].obj.node /\ p # q
    => \A i \in DOMAIN pod[p].obj.nads, j \in DOMAIN pod[q].obj.nads :
         pod[p].obj.nads[i] # pod[q].obj.nads[j]

(* A live pod of existing networks gets its ports attached at last: the    *)
(* controller waits until the networks are created.                        *)
WaitsForNetworks ==
  \A p \in Pods :
    Live(p) /\ (\A i \in Slots(p) : net[Requested[p][i].net].obj # None)
    ~> \/ ~ Live(p)
       \/ \A i \in DOMAIN pod[p].obj.nads : PortOf(p, pod[p].obj, i) \in attached
=============================================================================
