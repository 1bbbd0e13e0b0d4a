------------------------------- MODULE Overlay -------------------------------
(***************************************************************************)
(* OverlayReconciler.Reconcile. A new overlay gets the finalizer; then the *)
(* worker creates everything the overlay consists of, one object after the *)
(* other, and at last the monitoring network with the ports of the probes. *)
(* It takes an overlay with a replica set for one that has everything. For *)
(* a deleted overlay it deletes the attachments and the monitoring network *)
(* and removes the finalizer; the garbage collector does the rest, in its  *)
(* own time, while an overlay of the same name may be created again.       *)
(***************************************************************************)
EXTENDS Store, MonitoringAddresses

CONSTANTS Overlays,   \* the overlays of one namespace, by name
          Nodes, None,
          Specs,      \* what users ask for
          Repeats,    \* may a network be created, or deleted, when it already is?
          MaxLives    \* a bound on how often an overlay of one name is created

(* A specification: the nodes of the topology; how many interfaces each    *)
(* switch has; whether the overlay is monitored, from which CIDR, and      *)
(* whether the metrics are exported. Links and images change nothing here. *)
Specifications == [nodes : Seq(Nodes), interfaces : Nat, monitored : BOOLEAN,
                   cidr : CIDRs, exported : BOOLEAN]

ASSUME OverlayAssumption ==
  /\ Specs \subseteq Specifications
  /\ None \notin Overlays \cup Nodes /\ IsFiniteSet(Nodes)
  /\ Repeats \subseteq BOOLEAN /\ Repeats # {}
  /\ MaxFaults \in Nat /\ MaxLives \in Nat

-----------------------------------------------------------------------------
(* The objects an overlay consists of, in the order they are created. An   *)
(* object has a kind, the name of its overlay and its place: a node, or    *)
(* the number of an interface. The exporter, three objects taken for one,  *)
(* is called the same in every overlay of the namespace.                   *)

Child(kind, o, place) == [kind |-> kind, of |-> o, at |-> place]

Topology(o) == <<Child("topology", o, None)>>
Exporter == <<Child("exporter", None, None)>>

PerNode(kind, o, spec) == [i \in DOMAIN spec.nodes |-> Child(kind, o, spec.nodes[i])]

NetworkAttachmentDefinitions(o, spec) ==
  [i \in 1 .. spec.interfaces |-> Child("attachment", o, i)]

When(condition, seq) == IF condition THEN seq ELSE <<>>

(* A slip: the replica sets come first.                                    *)
SwitchesFirst(o, spec) ==
  PerNode("ReplicaSet", o, spec)
  \o Topology(o)
  \o NetworkAttachmentDefinitions(o, spec)
  \o PerNode("service", o, spec)
  \o When(spec.monitored /\ spec.exported, Exporter)
  \o When(spec.monitored, PerNode("CollectorConfig", o, spec))

ExternalResources(o, spec) ==
  Topology(o)
  \o NetworkAttachmentDefinitions(o, spec)
  \o PerNode("ReplicaSet", o, spec)
  \o PerNode("service", o, spec)
  \o When(spec.monitored /\ spec.exported, Exporter)
  \o When(spec.monitored, PerNode("CollectorConfig", o, spec))

(* They are not built for a monitored overlay without nodes, or with more  *)
(* of them than there are addresses.                                       *)
Buildable(spec) ==
  spec.monitored => CanAllocate(spec.cidr, DefaultIPStart, Len(spec.nodes))

Children ==
  UNION {Members(ExternalResources(o, s)) : o \in Overlays, s \in Specs}
ReplicaSets == {c \in Children : c.kind = "ReplicaSet"}

(* An object remembers its owner, which may be an earlier overlay of the   *)
(* same name, and what it was built from.                                  *)
ChildObject == [owner : Overlays, life : Nat, spec : Specs]

OverlayObject == [life : Nat, spec : Specs, fin : BOOLEAN, del : BOOLEAN]

-----------------------------------------------------------------------------

VARIABLES overlay,   \* the Overlay objects
          child,     \* the objects they consist of
          listed,    \* the replica sets in the cache
          queue,     \* the work queue
          work,      \* what the worker is doing
          sdn,       \* the monitoring networks in the SDN controller
          probed,    \* the probe ports in them, by overlay and node
          lives,     \* how often each overlay was created
          silenced   \* overlays whose monitoring was turned off: history

sdnVars == <<sdn, probed>>
historyVars == <<lives, silenced>>
vars == <<overlay, child, listed, queue, work, sdnVars, historyVars, faults>>

Holders == {Cache, Worker}
Stored(V) == [obj : V, cache : V, fresh : SUBSET Holders]

Launching == {"register", "create", "network", "ports"}
Deleting == {"prune", "silence", "unfinalize"}

(* The worker: its stage, the overlay, the copy it read, and how many of   *)
(* its objects are created.                                                *)
Work == [at : Launching \cup Deleting, of : Overlays, copy : OverlayObject, made : Nat]

ASSUME OverlayObjects == None \notin ChildObject \cup OverlayObject \cup Work

TypeOK ==
  /\ overlay \in [Overlays -> Stored(OverlayObject \cup {None})]
  /\ child \in [Children -> ChildObject \cup {None}]
  /\ listed \subseteq ReplicaSets
  /\ queue \subseteq Overlays /\ work \in Work \cup {None}
  /\ sdn \subseteq Overlays /\ probed \subseteq Overlays \X Nodes
  /\ lives \in [Overlays -> Nat] /\ silenced \subseteq Overlays
  /\ faults \in Nat

Init ==
  /\ overlay = [o \in Overlays |-> New(None)]
  /\ child = [c \in Children |-> None]
  /\ listed = {} /\ queue = {} /\ work = None
  /\ sdn = {} /\ probed = {}
  /\ lives = [o \in Overlays |-> 0] /\ silenced = {}
  /\ faults = 0

Exists(o) == overlay[o].obj # None
Live(o) == Exists(o) /\ ~ overlay[o].obj.del

-----------------------------------------------------------------------------
(* Users, the API server with its garbage collector, and the watches.      *)

CreateOverlay(o) ==
  /\ ~ Exists(o) /\ lives[o] < MaxLives
  /\ \E s \in Specs :
       overlay' = [overlay EXCEPT ![o] =
                     Write(@, [life |-> lives[o] + 1, spec |-> s,
                               fin |-> FALSE, del |-> FALSE])]
  /\ lives' = [lives EXCEPT ![o] = @ + 1]
  /\ UNCHANGED <<child, listed, queue, work, sdnVars, silenced, faults>>

(* Any field of the specification may be changed.                          *)
EditOverlay(o) ==
  /\ Live(o) /\ Fault("edit")
  /\ \E s \in Specs \ {overlay[o].obj.spec} :
       /\ overlay' = [overlay EXCEPT ![o] = Write(@, [@.obj EXCEPT !.spec = s])]
       /\ silenced' = silenced \cup
            {q \in {o} : overlay[o].obj.spec.monitored /\ ~ s.monitored}
  /\ UNCHANGED <<child, listed, queue, work, sdnVars, lives>>

(* Without the finalizer the object is gone at once.                       *)
DeleteOverlay(o) ==
  /\ Live(o)
  /\ overlay' = [overlay EXCEPT ![o] =
                   Write(@, IF @.obj.fin THEN [@.obj EXCEPT !.del = TRUE] ELSE None)]
  /\ UNCHANGED <<child, listed, queue, work, sdnVars, historyVars, faults>>

DeliverOverlay(o) ==
  /\ ~ Current(overlay[o], Cache)
  /\ overlay' = [overlay EXCEPT ![o] = Delivered(@)]
  /\ queue' = queue \cup {o}
  /\ UNCHANGED <<child, listed, work, sdnVars, historyVars, faults>>

(* A replica set appears in the cache, or is gone from it.                 *)
DeliverReplicaSet(c) ==
  /\ (c \in listed) # (child[c] # None)
  /\ listed' = IF child[c] # None THEN listed \cup {c} ELSE listed \ {c}
  /\ queue' = queue \cup {c.of}
  /\ UNCHANGED <<overlay, child, work, sdnVars, historyVars, faults>>

(* An object goes some time after its owner.                               *)
Orphaned(c) ==
  /\ child[c] # None
  /\ LET owner == overlay[child[c].owner].obj
     IN  owner # None => owner.life # child[c].life

Collect(c) ==
  /\ Orphaned(c)
  /\ child' = [child EXCEPT ![c] = None]
  /\ UNCHANGED <<overlay, listed, queue, work, sdnVars, historyVars, faults>>

(* The periodic resync, or an event of another object the overlay owns.    *)
Resync ==
  /\ queue' = queue \cup {o \in Overlays : overlay[o].cache # None}
  /\ UNCHANGED <<overlay, child, listed, work, sdnVars, historyVars, faults>>

Environment ==
  \/ \E o \in Overlays :
       CreateOverlay(o) \/ EditOverlay(o) \/ DeleteOverlay(o) \/ DeliverOverlay(o)
  \/ \E c \in ReplicaSets : DeliverReplicaSet(c)
  \/ \E c \in Children : Collect(c)
  \/ Resync

-----------------------------------------------------------------------------
(* The worker takes an overlay from the queue and reads it from the cache. *)

WorkingAt(stage) == work # None /\ work.at = stage

(* Is there a replica set of this name's owner, as far as the cache knows? *)
HasReplicaSet(o) == \E c \in listed : c.of = o

NeedsLaunch(o) == ~ overlay[o].cache.del /\ (overlay[o].cache.fin => ~ HasReplicaSet(o))
NeedsDeletion(o) == overlay[o].cache.del /\ overlay[o].cache.fin

Ignore(o) ==
  /\ work = None /\ o \in queue
  /\ overlay[o].cache # None => ~ NeedsLaunch(o) /\ ~ NeedsDeletion(o)
  /\ queue' = queue \ {o}
  /\ UNCHANGED <<overlay, child, listed, work, sdnVars, historyVars, faults>>

Start(o, stage) ==
  /\ work' = [at |-> stage, of |-> o, copy |-> overlay[o].cache, made |-> 0]
  /\ overlay' = [overlay EXCEPT ![o] = Copied(@, Worker)]
  /\ queue' = queue \ {o}
  /\ UNCHANGED <<child, listed, sdnVars, historyVars, faults>>

Begin(o) ==
  /\ work = None /\ o \in queue /\ overlay[o].cache # None
  /\ \/ NeedsLaunch(o) /\ ~ overlay[o].cache.fin /\ Start(o, "register")
     \/ NeedsLaunch(o) /\ overlay[o].cache.fin /\ Start(o, "create")
     \/ NeedsDeletion(o) /\ Start(o, "prune")

(* How the worker goes on: with the next stage, with an error that puts    *)
(* the overlay back on the queue, or with nothing more to do.              *)
GoOn(stage) == work' = [work EXCEPT !.at = stage] /\ UNCHANGED queue
Retry == work' = None /\ queue' = queue \cup {work.of}
Done == work' = None /\ UNCHANGED queue

(* The SDN controller may or may not accept what has been done already.    *)
SdnOutcomes(repeated) ==
  {r \in CallOutcomes : repeated /\ r.ok => TRUE \in Repeats}
  \cup {r \in {[done |-> TRUE, ok |-> FALSE, cost |-> 0]} :
          repeated /\ FALSE \in Repeats}

-----------------------------------------------------------------------------
(* An overlay that is being launched.                                      *)

AddFinalizer ==
  LET o == work.of
  IN  /\ WorkingAt("register")
      /\ \E u \in UpdateOutcomes(overlay[o], Worker, [work.copy EXCEPT !.fin = TRUE]) :
           /\ overlay' = [overlay EXCEPT ![o] = u.after]
           /\ faults' = faults + u.cost
           /\ IF ~ u.ok THEN Retry
              ELSE IF HasReplicaSet(o) THEN Done ELSE GoOn("create")
      /\ UNCHANGED <<child, listed, sdnVars, historyVars>>

Resources == ExternalResources(work.of, work.copy.spec)
ChildNow == [owner |-> work.of, life |-> work.copy.life, spec |-> work.copy.spec]

(* A slip: the monitoring network is left to the next time.                *)
ProceedAndRequeue(made) ==
  IF made < Len(Resources) THEN work' = [work EXCEPT !.made = made] /\ UNCHANGED queue
  ELSE Retry

(* After the last object comes the monitoring network; otherwise the       *)
(* overlay is looked at again after a while.                               *)
Proceed(made) ==
  IF made < Len(Resources) THEN work' = [work EXCEPT !.made = made] /\ UNCHANGED queue
  ELSE IF work.copy.spec.monitored THEN GoOn("network")
  ELSE Retry

(* A slip: an object that is there already is passed over.                 *)
CreateOrSkip ==
  LET c == Resources[work.made + 1]
  IN  /\ WorkingAt("create")
      /\ \/ /\ ~ Buildable(work.copy.spec)
            /\ Retry /\ UNCHANGED <<child, faults>>
         \/ /\ Buildable(work.copy.spec) /\ child[c] # None
            /\ Proceed(work.made + 1) /\ UNCHANGED <<child, faults>>
         \/ /\ Buildable(work.copy.spec) /\ child[c] = None
            /\ child' = [child EXCEPT ![c] = ChildNow]
            /\ Proceed(work.made + 1) /\ UNCHANGED faults
         \/ /\ Buildable(work.copy.spec) /\ child[c] = None /\ Fault("api")
            /\ \E v \in {None, ChildNow} : child' = [child EXCEPT ![c] = v]
            /\ Retry
      /\ UNCHANGED <<overlay, listed, sdnVars, historyVars>>

(* The next object is created. One that is there already is an error, like *)
(* any other, after which everything starts again from the first object.   *)
CreateExternalResource ==
  LET c == Resources[work.made + 1]
  IN  /\ WorkingAt("create")
      /\ \/ /\ ~ Buildable(work.copy.spec) \/ child[c] # None
            /\ Retry /\ UNCHANGED <<child, faults>>
         \/ /\ Buildable(work.copy.spec) /\ child[c] = None
            /\ child' = [child EXCEPT ![c] = ChildNow]
            /\ Proceed(work.made + 1) /\ UNCHANGED faults
         \/ /\ Buildable(work.copy.spec) /\ child[c] = None /\ Fault("api")
            /\ \E v \in {None, ChildNow} : child' = [child EXCEPT ![c] = v]
            /\ Retry
      /\ UNCHANGED <<overlay, listed, sdnVars, historyVars>>

CreateMonitoringNetwork ==
  LET o == work.of
  IN  /\ WorkingAt("network")
      /\ \E r \in SdnOutcomes(o \in sdn) :
           /\ sdn' = sdn \cup {q \in {o} : r.done}
           /\ faults' = faults + r.cost
           /\ IF r.ok THEN GoOn("ports") ELSE Retry
      /\ UNCHANGED <<overlay, child, listed, probed, historyVars>>

(* A slip: node and network are mixed up.                                  *)
ProbesOf(o, nodes) == {<<n, o>> : n \in nodes}

LPMPorts(o, nodes) == {<<o, n>> : n \in nodes}

(* The probe ports of all nodes join it, in one request.                   *)
AttachProbes ==
  LET o == work.of
      ports == LPMPorts(o, Members(work.copy.spec.nodes))
  IN  /\ WorkingAt("ports")
      /\ \E r \in SdnOutcomes(ports \subseteq probed) :
           /\ probed' = probed \cup {q \in ports : r.done}
           /\ faults' = faults + r.cost
      /\ Retry
      /\ UNCHANGED <<overlay, child, listed, sdn, historyVars>>

-----------------------------------------------------------------------------
(* An overlay that is being deleted.                                       *)

(* All attachments with its label are deleted; an error is ignored.        *)
DeleteAttachments ==
  LET labelled == {c \in Children : c.kind = "attachment" /\ c.of = work.of}
  IN  /\ WorkingAt("prune")
      /\ \/ /\ child' = [c \in Children |-> IF c \in labelled THEN None ELSE child[c]]
            /\ UNCHANGED faults
         \/ /\ UNCHANGED child /\ Fault("api")
      /\ IF work.copy.spec.monitored THEN GoOn("silence") ELSE GoOn("unfinalize")
      /\ UNCHANGED <<overlay, listed, sdnVars, historyVars>>

(* A slip: an error of the SDN controller is ignored, as that of the       *)
(* attachments is.                                                         *)
DeleteNetworkIgnoringError ==
  LET o == work.of
  IN  /\ WorkingAt("silence")
      /\ \E r \in SdnOutcomes(o \notin sdn) :
           /\ sdn' = sdn \ {q \in {o} : r.done}
           /\ probed' = {q \in probed : r.done => q[1] # o}
           /\ faults' = faults + r.cost
      /\ GoOn("unfinalize")
      /\ UNCHANGED <<overlay, child, listed, historyVars>>

DeleteMonitoringNetwork ==
  LET o == work.of
  IN  /\ WorkingAt("silence")
      /\ \E r \in SdnOutcomes(o \notin sdn) :
           /\ sdn' = sdn \ {q \in {o} : r.done}
           /\ probed' = {q \in probed : r.done => q[1] # o}
           /\ faults' = faults + r.cost
           /\ IF r.ok THEN GoOn("unfinalize") ELSE Retry
      /\ UNCHANGED <<overlay, child, listed, historyVars>>

(* A slip: a refused update is not tried again.                            *)
RemoveFinalizerOnce ==
  LET o == work.of
  IN  /\ WorkingAt("unfinalize")
      /\ \E u \in UpdateOutcomes(overlay[o], Worker, None) :
           /\ overlay' = [overlay EXCEPT ![o] = u.after]
           /\ faults' = faults + u.cost
      /\ Done
      /\ UNCHANGED <<child, listed, sdnVars, historyVars>>

RemoveFinalizer ==
  LET o == work.of
  IN  /\ WorkingAt("unfinalize")
      /\ \E u \in UpdateOutcomes(overlay[o], Worker, None) :
           /\ overlay' = [overlay EXCEPT ![o] = u.after]
           /\ faults' = faults + u.cost
           /\ IF u.ok THEN Done ELSE Retry
      /\ UNCHANGED <<child, listed, sdnVars, historyVars>>

WorkerStep ==
  \/ AddFinalizer \/ CreateExternalResource \/ CreateMonitoringNetwork \/ AttachProbes
  \/ DeleteAttachments \/ DeleteMonitoringNetwork \/ RemoveFinalizer

(* The operator starts again: it lists every object and looks at each.     *)
Restart ==
  /\ Fault("crash")
  /\ overlay' = [o \in Overlays |-> New(overlay[o].obj)]
  /\ listed' = {c \in ReplicaSets : child[c] # None}
  /\ queue' = {o \in Overlays : Exists(o)} /\ work' = None
  /\ UNCHANGED <<child, sdnVars, historyVars>>

Next ==
  \/ Environment
  \/ \E o \in Overlays : Ignore(o) \/ Begin(o)
  \/ WorkerStep \/ Restart

Spec == Init /\ [][Next]_vars

(* The watches deliver, the garbage collector collects, and the worker     *)
(* serves its queue in order.                                              *)
Fairness ==
  /\ \A o \in Overlays :
       WF_vars(DeliverOverlay(o)) /\ SF_vars(Ignore(o) \/ Begin(o))
  /\ WF_vars(\E c \in ReplicaSets : DeliverReplicaSet(c))
  /\ WF_vars(\E c \in Children : Collect(c))
  /\ WF_vars(WorkerStep)

FairSpec == Spec /\ Fairness

-----------------------------------------------------------------------------

(* The finalizer covers the monitoring network: it is never left in the    *)
(* SDN controller by an overlay that is gone, unless its monitoring was    *)
(* turned off before.                                                      *)
NetworkCovered ==
  \A o \in sdn : (Exists(o) /\ overlay[o].obj.fin) \/ o \in silenced

Mine(c, o) == child[c] # None /\ Exists(o) /\ child[c].owner = o
              /\ child[c].life = overlay[o].obj.life

(* A switch never runs without what its template mounts and attaches: the  *)
(* topology and the attachments of its own overlay are there, until that   *)
(* overlay is deleted, even when objects of an earlier overlay of the same *)
(* name are still being collected.                                         *)
SwitchesHaveConfig ==
  \A o \in Overlays : \A c \in ReplicaSets :
    Mine(c, o) /\ Live(o) =>
      /\ Mine(Child("topology", o, None), o)
      /\ \A i \in 1 .. child[c].spec.interfaces : Mine(Child("attachment", o, i), o)

(* The objects of an overlay were built from one and the same version of   *)
(* its specification, however often their creation was begun.              *)
BuiltFromOneSpec ==
  \A o \in Overlays : \A c, d \in Children :
    Mine(c, o) /\ Mine(d, o) => child[c].spec = child[d].spec

(* What the collectors of an overlay that is being built are told, for any *)
(* nodes and any CIDR it may have: each has an address of its own, where   *)
(* all the others expect it, and which is one for hosts, if the CIDR is    *)
(* written with the address of its subnet. With a node that is listed      *)
(* twice the second replica set fails before any collector is there.       *)
NodeLists ==
  {nodes \in UNION {[1 .. count -> Nodes] : count \in 1 .. Cardinality(Nodes)} :
     \A i, j \in DOMAIN nodes : nodes[i] = nodes[j] => i = j}

CollectorsAgree ==
  WorkingAt("create") /\ work.made = 0 /\ work.copy.spec.monitored =>
    \A nodes \in NodeLists, cidr \in CIDRs :
      CanAllocate(cidr, DefaultIPStart, Len(nodes)) => Agree(nodes, cidr)

(* A deleted overlay goes, as its name may be used again.                  *)
DeletedOverlayGoes ==
  \A o \in Overlays : (Exists(o) /\ overlay[o].obj.del) ~> ~ Exists(o)

(* The first overlay of a name that can be built gets everything, and its  *)
(* probes, if no request fails until then and nobody changes or deletes it.*)
Launched(o) ==
  LET spec == overlay[o].obj.spec
  IN  /\ \A c \in Members(ExternalResources(o, spec)) : Mine(c, o)
      /\ spec.monitored => o \in sdn /\ LPMPorts(o, Members(spec.nodes)) \subseteq probed

FirstLaunchCompletes ==
  \A o \in Overlays :
    Live(o) /\ overlay[o].obj.life = 1 /\ Buildable(overlay[o].obj.spec)
      ~> (faults > 0 \/ ~ Live(o) \/ Launched(o))
=============================================================================
