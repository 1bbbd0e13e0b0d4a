----------------------------- MODULE EdgeDevice -----------------------------
(***************************************************************************)
(* NetworkEdgeDeviceReconciler.Reconcile. Whatever it is called for, it    *)
(* first completes the edge device with the defaults and writes it back.   *)
(* Without a replica set it then creates the monitoring network and the    *)
(* objects of the device; with one it applies the configuration, which     *)
(* tells the switch its neighbours, again. For a deleted device it deletes *)
(* the monitoring network and removes the finalizer; the garbage collector *)
(* does the rest, in its own time, while a device of the same name may be  *)
(* created again.                                                          *)
(***************************************************************************)
EXTENDS Store, Sequences

CONSTANTS Devices,     \* the network edge devices of a namespace, by name
          Neighbors, None,
          Specs,       \* what users ask for
          Unprobed,    \* the neighbours that are given without an address
                       \* for probes
          Repeats,     \* may a network be created, or deleted, when it already is?
          Kindless,    \* may an object be applied that does not name its kind?
          MaxLives     \* a bound on how often a device of one name is created

(* A specification: the neighbours, and whether they are probed. Provider, *)
(* images and addresses change nothing here.                               *)
Specifications == [neighbors : SUBSET Neighbors, monitored : BOOLEAN]

ASSUME DeviceAssumption ==
  /\ Specs \subseteq Specifications
  /\ None \notin Devices \cup Neighbors /\ Unprobed \subseteq Neighbors
  /\ Repeats \subseteq BOOLEAN /\ Repeats # {}
  /\ Kindless \subseteq BOOLEAN /\ Kindless # {}
  /\ MaxFaults \in Nat /\ MaxLives \in Nat

-----------------------------------------------------------------------------
(* The device, with the node it was given, by its user or by default; and  *)
(* the objects it consists of, in the order they are created.              *)

DeviceObject == [life : Nat, spec : Specs, placed : BOOLEAN, fin : BOOLEAN, del : BOOLEAN]

Kinds == {"config", "ReplicaSet", "CollectorConfig"}

(* A slip: the replica set comes first.                                    *)
SwitchFirst(spec) ==
  <<"ReplicaSet", "config">>
  \o IF spec.monitored THEN <<"CollectorConfig">> ELSE <<>>

ExternalResources(spec) ==
  <<"config", "ReplicaSet">>
  \o IF spec.monitored THEN <<"CollectorConfig">> ELSE <<>>

(* An object remembers its owner, which may be an earlier device of the    *)
(* same name, or none, and what it was written from.                       *)
Nobody == 0
ChildObject == [life : Nat, spec : Specs]

(* Some neighbour has no address that could be probed.                     *)
Unmeasurable(spec) == spec.monitored /\ spec.neighbors \cap Unprobed # {}

-----------------------------------------------------------------------------

VARIABLES device,        \* the NetworkEdgeDevice objects
          child,         \* the objects they consist of
          listed,        \* the devices with a replica set in the cache
          controlPlane,  \* is there a control-plane node?
          queue,         \* the work queue
          work,          \* what the worker is doing
          sdn,           \* the monitoring networks in the SDN controller
          probed,        \* the devices whose probe port is in theirs
          lives,         \* how often each device was created
          silenced       \* devices whose monitoring was turned off: history

sdnVars == <<sdn, probed>>
historyVars == <<lives, silenced>>
vars == <<device, child, listed, controlPlane, queue, work, sdnVars, historyVars, faults>>

Holders == {Cache, Worker}
Stored(V) == [obj : V, cache : V, fresh : SUBSET Holders]

Launching == {"register", "network", "ports", "create"}
Applying == {"apply", "measure"}
Deleting == {"silence", "unfinalize"}

(* The worker: its stage, the device, the copy it has, and how many of its *)
(* objects are created. Past the defaults the device has a node.           *)
Work == [at : {"default", "panic"} \cup Launching \cup Applying \cup Deleting,
         of : Devices, copy : DeviceObject, made : Nat]

ASSUME DeviceObjects == None \notin ChildObject \cup DeviceObject \cup Work

TypeOK ==
  /\ device \in [Devices -> Stored(DeviceObject \cup {None})]
  /\ child \in [Devices \X Kinds -> ChildObject \cup {None}]
  /\ listed \subseteq Devices /\ controlPlane \in BOOLEAN
  /\ queue \subseteq Devices /\ work \in Work \cup {None}
  /\ work # None => work.at = "default" \/ work.copy.placed
  /\ sdn \subseteq Devices /\ probed \subseteq Devices
  /\ lives \in [Devices -> Nat] /\ silenced \subseteq Devices
  /\ faults \in Nat

Init ==
  /\ device = [d \in Devices |-> New(None)]
  /\ child = [c \in Devices \X Kinds |-> None]
  /\ listed = {} /\ controlPlane \in BOOLEAN
  /\ queue = {} /\ work = None
  /\ sdn = {} /\ probed = {}
  /\ lives = [d \in Devices |-> 0] /\ silenced = {}
  /\ faults = 0

Exists(d) == device[d].obj # None
Live(d) == Exists(d) /\ ~ device[d].obj.del

-----------------------------------------------------------------------------
(* Users, the API server with its garbage collector, and the watches.      *)

CreateDevice(d) ==
  /\ ~ Exists(d) /\ lives[d] < MaxLives
  /\ \E s \in Specs, given \in BOOLEAN :
       device' = [device EXCEPT ![d] =
                    Write(@, [life |-> lives[d] + 1, spec |-> s, placed |-> given,
                              fin |-> FALSE, del |-> FALSE])]
  /\ lives' = [lives EXCEPT ![d] = @ + 1]
  /\ UNCHANGED <<child, listed, controlPlane, queue, work, sdnVars, silenced, faults>>

EditDevice(d) ==
  /\ Live(d) /\ Fault("edit")
  /\ \E s \in Specs \ {device[d].obj.spec} :
       /\ device' = [device EXCEPT ![d] = Write(@, [@.obj EXCEPT !.spec = s])]
       /\ silenced' = silenced \cup
            {q \in {d} : device[d].obj.spec.monitored /\ ~ s.monitored}
  /\ UNCHANGED <<child, listed, controlPlane, queue, work, sdnVars, lives>>

(* Without the finalizer the object is gone at once.                       *)
DeleteDevice(d) ==
  /\ Live(d)
  /\ device' = [device EXCEPT ![d] =
                  Write(@, IF @.obj.fin THEN [@.obj EXCEPT !.del = TRUE] ELSE None)]
  /\ UNCHANGED <<child, listed, controlPlane, queue, work, sdnVars, historyVars, faults>>

DeliverDevice(d) ==
  /\ ~ Current(device[d], Cache)
  /\ device' = [device EXCEPT ![d] = Delivered(@)]
  /\ queue' = queue \cup {d}
  /\ UNCHANGED <<child, listed, controlPlane, work, sdnVars, historyVars, faults>>

HasSwitch(d) == child[<<d, "ReplicaSet">>] # None

(* The replica set appears in the cache, or is gone from it.               *)
DeliverReplicaSet(d) ==
  /\ (d \in listed) # HasSwitch(d)
  /\ listed' = IF HasSwitch(d) THEN listed \cup {d} ELSE listed \ {d}
  /\ queue' = queue \cup {d}
  /\ UNCHANGED <<device, child, controlPlane, work, sdnVars, historyVars, faults>>

(* An object goes some time after its owner; one without an owner stays.   *)
Orphaned(c) ==
  /\ child[c] # None /\ child[c].life # Nobody
  /\ Exists(c[1]) => device[c[1]].obj.life # child[c].life

Collect(c) ==
  /\ Orphaned(c)
  /\ child' = [child EXCEPT ![c] = None]
  /\ UNCHANGED <<device, listed, controlPlane, queue, work, sdnVars, historyVars, faults>>

JoinControlPlane ==
  /\ ~ controlPlane /\ controlPlane' = TRUE
  /\ UNCHANGED <<device, child, listed, queue, work, sdnVars, historyVars, faults>>

(* The periodic resync, or an event of another object the device owns.     *)
Resync ==
  /\ queue' = queue \cup {d \in Devices : device[d].cache # None}
  /\ UNCHANGED <<device, child, listed, controlPlane, work, sdnVars, historyVars, faults>>

Environment ==
  \/ \E d \in Devices :
       \/ CreateDevice(d) \/ EditDevice(d) \/ DeleteDevice(d)
       \/ DeliverDevice(d) \/ DeliverReplicaSet(d)
  \/ \E c \in Devices \X Kinds : Collect(c)
  \/ JoinControlPlane \/ Resync

-----------------------------------------------------------------------------
(* The worker takes a device from the queue and reads it from the cache.   *)

WorkingAt(stage) == work # None /\ work.at = stage

Ignore(d) ==
  /\ work = None /\ d \in queue /\ device[d].cache = None
  /\ queue' = queue \ {d}
  /\ UNCHANGED <<device, child, listed, controlPlane, work, sdnVars, historyVars, faults>>

Begin(d) ==
  /\ work = None /\ d \in queue /\ device[d].cache # None
  /\ work' = [at |-> "default", of |-> d, copy |-> device[d].cache, made |-> 0]
  /\ device' = [device EXCEPT ![d] = Copied(@, Worker)]
  /\ queue' = queue \ {d}
  /\ UNCHANGED <<child, listed, controlPlane, sdnVars, historyVars, faults>>

(* How the worker goes on: with the next stage, with an error that puts    *)
(* the device back on the queue, or with nothing more to do.               *)
GoOn(stage) == work' = [work EXCEPT !.at = stage] /\ UNCHANGED queue
Retry == work' = None /\ queue' = queue \cup {work.of}
Done == work' = None /\ UNCHANGED queue

(* A slip: only the configuration of the collector is kept up to date.     *)
NextForLaunch(copy) ==
  IF copy.del THEN (IF copy.spec.monitored THEN "silence" ELSE "unfinalize")
  ELSE IF ~ copy.fin THEN "register"
  ELSE IF work.of \in listed THEN "measure"
  ELSE IF Unmeasurable(copy.spec) THEN "panic"
  ELSE IF copy.spec.monitored THEN "network"
  ELSE "create"

(* What comes next for a device that was read, completed or finalized. The *)
(* resources of a monitored device are built before its network is created,*)
(* and the operator dies of a neighbour whose address it cannot read.      *)
NextStage(copy) ==
  IF copy.del THEN (IF copy.spec.monitored THEN "silence" ELSE "unfinalize")
  ELSE IF ~ copy.fin THEN "register"
  ELSE IF work.of \in listed THEN "apply"
  ELSE IF Unmeasurable(copy.spec) THEN "panic"
  ELSE IF copy.spec.monitored THEN "network"
  ELSE "create"

GoOnWith(copy) ==
  /\ work' = [work EXCEPT !.at = NextStage(copy), !.copy = copy]
  /\ UNCHANGED queue

(* The result of an update is the worker's new copy.                       *)
Updated(s, u) == IF u.ok THEN [u.after EXCEPT !.fresh = @ \cup {Worker}] ELSE u.after

(* A slip: the device is written back without a node.                      *)
DefaultsIgnoringError ==
  LET d == work.of
      complete == [work.copy EXCEPT !.placed = @ \/ controlPlane]
  IN  /\ WorkingAt("default")
      /\ \E u \in UpdateOutcomes(device[d], Worker, complete) :
           /\ device' = [device EXCEPT ![d] = Updated(@, u)]
           /\ faults' = faults + u.cost
           /\ IF u.ok THEN GoOnWith(complete) ELSE Retry
      /\ UNCHANGED <<child, listed, controlPlane, sdnVars, historyVars>>

(* A device without a node gets the control-plane node, once there is one. *)
ApplyDefaults ==
  LET d == work.of
      complete == [work.copy EXCEPT !.placed = TRUE]
  IN  /\ WorkingAt("default")
      /\ \/ /\ ~ work.copy.placed /\ ~ controlPlane
            /\ Retry /\ UNCHANGED <<device, faults>>
         \/ /\ work.copy.placed \/ controlPlane
            /\ \E u \in UpdateOutcomes(device[d], Worker, complete) :
                 /\ device' = [device EXCEPT ![d] = Updated(@, u)]
                 /\ faults' = faults + u.cost
                 /\ IF u.ok THEN GoOnWith(complete) ELSE Retry
      /\ UNCHANGED <<child, listed, controlPlane, sdnVars, historyVars>>

AddFinalizer ==
  LET d == work.of
      finalized == [work.copy EXCEPT !.fin = TRUE]
  IN  /\ WorkingAt("register")
      /\ \E u \in UpdateOutcomes(device[d], Worker, finalized) :
           /\ device' = [device EXCEPT ![d] = Updated(@, u)]
           /\ faults' = faults + u.cost
           /\ IF u.ok THEN GoOnWith(finalized) ELSE Retry
      /\ UNCHANGED <<child, listed, controlPlane, sdnVars, historyVars>>

-----------------------------------------------------------------------------
(* A device without a replica set.                                         *)

(* The SDN controller may or may not accept what has been done already.    *)
SdnOutcomes(repeated) ==
  {r \in CallOutcomes : repeated /\ r.ok => TRUE \in Repeats}
  \cup {r \in {[done |-> TRUE, ok |-> FALSE, cost |-> 0]} :
          repeated /\ FALSE \in Repeats}

CreateMonitoringNetwork ==
  LET d == work.of
  IN  /\ WorkingAt("network")
      /\ \E r \in SdnOutcomes(d \in sdn) :
           /\ sdn' = sdn \cup {q \in {d} : r.done}
           /\ faults' = faults + r.cost
           /\ IF r.ok THEN GoOn("ports") ELSE Retry
      /\ UNCHANGED <<device, child, listed, controlPlane, probed, historyVars>>

(* A slip: the switch is created without its probe.                        *)
AttachProbeIgnoringError ==
  LET d == work.of
  IN  /\ WorkingAt("ports")
      /\ \E r \in SdnOutcomes(d \in probed) :
           /\ probed' = probed \cup {q \in {d} : r.done}
           /\ faults' = faults + r.cost
      /\ GoOn("create")
      /\ UNCHANGED <<device, child, listed, controlPlane, sdn, historyVars>>

AttachProbe ==
  LET d == work.of
  IN  /\ WorkingAt("ports")
      /\ \E r \in SdnOutcomes(d \in probed) :
           /\ probed' = probed \cup {q \in {d} : r.done}
           /\ faults' = faults + r.cost
           /\ IF r.ok THEN GoOn("create") ELSE Retry
      /\ UNCHANGED <<device, child, listed, controlPlane, sdn, historyVars>>

Resources == ExternalResources(work.copy.spec)
ChildNow == [life |-> work.copy.life, spec |-> work.copy.spec]

(* The next object is created. One that is there already is an error, like *)
(* any other, after which everything starts again, with the network. After *)
(* the last one the device is looked at again in a while.                  *)
CreateExternalResource ==
  LET c == <<work.of, Resources[work.made + 1]>>
  IN  /\ WorkingAt("create")
      /\ \/ child[c] # None /\ Retry /\ UNCHANGED <<child, faults>>
         \/ /\ child[c] = None
            /\ child' = [child EXCEPT ![c] = ChildNow]
            /\ IF work.made + 1 < Len(Resources)
               THEN work' = [work EXCEPT !.made = @ + 1] /\ UNCHANGED queue
               ELSE Retry
            /\ UNCHANGED faults
         \/ /\ child[c] = None /\ Fault("api")
            /\ \E v \in {None, ChildNow} : child' = [child EXCEPT ![c] = v]
            /\ Retry
      /\ UNCHANGED <<device, listed, controlPlane, sdnVars, historyVars>>

-----------------------------------------------------------------------------
(* A device with a replica set.                                            *)

(* What an object becomes when it is applied. It keeps its owner; one that *)
(* was not there has none.                                                 *)
Applied(object) ==
  [life |-> IF object = None THEN Nobody ELSE object.life, spec |-> work.copy.spec]

(* The collector's configuration is built next, for a monitored device.    *)
AfterConfig == IF work.copy.spec.monitored THEN GoOn("measure") ELSE Done

ApplyConfig ==
  LET c == <<work.of, "config">>
  IN  /\ WorkingAt("apply")
      /\ \/ /\ child' = [child EXCEPT ![c] = Applied(@)]
            /\ AfterConfig /\ UNCHANGED faults
         \/ /\ Fault("api")
            /\ \E v \in {child[c], Applied(child[c])} : child' = [child EXCEPT ![c] = v]
            /\ Retry
      /\ UNCHANGED <<device, listed, controlPlane, sdnVars, historyVars>>

(* It does not name its kind.                                              *)
ApplyCollectorConfig ==
  LET c == <<work.of, "CollectorConfig">>
  IN  /\ WorkingAt("measure")
      /\ \/ /\ Unmeasurable(work.copy.spec)
            /\ GoOn("panic") /\ UNCHANGED <<child, faults>>
         \/ /\ ~ Unmeasurable(work.copy.spec)
            /\ \/ /\ TRUE \in Kindless
                  /\ child' = [child EXCEPT ![c] = Applied(@)]
                  /\ Done /\ UNCHANGED faults
               \/ /\ FALSE \in Kindless
                  /\ Retry /\ UNCHANGED <<child, faults>>
               \/ /\ Fault("api")
                  /\ \E v \in {child[c], Applied(child[c])} :
                       child' = [child EXCEPT ![c] = v]
                  /\ Retry
      /\ UNCHANGED <<device, listed, controlPlane, sdnVars, historyVars>>

-----------------------------------------------------------------------------
(* A device that is being deleted.                                         *)

(* A slip: an error of the SDN controller is ignored.                      *)
DeleteNetworkIgnoringError ==
  LET d == work.of
  IN  /\ WorkingAt("silence")
      /\ \E r \in SdnOutcomes(d \notin sdn) :
           /\ sdn' = sdn \ {q \in {d} : r.done}
           /\ probed' = probed \ {q \in {d} : r.done}
           /\ faults' = faults + r.cost
      /\ GoOn("unfinalize")
      /\ UNCHANGED <<device, child, listed, controlPlane, historyVars>>

DeleteMonitoringNetwork ==
  LET d == work.of
  IN  /\ WorkingAt("silence")
      /\ \E r \in SdnOutcomes(d \notin sdn) :
           /\ sdn' = sdn \ {q \in {d} : r.done}
           /\ probed' = probed \ {q \in {d} : r.done}
           /\ faults' = faults + r.cost
           /\ IF r.ok THEN GoOn("unfinalize") ELSE Retry
      /\ UNCHANGED <<device, child, listed, controlPlane, historyVars>>

(* A slip: a refused update is not tried again.                            *)
RemoveFinalizerOnce ==
  LET d == work.of
  IN  /\ WorkingAt("unfinalize")
      /\ \E u \in UpdateOutcomes(device[d], Worker, None) :
           /\ device' = [device EXCEPT ![d] = u.after]
           /\ faults' = faults + u.cost
      /\ Done
      /\ UNCHANGED <<child, listed, controlPlane, sdnVars, historyVars>>

RemoveFinalizer ==
  LET d == work.of
  IN  /\ WorkingAt("unfinalize")
      /\ \E u \in UpdateOutcomes(device[d], Worker, None) :
           /\ device' = [device EXCEPT ![d] = u.after]
           /\ faults' = faults + u.cost
           /\ IF u.ok THEN Done ELSE Retry
      /\ UNCHANGED <<child, listed, controlPlane, sdnVars, historyVars>>

WorkerStep ==
  \/ ApplyDefaults \/ AddFinalizer
  \/ CreateMonitoringNetwork \/ AttachProbe \/ CreateExternalResource
  \/ ApplyConfig \/ ApplyCollectorConfig
  \/ DeleteMonitoringNetwork \/ RemoveFinalizer

-----------------------------------------------------------------------------

(* The operator starts again: it lists every object and looks at each.     *)
StartAgain ==
  /\ device' = [d \in Devices |-> New(device[d].obj)]
  /\ listed' = {d \in Devices : HasSwitch(d)}
  /\ queue' = {d \in Devices : Exists(d)} /\ work' = None
  /\ UNCHANGED <<child, controlPlane, sdnVars, historyVars>>

Restart == Fault("crash") /\ StartAgain
Panic == WorkingAt("panic") /\ StartAgain /\ UNCHANGED faults

Next ==
  \/ Environment
  \/ \E d \in Devices : Ignore(d) \/ Begin(d)
  \/ WorkerStep \/ Panic \/ Restart

Spec == Init /\ [][Next]_vars

(* The watches deliver, the garbage collector collects, and the worker     *)
(* serves its queue in order. They serve nothing for long while the        *)
(* operator keeps dying.                                                   *)
Fairness ==
  /\ \A d \in Devices :
       /\ WF_vars(DeliverDevice(d)) /\ WF_vars(DeliverReplicaSet(d))
       /\ SF_vars(Ignore(d) \/ Begin(d))
  /\ WF_vars(\E c \in Devices \X Kinds : Collect(c))
  /\ WF_vars(WorkerStep) /\ WF_vars(Panic)

FairSpec == Spec /\ Fairness

-----------------------------------------------------------------------------

(* The finalizer covers the monitoring network: it is never left in the    *)
(* SDN controller by a device that is gone, unless its monitoring was      *)
(* turned off before.                                                      *)
NetworkCovered ==
  \A d \in sdn : (Exists(d) /\ device[d].obj.fin) \/ d \in silenced

Mine(d, kind) == child[<<d, kind>>] # None /\ Exists(d)
                 /\ child[<<d, kind>>].life = device[d].obj.life

(* A switch never runs without its configuration and, if it was made with  *)
(* a collector, without the network and the port the collector probes      *)
(* through, until its device is deleted, even when objects of an earlier   *)
(* device of the same name are still being collected.                      *)
SwitchHasAll ==
  \A d \in Devices :
    Live(d) /\ Mine(d, "ReplicaSet") =>
      /\ Mine(d, "config")
      /\ child[<<d, "ReplicaSet">>].spec.monitored => d \in sdn \cap probed

(* A deleted device goes, as its name may be used again.                   *)
DeletedDeviceGoes ==
  \A d \in Devices : (Exists(d) /\ device[d].obj.del) ~> ~ Exists(d)

(* The configuration of the first device of a name, once it has a node,    *)
(* comes to name the neighbours it has and follows every change of them,   *)
(* unless a neighbour lacks an address.                                    *)
NeighborsFollowed ==
  \A d \in Devices : \A s \in Specs :
    Live(d) /\ device[d].obj.placed /\ device[d].obj.life = 1
      /\ device[d].obj.spec = s /\ ~ Unmeasurable(s)
    ~> \/ ~ Live(d) \/ device[d].obj.spec # s
       \/ child[<<d, "config">>] # None /\ child[<<d, "config">>].spec = s
=============================================================================
