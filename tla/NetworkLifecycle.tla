-------------------------- MODULE NetworkLifecycle --------------------------
(***************************************************************************)
(* L2NetworkReconciler.Reconcile. The controller has one worker. For a new *)
(* network it creates the virtual network in the SDN controller, reports   *)
(* so in the status and only then adds the finalizer; once that is written *)
(* it connects an inter-domain network to its provider and to the network  *)
(* edge device, and sets up the intrusion detection, each of them once. A  *)
(* deleted network is deleted in the SDN controller, and then loses the    *)
(* finalizer. Between two requests anything else may happen: users create  *)
(* and delete networks, the admission and cleanup of pods label and free   *)
(* the same attachments, other clusters use the same provider.             *)
(***************************************************************************)
EXTENDS Store

CONSTANTS Networks,   \* the L2Networks, by name
          Nads,       \* the NetworkAttachmentDefinitions
          None,
          Provided,   \* the networks whose spec has a Provider
          Watched,    \* the networks whose spec turns intrusion detection on
          EdgeNode,   \* the node of the network edge device
          IdsNode,    \* the node of the intrusion detection
          PodClaim,   \* what an attachment is labelled for when it is a pod's
          Repeats,    \* may a network be created, or deleted, when it already is?
          MaxLives    \* a bound on how often a network of one name is created

Nodes == {EdgeNode, IdsNode}
Owners == Networks \cup {PodClaim}

ASSUME LifecycleAssumption ==
  /\ None \notin Owners \cup Nads
  /\ PodClaim \notin Networks
  /\ Provided \subseteq Networks /\ Watched \subseteq Networks
  /\ Repeats \subseteq BOOLEAN /\ Repeats # {}
  /\ MaxFaults \in Nat /\ MaxLives \in Nat

VARIABLES net,      \* the L2Network objects
          nad,      \* the labels used-<node> of every attachment
          queue,    \* the work queue
          work,     \* what the worker is doing
          sdn,      \* the networks in the SDN controller of the cluster
          hosted,   \* the networks in the SDN controller of the provider
          joined,   \* the ports towards the edge device, in the SDN controller
          linked,   \* the networks the edge device is attached to
          zones,    \* the networks with a server in CoreDNS
          mirrored, \* the ports all traffic of a network is copied to
          sensors,  \* the networks with an intrusion detection deployment
          early,    \* networks last deleted before they had the finalizer: history
          lives,    \* how often each network was created
          evicted   \* networks whose port the cleanup of a pod has freed: history

sdnVars == <<sdn, hosted, joined, linked, zones, mirrored, sensors>>
historyVars == <<early, lives, evicted>>
vars == <<net, nad, queue, faults, work, sdnVars, historyVars>>

Connectivity == {"Available", "Unavailable", "Unknown"}

NetObject == [fin : BOOLEAN, del : BOOLEAN,
              internal : Connectivity, provider : Connectivity]

NewObject == [fin |-> FALSE, del |-> FALSE,
              internal |-> "Unavailable", provider |-> "Unavailable"]

ASSUME NetObjectAssumption == None \notin NetObject

Labels == [Nodes -> Owners \cup {None}]

Holders == {Cache, Worker}
Stored(V) == [obj : V, cache : V, fresh : SUBSET Holders]

Creating == {"create", "report", "finalize"}
Connecting == {"check", "offer", "announce", "join", "label", "link",
               "mirror", "deploy", "mark"}
Deleting == {"delete", "unfinalize"}

(* The worker: its stage, the network, the status it is about to write and *)
(* the attachment it has chosen.                                           *)
Work == [at : Creating \cup Connecting \cup Deleting, net : Networks,
         status : Connectivity, nad : Nads \cup {None}]

TypeOK ==
  /\ net \in [Networks -> Stored(NetObject \cup {None})]
  /\ nad \in [Nads -> Stored(Labels)]
  /\ queue \subseteq Networks
  /\ work \in Work \cup {None}
  /\ work # None /\ work.at \in {"label", "deploy", "mark"} => work.nad \in Nads
  /\ sdn \subseteq Networks /\ hosted \subseteq Networks
  /\ joined \subseteq Networks \X Nads /\ mirrored \subseteq Networks \X Nads
  /\ linked \subseteq Networks /\ zones \subseteq Networks
  /\ sensors \subseteq Networks /\ early \subseteq Networks
  /\ evicted \subseteq Networks
  /\ lives \in [Networks -> Nat] /\ faults \in Nat

Init ==
  /\ net = [n \in Networks |-> New(None)]
  /\ nad = [v \in Nads |-> New([m \in Nodes |-> None])]
  /\ queue = {} /\ work = None
  /\ sdn = {} /\ hosted = {} /\ joined = {} /\ linked = {}
  /\ zones = {} /\ mirrored = {} /\ sensors = {}
  /\ early = {} /\ evicted = {} /\ lives = [n \in Networks |-> 0]
  /\ faults = 0

Exists(n) == net[n].obj # None
Live(n) == Exists(n) /\ ~ net[n].obj.del

-----------------------------------------------------------------------------
(* Users, the API server, the watches, pods and other clusters.            *)

CreateL2Network(n) ==
  /\ ~ Exists(n) /\ lives[n] < MaxLives
  /\ net' = [net EXCEPT ![n] = Write(@, NewObject)]
  /\ lives' = [lives EXCEPT ![n] = @ + 1]
  /\ UNCHANGED <<nad, queue, faults, work, sdnVars, early, evicted>>

(* Without the finalizer the object is gone at once.                       *)
DeleteL2Network(n) ==
  /\ Live(n)
  /\ \/ /\ net[n].obj.fin
        /\ net' = [net EXCEPT ![n] = Write(@, [@.obj EXCEPT !.del = TRUE])]
        /\ UNCHANGED early
     \/ /\ ~ net[n].obj.fin
        /\ net' = [net EXCEPT ![n] = Write(@, None)]
        /\ early' = early \cup {n}
  /\ UNCHANGED <<nad, queue, faults, work, sdnVars, lives, evicted>>

(* The pod webhook writes the addresses into the status.                   *)
TouchNetwork(n) ==
  /\ Exists(n) /\ Fault("touch")
  /\ net' = [net EXCEPT ![n] = Touched(@)]
  /\ UNCHANGED <<nad, queue, work, sdnVars, historyVars>>

DeliverNetwork(n) ==
  /\ ~ Current(net[n], Cache)
  /\ net' = [net EXCEPT ![n] = Delivered(@)]
  /\ queue' = queue \cup {n}
  /\ UNCHANGED <<nad, faults, work, sdnVars, historyVars>>

(* A pod is admitted with a free attachment, labelled from a copy that is  *)
(* the latest one.                                                         *)
ClaimForPod(v, m) ==
  /\ nad[v].obj[m] = None
  /\ nad' = [nad EXCEPT ![v] = Write(@, [@.obj EXCEPT ![m] = PodClaim])]
  /\ UNCHANGED <<net, queue, faults, work, sdnVars, historyVars>>

(* The cleanup of a pod frees every attachment the pod was given. That may *)
(* be the port of a network: a pod that saw it free, long ago, and was     *)
(* refused its label is admitted with it all the same.                     *)
FreeForPod(v, m) ==
  /\ nad[v].obj[m] # None
  /\ nad' = [nad EXCEPT ![v] = Write(@, [@.obj EXCEPT ![m] = None])]
  /\ evicted' = evicted \cup ({nad[v].obj[m]} \cap Networks)
  /\ UNCHANGED <<net, queue, faults, work, sdnVars, early, lives>>

DeliverNad(v) ==
  /\ ~ Current(nad[v], Cache)
  /\ nad' = [nad EXCEPT ![v] = Delivered(@)]
  /\ UNCHANGED <<net, queue, faults, work, sdnVars, historyVars>>

(* The network is created at the provider by another cluster.              *)
HostForPeer(n) ==
  /\ n \in Provided \ hosted
  /\ hosted' = hosted \cup {n}
  /\ UNCHANGED <<net, nad, queue, faults, work, sdn, joined, linked, zones,
                 mirrored, sensors, historyVars>>

(* What a network owns goes with it.                                       *)
CollectSensor(n) ==
  /\ n \in sensors /\ ~ Exists(n)
  /\ sensors' = sensors \ {n}
  /\ UNCHANGED <<net, nad, queue, faults, work, sdn, hosted, joined, linked,
                 zones, mirrored, historyVars>>

Resync ==
  /\ queue' = queue \cup {n \in Networks : net[n].cache # None}
  /\ UNCHANGED <<net, nad, faults, work, sdnVars, historyVars>>

Environment ==
  \/ \E n \in Networks :
       \/ CreateL2Network(n) \/ DeleteL2Network(n) \/ TouchNetwork(n)
       \/ DeliverNetwork(n) \/ HostForPeer(n) \/ CollectSensor(n)
  \/ \E v \in Nads : DeliverNad(v) \/ \E m \in Nodes : ClaimForPod(v, m) \/ FreeForPod(v, m)
  \/ Resync

-----------------------------------------------------------------------------
(* The worker takes a network from the queue and reads it from the cache.  *)

WorkingAt(stage) == work # None /\ work.at = stage

NeedsCreation(object) == ~ object.del /\ ~ object.fin
NeedsDeletion(object) == object.del /\ object.fin

Ignore(n) ==
  /\ work = None /\ n \in queue
  /\ net[n].cache # None
       => ~ NeedsCreation(net[n].cache) /\ ~ NeedsDeletion(net[n].cache)
  /\ queue' = queue \ {n}
  /\ UNCHANGED <<net, nad, faults, work, sdnVars, historyVars>>

Start(n, stage) ==
  /\ work' = [at |-> stage, net |-> n, status |-> "Unknown", nad |-> None]
  /\ net' = [net EXCEPT ![n] = Copied(@, Worker)]
  /\ queue' = queue \ {n}
  /\ UNCHANGED <<nad, faults, sdnVars, historyVars>>

BeginCreation(n) ==
  /\ work = None /\ n \in queue
  /\ net[n].cache # None /\ NeedsCreation(net[n].cache)
  /\ Start(n, "create")

BeginDeletion(n) ==
  /\ work = None /\ n \in queue
  /\ net[n].cache # None /\ NeedsDeletion(net[n].cache)
  /\ Start(n, "delete")

(* How the worker goes on: with the next stage, with an error that puts    *)
(* the network back on the queue, or with nothing more to do.              *)
GoOn(stage) == work' = [work EXCEPT !.at = stage] /\ UNCHANGED queue
Choose(stage, v) == work' = [work EXCEPT !.at = stage, !.nad = v] /\ UNCHANGED queue
Conclude(stage, status) ==
  work' = [work EXCEPT !.at = stage, !.status = status] /\ UNCHANGED queue
Retry == work' = None /\ queue' = queue \cup {work.net}
Done == work' = None /\ UNCHANGED queue

(* The SDN controller may or may not accept what has been done already.    *)
SdnOutcomes(repeated) ==
  {o \in CallOutcomes : repeated /\ o.ok => TRUE \in Repeats}
  \cup {o \in {[done |-> TRUE, ok |-> FALSE, cost |-> 0]} :
          repeated /\ FALSE \in Repeats}

(* The result of an update is the worker's new copy.                       *)
Held(s) == [s EXCEPT !.fresh = @ \cup {Worker}]
Updated(s, o) == IF o.ok THEN Held(o.after) ELSE o.after

-----------------------------------------------------------------------------
(* A network that is being created.                                        *)

(* A slip: the answer of the SDN controller is not looked at.              *)
CreateIgnoringError ==
  LET n == work.net
  IN  /\ WorkingAt("create")
      /\ \E o \in SdnOutcomes(n \in sdn) :
           /\ sdn' = sdn \cup {m \in {n} : o.done}
           /\ faults' = faults + o.cost
           /\ Conclude("report", "Available")
      /\ UNCHANGED <<net, nad, hosted, joined, linked, zones, mirrored, sensors,
                     historyVars>>

CreateNetwork ==
  LET n == work.net
  IN  /\ WorkingAt("create")
      /\ \E o \in SdnOutcomes(n \in sdn) :
           /\ sdn' = sdn \cup {m \in {n} : o.done}
           /\ faults' = faults + o.cost
           /\ Conclude("report", IF o.ok THEN "Available" ELSE "Unavailable")
      /\ UNCHANGED <<net, nad, hosted, joined, linked, zones, mirrored, sensors,
                     historyVars>>

(* A slip: a creation that failed is reported but not tried again.         *)
UpdateControllerStatusOnce ==
  LET n == work.net
  IN  /\ WorkingAt("report")
      /\ \E o \in UpdateOutcomes(net[n], Worker,
                                 [net[n].obj EXCEPT !.internal = work.status]) :
           /\ net' = [net EXCEPT ![n] = Updated(@, o)]
           /\ faults' = faults + o.cost
      /\ IF work.status = "Available" THEN GoOn("finalize") ELSE Done
      /\ UNCHANGED <<nad, sdnVars, historyVars>>

(* The status is written, whose error is ignored; when the creation failed *)
(* the network is tried again.                                             *)
UpdateControllerStatus ==
  LET n == work.net
  IN  /\ WorkingAt("report")
      /\ \E o \in UpdateOutcomes(net[n], Worker,
                                 [net[n].obj EXCEPT !.internal = work.status]) :
           /\ net' = [net EXCEPT ![n] = Updated(@, o)]
           /\ faults' = faults + o.cost
      /\ IF work.status = "Available" THEN GoOn("finalize") ELSE Retry
      /\ UNCHANGED <<nad, sdnVars, historyVars>>

DetectIntrusions == IF work.net \in Watched THEN GoOn("mirror") ELSE Done

AddFinalizer ==
  LET n == work.net
  IN  /\ WorkingAt("finalize")
      /\ \E o \in UpdateOutcomes(net[n], Worker, [net[n].obj EXCEPT !.fin = TRUE]) :
           /\ net' = [net EXCEPT ![n] = Updated(@, o)]
           /\ faults' = faults + o.cost
           /\ IF ~ o.ok THEN Retry
              ELSE IF n \in Provided THEN GoOn("check") ELSE DetectIntrusions
      /\ UNCHANGED <<nad, sdnVars, historyVars>>

-----------------------------------------------------------------------------
(* The inter-domain connection. It is made after the finalizer is written, *)
(* so that no retry comes here again.                                      *)

(* Is the network there at the provider? Without a session, or an answer,  *)
(* it is reported as not connected; any other refusal counts as a no.      *)
CheckNetworkExists ==
  /\ WorkingAt("check")
  /\ \/ /\ Fault("sdn")
        /\ \/ \E s \in {"Unavailable", "Unknown"} : Conclude("announce", s)
           \/ GoOn("offer")
     \/ /\ UNCHANGED faults
        /\ IF work.net \in hosted THEN Conclude("announce", "Available")
                                  ELSE GoOn("offer")
  /\ UNCHANGED <<net, nad, sdnVars, historyVars>>

CreateAtProvider ==
  LET n == work.net
  IN  /\ WorkingAt("offer")
      /\ \E o \in SdnOutcomes(n \in hosted) :
           /\ hosted' = hosted \cup {m \in {n} : o.done}
           /\ faults' = faults + o.cost
           /\ Conclude("announce", IF o.ok THEN "Available" ELSE "Unavailable")
      /\ UNCHANGED <<net, nad, sdn, joined, linked, zones, mirrored, sensors,
                     historyVars>>

UpdateProviderStatus ==
  LET n == work.net
  IN  /\ WorkingAt("announce")
      /\ \E o \in UpdateOutcomes(net[n], Worker,
                                 [net[n].obj EXCEPT !.provider = work.status]) :
           /\ net' = [net EXCEPT ![n] = Updated(@, o)]
           /\ faults' = faults + o.cost
           /\ IF o.ok THEN GoOn("join") ELSE Retry
      /\ UNCHANGED <<nad, sdnVars, historyVars>>

FreeNetAttachDefs(m) == {v \in Nads : nad[v].cache[m] = None}

(* A slip: the list of free attachments is not checked.                    *)
ConnectWithoutCheck ==
  LET n == work.net
      free == FreeNetAttachDefs(EdgeNode)
  IN  /\ WorkingAt("join")
      /\ \E o \in CallOutcomes, v \in IF free = {} THEN {None} ELSE free :
           /\ joined' = joined \cup {q \in {<<n, v>>} : o.done /\ v # None}
           /\ faults' = faults + o.cost
           /\ IF o.ok THEN Choose("label", v) ELSE Done
      /\ UNCHANGED <<net, nad, sdn, hosted, linked, zones, mirrored, sensors,
                     historyVars>>

(* A free attachment of the edge device's node is read from the cache, and *)
(* its port joins the network. Without an edge device, or a free           *)
(* attachment, or when the request fails, the connection is given up.      *)
ConnectInternalSwitchToNED ==
  LET n == work.net
      free == FreeNetAttachDefs(EdgeNode)
  IN  /\ WorkingAt("join")
      /\ \/ /\ Fault("ned") \/ (free = {} /\ UNCHANGED faults)
            /\ Done
            /\ UNCHANGED <<nad, joined>>
         \/ \E v \in free, o \in CallOutcomes :
              /\ joined' = joined \cup {q \in {<<n, v>>} : o.done}
              /\ nad' = [nad EXCEPT ![v] = Copied(@, Worker)]
              /\ faults' = faults + o.cost
              /\ IF o.ok THEN Choose("label", v) ELSE Done
      /\ UNCHANGED <<net, sdn, hosted, linked, zones, mirrored, sensors, historyVars>>

(* A slip: a refused update is ignored.                                    *)
LabelIgnoringError ==
  LET v == work.nad
  IN  /\ WorkingAt("label")
      /\ \E o \in UpdateOutcomes(nad[v], Worker,
                                 [nad[v].obj EXCEPT ![EdgeNode] = work.net]) :
           /\ nad' = [nad EXCEPT ![v] = Forgotten(o.after, Worker)]
           /\ faults' = faults + o.cost
           /\ GoOn("link")
      /\ UNCHANGED <<net, sdnVars, historyVars>>

(* A slip: the label is patched, without a look at the resourceVersion.    *)
LabelByPatch ==
  LET v == work.nad
  IN  /\ WorkingAt("label")
      /\ nad' = [nad EXCEPT ![v] = Write(@, [@.obj EXCEPT ![EdgeNode] = work.net])]
      /\ GoOn("link")
      /\ UNCHANGED <<net, faults, sdnVars, historyVars>>

(* Only now is the attachment labelled; an error gives up the connection.  *)
LabelNetAttachDef ==
  LET v == work.nad
  IN  /\ WorkingAt("label")
      /\ \E o \in UpdateOutcomes(nad[v], Worker,
                                 [nad[v].obj EXCEPT ![EdgeNode] = work.net]) :
           /\ nad' = [nad EXCEPT ![v] = Forgotten(o.after, Worker)]
           /\ faults' = faults + o.cost
           /\ IF o.ok THEN GoOn("link") ELSE Done
      /\ UNCHANGED <<net, sdnVars, historyVars>>

(* The edge device gets the interface and its port joins the network at    *)
(* the provider; an error gives up. The entry in CoreDNS may fail silently.*)
CreateNewNEDConnection ==
  LET n == work.net
  IN  /\ WorkingAt("link")
      /\ \E o \in CallOutcomes, listed \in BOOLEAN :
           /\ linked' = linked \cup {m \in {n} : o.done}
           /\ zones' = zones \cup {m \in {n} : listed}
           /\ \/ listed = o.ok /\ faults' = faults + o.cost
              \/ o.ok /\ ~ listed /\ Fault("api")
           /\ IF o.ok THEN DetectIntrusions ELSE Done
      /\ UNCHANGED <<net, nad, sdn, hosted, joined, mirrored, sensors, historyVars>>

-----------------------------------------------------------------------------
(* The intrusion detection. An error puts the network back on the queue,   *)
(* but with the finalizer written the next round does nothing.             *)

SetUpMirrorPort ==
  LET n == work.net
      free == FreeNetAttachDefs(IdsNode)
  IN  /\ WorkingAt("mirror")
      /\ \/ /\ free = {} /\ Retry
            /\ UNCHANGED <<nad, mirrored, faults>>
         \/ \E v \in free, o \in CallOutcomes :
              /\ mirrored' = mirrored \cup {q \in {<<n, v>>} : o.done}
              /\ nad' = [nad EXCEPT ![v] = Copied(@, Worker)]
              /\ faults' = faults + o.cost
              /\ IF o.ok THEN Choose("deploy", v) ELSE Retry
      /\ UNCHANGED <<net, sdn, hosted, joined, linked, zones, sensors, historyVars>>

(* Errors of the creation are ignored.                                     *)
CreateIdsResources ==
  /\ WorkingAt("deploy")
  /\ \/ sensors' = sensors \cup {work.net} /\ UNCHANGED faults
     \/ UNCHANGED sensors /\ Fault("api")
  /\ GoOn("mark")
  /\ UNCHANGED <<net, nad, sdn, hosted, joined, linked, zones, mirrored, historyVars>>

LabelMirrorPort ==
  LET v == work.nad
  IN  /\ WorkingAt("mark")
      /\ \E o \in UpdateOutcomes(nad[v], Worker,
                                 [nad[v].obj EXCEPT ![IdsNode] = work.net]) :
           /\ nad' = [nad EXCEPT ![v] = Forgotten(o.after, Worker)]
           /\ faults' = faults + o.cost
           /\ IF o.ok THEN Done ELSE Retry
      /\ UNCHANGED <<net, sdnVars, historyVars>>

-----------------------------------------------------------------------------
(* A network that is being deleted.                                        *)

(* A slip: a failed deletion is taken for done.                            *)
DeleteIgnoringError ==
  LET n == work.net
  IN  /\ WorkingAt("delete")
      /\ \E o \in SdnOutcomes(n \notin sdn) :
           /\ sdn' = sdn \ {m \in {n} : o.done}
           /\ faults' = faults + o.cost
           /\ GoOn("unfinalize")
      /\ UNCHANGED <<net, nad, hosted, joined, linked, zones, mirrored, sensors,
                     historyVars>>

DeleteNetwork ==
  LET n == work.net
  IN  /\ WorkingAt("delete")
      /\ \E o \in SdnOutcomes(n \notin sdn) :
           /\ sdn' = sdn \ {m \in {n} : o.done}
           /\ faults' = faults + o.cost
           /\ IF o.ok THEN GoOn("unfinalize") ELSE Retry
      /\ UNCHANGED <<net, nad, hosted, joined, linked, zones, mirrored, sensors,
                     historyVars>>

(* A slip: an error ends the work without another try.                     *)
RemoveFinalizerOnce ==
  LET n == work.net
  IN  /\ WorkingAt("unfinalize")
      /\ \E o \in UpdateOutcomes(net[n], Worker, None) :
           /\ net' = [net EXCEPT ![n] = Forgotten(o.after, Worker)]
           /\ early' = early \ {m \in {n} : o.after.obj = None /\ Exists(n)}
           /\ faults' = faults + o.cost
      /\ Done
      /\ UNCHANGED <<nad, sdnVars, lives, evicted>>

(* With its last finalizer a deleted object is gone.                       *)
RemoveFinalizer ==
  LET n == work.net
  IN  /\ WorkingAt("unfinalize")
      /\ \E o \in UpdateOutcomes(net[n], Worker, None) :
           /\ net' = [net EXCEPT ![n] = Forgotten(o.after, Worker)]
           /\ early' = early \ {m \in {n} : o.after.obj = None /\ Exists(n)}
           /\ faults' = faults + o.cost
           /\ IF o.ok THEN Done ELSE Retry
      /\ UNCHANGED <<nad, sdnVars, lives, evicted>>

WorkerStep ==
  \/ CreateNetwork \/ UpdateControllerStatus \/ AddFinalizer
  \/ CheckNetworkExists \/ CreateAtProvider \/ UpdateProviderStatus
  \/ ConnectInternalSwitchToNED \/ LabelNetAttachDef \/ CreateNewNEDConnection
  \/ SetUpMirrorPort \/ CreateIdsResources \/ LabelMirrorPort
  \/ DeleteNetwork \/ RemoveFinalizer

(* A restart of the operator.                                              *)
Restart ==
  /\ Fault("crash")
  /\ work' = None
  /\ net' = [n \in Networks |-> New(net[n].obj)]
  /\ nad' = [v \in Nads |-> New(nad[v].obj)]
  /\ queue' = {n \in Networks : Exists(n)}
  /\ UNCHANGED <<sdnVars, historyVars>>

Next ==
  \/ Environment
  \/ \E n \in Networks : Ignore(n) \/ BeginCreation(n) \/ BeginDeletion(n)
  \/ WorkerStep
  \/ Restart

Spec == Init /\ [][Next]_vars

(* The watch delivers, and the worker serves its queue in order.           *)
Fairness ==
  /\ \A n \in Networks :
       /\ WF_vars(DeliverNetwork(n))
       /\ SF_vars(Ignore(n) \/ BeginCreation(n) \/ BeginDeletion(n))
  /\ \A v \in Nads : WF_vars(DeliverNad(v))
  /\ WF_vars(WorkerStep)

FairSpec == Spec /\ Fairness

-----------------------------------------------------------------------------

(* A network that the status calls available, or that has the finalizer,   *)
(* is in the SDN controller until it is deleted.                           *)
AvailableIsCreated ==
  \A n \in Networks :
    Live(n) /\ (net[n].obj.fin \/ net[n].obj.internal = "Available") => n \in sdn

(* What is in the SDN controller still has its object, and so a deletion   *)
(* to come, unless the object was deleted before it had the finalizer,     *)
(* which is written only after the network was created.                    *)
SdnCovered == \A n \in sdn : Exists(n) \/ n \in early

(* A network the edge device is attached to has a port on its node         *)
(* labelled for it, unless the cleanup of a pod freed that: no claim is    *)
(* lost in a race with admissions.                                         *)
HasEdgePort(n) == n \in evicted \/ \E v \in Nads : nad[v].obj[EdgeNode] = n

LinkedPortClaimed == \A n \in linked : HasEdgePort(n)

(* A deleted network goes away.                                            *)
DeletedNetworkGoes ==
  \A n \in Networks : (Exists(n) /\ net[n].obj.del) ~> ~ Exists(n)

(* A network gets its finalizer, unless it is deleted before.              *)
NetworkIsFinalized ==
  \A n \in Networks : Live(n) ~> (~ Live(n) \/ net[n].obj.fin)

(* Attachments are claimed only when free: the refinement of PortClaims.   *)
Claimed == INSTANCE PortClaims WITH
  Places <- Nads \X Nodes, Nobody <- None,
  owner <- [s \in Nads \X Nodes |-> nad[s[1]].obj[s[2]]]
ClaimSpec == Claimed!Spec

-----------------------------------------------------------------------------
(* The invariant behind these properties, in parts.                        *)

(* A cached copy with the latest resourceVersion says what the object says, *)
CopiesCurrent ==
  /\ \A n \in Networks : Current(net[n], Cache) => net[n].cache = net[n].obj
  /\ \A v \in Nads : Current(nad[v], Cache) => nad[v].cache = nad[v].obj

(* and the worker's shows what it is at: a network without the finalizer   *)
(* to create, one with it to connect, and one to delete, which the cache   *)
(* shows as well.                                                          *)
WorkerCopyCurrent ==
  work # None /\ Current(net[work.net], Worker) =>
    LET s == net[work.net]
    IN  /\ s.obj # None
        /\ work.at \in Creating =>
             ~ s.obj.del /\ s.cache # None /\ ~ s.cache.del
        /\ work.at \in Deleting => s.cache = s.obj /\ NeedsDeletion(s.obj)

(* While a deleted object is still in the cache, or being worked on, the   *)
(* next one of its name is not created yet.                                *)
NotYetCreated(n) ==
  Live(n) => ~ net[n].obj.fin /\ net[n].obj.internal # "Available"

StaleDeletion ==
  /\ \A n \in Networks :
       net[n].cache # None /\ net[n].cache.del => NotYetCreated(n)
  /\ work # None /\ work.at \in Deleting => NotYetCreated(work.net)

(* What the worker reports and finalizes is in the SDN controller, and     *)
(* what it unfinalizes is not.                                             *)
WorkerKnowsSdn ==
  work # None =>
    /\ work.at = "report" /\ work.status = "Available" => work.net \in sdn
    /\ work.at = "finalize" => work.net \in sdn
    /\ work.at = "unfinalize" => work.net \notin sdn

(* A network seen without the finalizer is there, or was deleted without   *)
(* it.                                                                     *)
Accounted(n) == Exists(n) \/ n \in early

CreationCovered ==
  /\ \A n \in Networks :
       net[n].cache # None /\ NeedsCreation(net[n].cache) => Accounted(n)
  /\ work # None /\ work.at \in Creating => Accounted(work.net)

TypeInv == TypeOK /\ CopiesCurrent /\ WorkerCopyCurrent

(* An attachment the worker has chosen is free as long as its copy is the  *)
(* latest one; it goes on to the edge device only with one of its own.     *)
ChosenFree ==
  work # None /\ work.nad # None /\ Current(nad[work.nad], Worker) =>
    /\ work.at = "label" => nad[work.nad].obj[EdgeNode] = None
    /\ work.at \in {"deploy", "mark"} => nad[work.nad].obj[IdsNode] = None

LinkClaimed == WorkingAt("link") => HasEdgePort(work.net)

=============================================================================
