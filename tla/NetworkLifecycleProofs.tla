----------------------- MODULE NetworkLifecycleProofs -----------------------
(***************************************************************************)
(* Proofs about the L2Network controller: its type invariant, that what it *)
(* calls available is in the SDN controller, that what is in the SDN       *)
(* controller has its object, and that attachments are claimed only when   *)
(* they are free.                                                          *)
(***************************************************************************)
EXTENDS NetworkLifecycle, TLAPS

USE DEF Cache, Worker, Current

(* The values of an object's store.                                        *)
NetValue == NetObject \cup {None}

-----------------------------------------------------------------------------
(* The operators of the store.                                             *)

(* An update succeeds only from the latest copy.                           *)
LEMMA OutcomeCases ==
  ASSUME NEW s, NEW h, NEW v, NEW o \in UpdateOutcomes(s, h, v)
  PROVE  /\ o.ok \in BOOLEAN /\ o.cost \in {0, 1}
         /\ \/ o.after = s /\ ~ o.ok
            \/ Current(s, h) /\ o.after = Write(s, v)
<1>1. CASE ~ Current(s, h)
  <2>1. o = [after |-> s, ok |-> FALSE, cost |-> 0]
    BY <1>1 DEF UpdateOutcomes
  <2> QED
    BY <2>1
<1>2. CASE Current(s, h)
  <2>1. o \in {[after |-> Write(s, v), ok |-> TRUE, cost |-> 0],
               [after |-> s, ok |-> FALSE, cost |-> 1],
               [after |-> Write(s, v), ok |-> FALSE, cost |-> 1]}
    BY <1>2 DEF UpdateOutcomes
  <2>2. CASE o = [after |-> Write(s, v), ok |-> TRUE, cost |-> 0]
    BY <1>2, <2>2
  <2>3. CASE o = [after |-> s, ok |-> FALSE, cost |-> 1]
    BY <2>3
  <2>4. CASE o = [after |-> Write(s, v), ok |-> FALSE, cost |-> 1]
    BY <1>2, <2>4
  <2> QED
    BY <2>1, <2>2, <2>3, <2>4
<1> QED
  BY <1>1, <1>2

(* A request that is answered well was executed.                           *)
Answered(o) ==
  /\ o.ok \in BOOLEAN /\ o.done \in BOOLEAN /\ o.cost \in {0, 1}
  /\ o.ok => o.done

LEMMA CallCases ==
  ASSUME NEW o \in CallOutcomes
  PROVE  Answered(o)
<1>1. CASE o = [done |-> TRUE, ok |-> TRUE, cost |-> 0]
  BY <1>1 DEF Answered
<1>2. CASE o = [done |-> FALSE, ok |-> FALSE, cost |-> 1]
  BY <1>2 DEF Answered
<1>3. CASE o = [done |-> TRUE, ok |-> FALSE, cost |-> 1]
  BY <1>3 DEF Answered
<1> QED
  BY <1>1, <1>2, <1>3 DEF CallOutcomes

LEMMA SdnCases ==
  ASSUME NEW r, NEW o \in SdnOutcomes(r)
  PROVE  Answered(o)
<1>1. CASE o \in CallOutcomes
  BY <1>1, CallCases
<1>2. CASE o = [done |-> TRUE, ok |-> FALSE, cost |-> 0]
  BY <1>2 DEF Answered
<1> QED
  BY <1>1, <1>2 DEF SdnOutcomes

LEMMA WriteType ==
  ASSUME NEW V, NEW s \in Stored(V), NEW v \in V
  PROVE  /\ Write(s, v) \in Stored(V)
         /\ Write(s, v).obj = v /\ Write(s, v).cache = s.cache
         /\ Write(s, v) = s \/ Write(s, v).fresh = {}
  BY DEF Stored, Write, Holders

(* What an update by the worker makes of an object s, when it writes v.    *)
WorkerWrote(V, s, v, t) ==
  /\ t \in Stored(V)
  /\ t.cache = s.cache
  /\ t.obj = s.obj \/ (Current(s, Worker) /\ t.obj = v)
  /\ Current(t, Cache) => Current(s, Cache) /\ t.obj = s.obj
  /\ Current(t, Worker) => Current(s, Worker)

LEMMA UpdatedWrote ==
  ASSUME NEW V, NEW s \in Stored(V), NEW v, Current(s, Worker) => v \in V,
         NEW o \in UpdateOutcomes(s, Worker, v)
  PROVE  /\ WorkerWrote(V, s, v, Updated(s, o))
         /\ o.ok => Current(s, Worker) /\ Updated(s, o).obj = v
<1>1. CASE o.after = s /\ ~ o.ok
  BY <1>1 DEF Updated, WorkerWrote, Stored
<1>2. CASE Current(s, Worker) /\ o.after = Write(s, v)
  <2>1. /\ o.after \in Stored(V) /\ o.after.obj = v /\ o.after.cache = s.cache
        /\ o.after = s \/ o.after.fresh = {}
    BY <1>2, WriteType
  <2> QED
    BY <1>2, <2>1 DEF Updated, Held, WorkerWrote, Stored, Holders
<1> QED
  BY <1>1, <1>2, OutcomeCases

LEMMA ForgottenWrote ==
  ASSUME NEW V, NEW s \in Stored(V), NEW v, Current(s, Worker) => v \in V,
         NEW o \in UpdateOutcomes(s, Worker, v)
  PROVE  /\ WorkerWrote(V, s, v, Forgotten(o.after, Worker))
         /\ o.ok => Current(s, Worker) /\ Forgotten(o.after, Worker).obj = v
         /\ ~ Current(Forgotten(o.after, Worker), Worker)
         /\ Forgotten(o.after, Worker).obj = o.after.obj
<1>1. CASE o.after = s /\ ~ o.ok
  BY <1>1 DEF Forgotten, WorkerWrote, Stored, Holders
<1>2. CASE Current(s, Worker) /\ o.after = Write(s, v)
  <2>1. /\ o.after \in Stored(V) /\ o.after.obj = v /\ o.after.cache = s.cache
        /\ o.after = s \/ o.after.fresh = {}
    BY <1>2, WriteType
  <2> QED
    BY <1>2, <2>1 DEF Forgotten, WorkerWrote, Stored, Holders
<1> QED
  BY <1>1, <1>2, OutcomeCases

LEMMA OthersType ==
  ASSUME NEW V, NEW s \in Stored(V)
  PROVE  /\ Touched(s) \in Stored(V) /\ Touched(s).obj = s.obj
         /\ Touched(s).cache = s.cache /\ Touched(s).fresh = {}
         /\ Delivered(s) \in Stored(V) /\ Delivered(s).obj = s.obj
         /\ Delivered(s).cache = s.obj
         /\ Current(Delivered(s), Worker) => Current(s, Worker)
         /\ Copied(s, Worker) \in Stored(V) /\ Copied(s, Worker).obj = s.obj
         /\ Copied(s, Worker).cache = s.cache
         /\ Current(Copied(s, Worker), Cache) => Current(s, Cache)
         /\ Current(Copied(s, Worker), Worker) => Current(s, Cache)
         /\ New(s.obj) \in Stored(V)
  BY DEF Touched, Delivered, Copied, New, Stored, Holders

-----------------------------------------------------------------------------
(* The type invariant. A step that changes no object keeps the copies; the *)
(* worker's copy shows what it is at as long as it stays at the same task. *)

SameTask ==
  work' # None =>
    /\ work # None /\ work'.net = work.net
    /\ work'.at \in Creating => work.at \in Creating
    /\ work'.at \in Deleting => work.at \in Deleting

LEMMA CopiesKept ==
  ASSUME TypeInv, UNCHANGED <<net, nad>>, SameTask
  PROVE  CopiesCurrent' /\ WorkerCopyCurrent'
  BY DEF TypeInv, CopiesCurrent, WorkerCopyCurrent, SameTask

(* A step that changes attachments, and leaves the networks alone.         *)
LEMMA NadStored ==
  ASSUME TypeInv, NEW v \in Nads, NEW t \in Stored(Labels), UNCHANGED net,
         nad' = [nad EXCEPT ![v] = t], SameTask,
         Current(t, Cache) => t.cache = t.obj
  PROVE  /\ nad' \in [Nads -> Stored(Labels)]
         /\ CopiesCurrent' /\ WorkerCopyCurrent'
<1>1. nad' \in [Nads -> Stored(Labels)]
  BY DEF TypeInv, TypeOK
<1>2. CopiesCurrent'
  BY DEF TypeInv, TypeOK, CopiesCurrent
<1>3. WorkerCopyCurrent'
  BY DEF TypeInv, WorkerCopyCurrent, SameTask
<1> QED
  BY <1>1, <1>2, <1>3

(* A step that changes one network, which keeps the cache's copy current.  *)
LEMMA NetStored ==
  ASSUME TypeInv, NEW n \in Networks, NEW t \in Stored(NetValue), UNCHANGED nad,
         net' = [net EXCEPT ![n] = t],
         Current(t, Cache) => t.cache = t.obj
  PROVE  /\ net' \in [Networks -> Stored(NetObject \cup {None})]
         /\ CopiesCurrent'
         /\ \A m \in Networks : net'[m] = IF m = n THEN t ELSE net[m]
<1>1. net' \in [Networks -> Stored(NetObject \cup {None})]
  BY DEF TypeInv, TypeOK, NetValue
<1>2. \A m \in Networks : net'[m] = IF m = n THEN t ELSE net[m]
  BY DEF TypeInv, TypeOK
<1>3. CopiesCurrent'
  BY <1>2 DEF TypeInv, TypeOK, CopiesCurrent
<1> QED
  BY <1>1, <1>2, <1>3

(* Somebody other than the worker changes one network.                     *)
LEMMA NetChanged ==
  ASSUME TypeInv, NEW n \in Networks, NEW t \in Stored(NetValue), UNCHANGED <<nad, work>>,
         net' = [net EXCEPT ![n] = t],
         t = net[n] \/ t.fresh = {}
  PROVE  /\ net' \in [Networks -> Stored(NetObject \cup {None})]
         /\ CopiesCurrent' /\ WorkerCopyCurrent'
<1>1. Current(t, Cache) => t.cache = t.obj
  BY DEF TypeInv, CopiesCurrent
<1>2. /\ net' \in [Networks -> Stored(NetObject \cup {None})]
      /\ CopiesCurrent'
      /\ \A m \in Networks : net'[m] = IF m = n THEN t ELSE net[m]
  BY <1>1, NetStored
<1>3. WorkerCopyCurrent'
  <2> SUFFICES ASSUME work # None, Current(net'[work.net], Worker)
               PROVE  net'[work.net] = net[work.net]
    BY DEF TypeInv, WorkerCopyCurrent
  <2>1. work.net \in Networks
    BY DEF TypeInv, TypeOK, Work
  <2> QED
    BY <1>2, <2>1
<1> QED
  BY <1>2, <1>3

LEMMA EnvironmentTypeInv ==
  ASSUME TypeInv, Environment
  PROVE  TypeInv'
<1> USE DEF sdnVars, historyVars
<1>1. ASSUME NEW n \in Networks, CreateL2Network(n)
      PROVE  TypeInv'
  <2>1. /\ net[n] \in Stored(NetValue) /\ NewObject \in NetValue
        /\ net' = [net EXCEPT ![n] = Write(net[n], NewObject)]
        /\ UNCHANGED <<nad, work>>
    BY <1>1 DEF CreateL2Network, TypeInv, TypeOK, NetValue, NetObject, NewObject, Connectivity
  <2>2. /\ net' \in [Networks -> Stored(NetObject \cup {None})]
        /\ CopiesCurrent' /\ WorkerCopyCurrent'
    BY <2>1, WriteType, NetChanged
  <2>3. /\ lives' \in [Networks -> Nat]
        /\ UNCHANGED <<queue, faults, sdnVars, early, evicted>>
    BY <1>1 DEF CreateL2Network, TypeInv, TypeOK
  <2> QED
    BY <2>1, <2>2, <2>3 DEF TypeInv, TypeOK
<1>2. ASSUME NEW n \in Networks, DeleteL2Network(n)
      PROVE  TypeInv'
  <2>1. PICK v \in NetValue : net' = [net EXCEPT ![n] = Write(net[n], v)]
    BY <1>2 DEF DeleteL2Network, Live, Exists, TypeInv, TypeOK, NetValue, NetObject, Stored
  <2>2. net[n] \in Stored(NetValue) /\ UNCHANGED <<nad, work>>
    BY <1>2 DEF DeleteL2Network, TypeInv, TypeOK, NetValue
  <2>3. /\ net' \in [Networks -> Stored(NetObject \cup {None})]
        /\ CopiesCurrent' /\ WorkerCopyCurrent'
    BY <2>1, <2>2, WriteType, NetChanged
  <2>4. /\ early' \in SUBSET Networks
        /\ UNCHANGED <<queue, faults, work, sdnVars, lives, evicted>>
    BY <1>2 DEF DeleteL2Network, TypeInv, TypeOK
  <2> QED
    BY <2>2, <2>3, <2>4 DEF TypeInv, TypeOK
<1>3. ASSUME NEW n \in Networks, TouchNetwork(n)
      PROVE  TypeInv'
  <2>1. /\ net[n] \in Stored(NetValue)
        /\ net' = [net EXCEPT ![n] = Touched(net[n])]
        /\ UNCHANGED <<nad, work>>
    BY <1>3 DEF TouchNetwork, TypeInv, TypeOK, NetValue
  <2>2. /\ net' \in [Networks -> Stored(NetObject \cup {None})]
        /\ CopiesCurrent' /\ WorkerCopyCurrent'
    BY <2>1, OthersType, NetChanged
  <2>3. faults' \in Nat /\ UNCHANGED <<queue, work, sdnVars, historyVars>>
    BY <1>3 DEF TouchNetwork, TypeInv, TypeOK, Fault
  <2> QED
    BY <2>1, <2>2, <2>3 DEF TypeInv, TypeOK
<1>4. ASSUME NEW n \in Networks, DeliverNetwork(n)
      PROVE  TypeInv'
  <2>1. /\ net[n] \in Stored(NetValue)
        /\ net' = [net EXCEPT ![n] = Delivered(net[n])]
        /\ UNCHANGED <<nad, work>>
    BY <1>4 DEF DeliverNetwork, TypeInv, TypeOK, NetValue
  <2>2. /\ Delivered(net[n]) \in Stored(NetValue)
        /\ Delivered(net[n]).obj = net[n].obj /\ Delivered(net[n]).cache = net[n].obj
        /\ Current(Delivered(net[n]), Worker) => Current(net[n], Worker)
    BY <2>1, OthersType
  <2>3. /\ net' \in [Networks -> Stored(NetObject \cup {None})]
        /\ CopiesCurrent'
        /\ \A m \in Networks : net'[m] = IF m = n THEN Delivered(net[n]) ELSE net[m]
    BY <2>1, <2>2, NetStored
  <2>4. WorkerCopyCurrent'
    BY <2>1, <2>2, <2>3 DEF TypeInv, TypeOK, Work, WorkerCopyCurrent
  <2> QED
    BY <1>4, <2>3, <2>4 DEF DeliverNetwork, TypeInv, TypeOK
<1>5. ASSUME NEW v \in Nads, NEW m \in Nodes, ClaimForPod(v, m) \/ FreeForPod(v, m)
      PROVE  TypeInv'
  <2>1. PICK l \in Labels : nad' = [nad EXCEPT ![v] = Write(nad[v], l)]
    BY <1>5 DEF ClaimForPod, FreeForPod, TypeInv, TypeOK, Stored, Labels, Owners
  <2>2. nad[v] \in Stored(Labels) /\ UNCHANGED <<net, work>>
    BY <1>5 DEF ClaimForPod, FreeForPod, TypeInv, TypeOK
  <2>3. /\ Write(nad[v], l) \in Stored(Labels)
        /\ Current(Write(nad[v], l), Cache) =>
             Write(nad[v], l).cache = Write(nad[v], l).obj
    BY <2>2, WriteType DEF TypeInv, CopiesCurrent
  <2>4. /\ nad' \in [Nads -> Stored(Labels)]
        /\ CopiesCurrent' /\ WorkerCopyCurrent'
    BY <2>1, <2>2, <2>3, NadStored DEF SameTask
  <2> QED
    BY <1>5, <2>4 DEF ClaimForPod, FreeForPod, TypeInv, TypeOK
<1>6. ASSUME NEW v \in Nads, DeliverNad(v)
      PROVE  TypeInv'
  <2>1. /\ nad[v] \in Stored(Labels)
        /\ nad' = [nad EXCEPT ![v] = Delivered(nad[v])]
        /\ UNCHANGED <<net, work>>
    BY <1>6 DEF DeliverNad, TypeInv, TypeOK
  <2>2. /\ Delivered(nad[v]) \in Stored(Labels)
        /\ Delivered(nad[v]).cache = Delivered(nad[v]).obj
    BY <2>1, OthersType
  <2>3. SameTask
    BY <2>1 DEF SameTask
  <2>4. /\ nad' \in [Nads -> Stored(Labels)]
        /\ CopiesCurrent' /\ WorkerCopyCurrent'
    BY <2>1, <2>2, <2>3, NadStored
  <2> QED
    BY <1>6, <2>4 DEF DeliverNad, TypeInv, TypeOK
<1>7. ASSUME NEW n \in Networks, HostForPeer(n) \/ CollectSensor(n)
      PROVE  TypeInv'
  <2>1. CopiesCurrent' /\ WorkerCopyCurrent'
    BY <1>7, CopiesKept DEF HostForPeer, CollectSensor, SameTask
  <2> QED
    BY <1>7, <2>1 DEF HostForPeer, CollectSensor, TypeInv, TypeOK
<1>8. CASE Resync
  <2>1. CopiesCurrent' /\ WorkerCopyCurrent'
    BY <1>8, CopiesKept DEF Resync, SameTask
  <2> QED
    BY <1>8, <2>1 DEF Resync, TypeInv, TypeOK
<1> QED
  BY <1>1, <1>2, <1>3, <1>4, <1>5, <1>6, <1>7, <1>8 DEF Environment

(* The stages the worker passes through.                                   *)
LEMMA WorkType ==
  ASSUME TypeInv, work # None
  PROVE  /\ work \in Work /\ work.net \in Networks
         /\ net[work.net] \in Stored(NetValue)
         /\ work.at \in {"label", "deploy", "mark"} =>
              work.nad \in Nads /\ nad[work.nad] \in Stored(Labels)
  BY DEF TypeInv, TypeOK, Work, NetValue

WorkOK == /\ work' \in Work \cup {None}
          /\ work' # None /\ work'.at \in {"label", "deploy", "mark"} =>
               work'.nad \in Nads
          /\ queue' \subseteq Networks

(* Every way to go on keeps the type of the worker.                        *)
LEMMA GoOnType ==
  ASSUME TypeInv, work # None,
         \/ \E stage \in Creating \cup Connecting \cup Deleting :
              GoOn(stage) /\ (stage \in {"label", "deploy", "mark"} => work.nad \in Nads)
         \/ \E stage \in Connecting, v \in Nads : Choose(stage, v)
         \/ \E stage \in {"report", "announce"}, s \in Connectivity : Conclude(stage, s)
         \/ DetectIntrusions \/ Retry \/ Done
  PROVE  WorkOK
<1> USE WorkType DEF WorkOK, Work, Creating, Connecting, Deleting
<1>1. CASE \E stage \in Creating \cup Connecting \cup Deleting :
              GoOn(stage) /\ (stage \in {"label", "deploy", "mark"} => work.nad \in Nads)
  BY <1>1 DEF GoOn, TypeInv, TypeOK
<1>2. CASE \E stage \in Connecting, v \in Nads : Choose(stage, v)
  BY <1>2 DEF Choose, TypeInv, TypeOK
<1>3. CASE \E stage \in {"report", "announce"}, s \in Connectivity : Conclude(stage, s)
  BY <1>3 DEF Conclude, TypeInv, TypeOK
<1>4. CASE DetectIntrusions \/ Retry \/ Done
  BY <1>4 DEF DetectIntrusions, GoOn, Retry, Done, TypeInv, TypeOK
<1> QED
  BY <1>1, <1>2, <1>3, <1>4

-----------------------------------------------------------------------------
(* The worker's steps, for the type invariant.                             *)

(* The sets that record what other controllers were told.                  *)
SdnOK == /\ sdn' \subseteq Networks /\ hosted' \subseteq Networks
         /\ joined' \subseteq Networks \X Nads /\ mirrored' \subseteq Networks \X Nads
         /\ linked' \subseteq Networks /\ zones' \subseteq Networks
         /\ sensors' \subseteq Networks

HistoryOK == /\ early' \subseteq Networks /\ evicted' \subseteq Networks
             /\ lives' \in [Networks -> Nat] /\ faults' \in Nat

LEMMA Assembled ==
  ASSUME net' \in [Networks -> Stored(NetObject \cup {None})],
         nad' \in [Nads -> Stored(Labels)],
         WorkOK, SdnOK, HistoryOK, CopiesCurrent', WorkerCopyCurrent'
  PROVE  TypeInv'
  BY DEF TypeInv, TypeOK, WorkOK, SdnOK, HistoryOK

LEMMA SdnKept ==
  ASSUME TypeInv
  PROVE  /\ UNCHANGED sdnVars => SdnOK
         /\ UNCHANGED historyVars /\ (UNCHANGED faults \/ \E c \in {0, 1} : faults' = faults + c)
              => HistoryOK
  BY DEF TypeInv, TypeOK, SdnOK, HistoryOK, sdnVars, historyVars

(* Steps that only talk to another controller.                             *)
LEMMA TalkTypeInv ==
  ASSUME TypeInv,
         \/ CreateNetwork \/ CheckNetworkExists \/ CreateAtProvider
         \/ CreateNewNEDConnection \/ CreateIdsResources \/ DeleteNetwork
  PROVE  TypeInv'
<1> USE DEF Creating, Connecting, Deleting, Connectivity
<1>1. /\ work # None /\ UNCHANGED <<net, nad>>
      /\ SdnOK /\ HistoryOK /\ SameTask /\ WorkOK
  <2>1. CASE CreateNetwork
    <3>1. work # None /\ work.net \in Networks
      BY <2>1, WorkType DEF CreateNetwork, WorkingAt
    <3>2. PICK o \in SdnOutcomes(work.net \in sdn) :
                 /\ sdn' = sdn \cup {m \in {work.net} : o.done}
                 /\ faults' = faults + o.cost
                 /\ Conclude("report", IF o.ok THEN "Available" ELSE "Unavailable")
      BY <2>1 DEF CreateNetwork
    <3>3. o.cost \in {0, 1}
      BY SdnCases DEF Answered
    <3>4. SdnOK /\ HistoryOK /\ UNCHANGED <<net, nad>>
      BY <2>1, <3>1, <3>2, <3>3
      DEF CreateNetwork, SdnOK, HistoryOK, historyVars, TypeInv, TypeOK
    <3>5. SameTask
      BY <2>1, <3>1, <3>2 DEF CreateNetwork, WorkingAt, Conclude, SameTask, TypeInv, TypeOK, Work
    <3>6. WorkOK
      BY <3>1, <3>2, GoOnType
    <3> QED
      BY <3>1, <3>4, <3>5, <3>6
  <2>2. CASE CheckNetworkExists
    <3>1. work # None /\ work.net \in Networks
      BY <2>2, WorkType DEF CheckNetworkExists, WorkingAt
    <3>2. \/ \E s \in Connectivity : Conclude("announce", s)
          \/ GoOn("offer")
      BY <2>2 DEF CheckNetworkExists
    <3>3. UNCHANGED <<net, nad, sdnVars, historyVars>>
          /\ (UNCHANGED faults \/ faults' = faults + 1)
      BY <2>2 DEF CheckNetworkExists, Fault
    <3>4. SameTask
      BY <2>2, <3>1, <3>2 DEF CheckNetworkExists, WorkingAt, Conclude, GoOn, SameTask, TypeInv, TypeOK, Work
    <3>5. WorkOK
      BY <3>1, <3>2, GoOnType
    <3> QED
      BY <3>1, <3>3, <3>4, <3>5, SdnKept
  <2>3. CASE CreateAtProvider
    <3>1. work # None /\ work.net \in Networks
      BY <2>3, WorkType DEF CreateAtProvider, WorkingAt
    <3>2. PICK o \in SdnOutcomes(work.net \in hosted) :
                 /\ hosted' = hosted \cup {m \in {work.net} : o.done}
                 /\ faults' = faults + o.cost
                 /\ Conclude("announce", IF o.ok THEN "Available" ELSE "Unavailable")
      BY <2>3 DEF CreateAtProvider
    <3>3. o.cost \in {0, 1}
      BY SdnCases DEF Answered
    <3>4. SdnOK /\ HistoryOK /\ UNCHANGED <<net, nad>>
      BY <2>3, <3>1, <3>2, <3>3
      DEF CreateAtProvider, SdnOK, HistoryOK, historyVars, TypeInv, TypeOK
    <3>5. SameTask
      BY <2>3, <3>1, <3>2 DEF CreateAtProvider, WorkingAt, Conclude, SameTask, TypeInv, TypeOK, Work
    <3>6. WorkOK
      BY <3>1, <3>2, GoOnType
    <3> QED
      BY <3>1, <3>4, <3>5, <3>6
  <2>4. CASE CreateNewNEDConnection
    <3>1. work # None /\ work.net \in Networks
      BY <2>4, WorkType DEF CreateNewNEDConnection, WorkingAt
    <3>2. PICK o \in CallOutcomes, listed \in BOOLEAN :
                 /\ linked' = linked \cup {m \in {work.net} : o.done}
                 /\ zones' = zones \cup {m \in {work.net} : listed}
                 /\ faults' = faults + o.cost \/ faults' = faults + 1
                 /\ IF o.ok THEN DetectIntrusions ELSE Done
      BY <2>4 DEF CreateNewNEDConnection, Fault
    <3>3. o.cost \in {0, 1}
      BY CallCases DEF Answered
    <3>4. SdnOK /\ HistoryOK /\ UNCHANGED <<net, nad>>
      BY <2>4, <3>1, <3>2, <3>3
      DEF CreateNewNEDConnection, SdnOK, HistoryOK, historyVars, TypeInv, TypeOK
    <3>5. SameTask
      BY <2>4, <3>1, <3>2
      DEF CreateNewNEDConnection, WorkingAt, DetectIntrusions, GoOn, Done, SameTask, TypeInv, TypeOK, Work
    <3>6. WorkOK
      BY <3>1, <3>2, GoOnType
    <3> QED
      BY <3>1, <3>4, <3>5, <3>6
  <2>5. CASE CreateIdsResources
    <3>1. work # None /\ work.net \in Networks /\ work.nad \in Nads
      BY <2>5, WorkType DEF CreateIdsResources, WorkingAt
    <3>2. /\ sensors' = sensors \/ sensors' = sensors \cup {work.net}
          /\ faults' = faults \/ faults' = faults + 1
          /\ GoOn("mark")
          /\ UNCHANGED <<net, nad, sdn, hosted, joined, linked, zones, mirrored, historyVars>>
      BY <2>5 DEF CreateIdsResources, Fault
    <3>3. SdnOK /\ HistoryOK
      BY <3>1, <3>2 DEF SdnOK, HistoryOK, historyVars, TypeInv, TypeOK
    <3>4. SameTask
      BY <2>5, <3>1, <3>2 DEF CreateIdsResources, WorkingAt, GoOn, SameTask, TypeInv, TypeOK, Work
    <3>5. WorkOK
      BY <3>1, <3>2, GoOnType
    <3> QED
      BY <3>1, <3>2, <3>3, <3>4, <3>5
  <2>6. CASE DeleteNetwork
    <3>1. work # None /\ work.net \in Networks
      BY <2>6, WorkType DEF DeleteNetwork, WorkingAt
    <3>2. PICK o \in SdnOutcomes(work.net \notin sdn) :
                 /\ sdn' = sdn \ {m \in {work.net} : o.done}
                 /\ faults' = faults + o.cost
                 /\ IF o.ok THEN GoOn("unfinalize") ELSE Retry
      BY <2>6 DEF DeleteNetwork
    <3>3. o.cost \in {0, 1}
      BY SdnCases DEF Answered
    <3>4. SdnOK /\ HistoryOK /\ UNCHANGED <<net, nad>>
      BY <2>6, <3>1, <3>2, <3>3
      DEF DeleteNetwork, SdnOK, HistoryOK, historyVars, TypeInv, TypeOK
    <3>5. SameTask
      BY <2>6, <3>1, <3>2 DEF DeleteNetwork, WorkingAt, GoOn, Retry, SameTask, TypeInv, TypeOK, Work
    <3>6. WorkOK
      BY <3>1, <3>2, GoOnType
    <3> QED
      BY <3>1, <3>4, <3>5, <3>6
  <2> QED
    BY <2>1, <2>2, <2>3, <2>4, <2>5, <2>6
<1>2. CopiesCurrent' /\ WorkerCopyCurrent'
  BY <1>1, CopiesKept
<1> QED
  BY <1>1, <1>2, Assembled DEF TypeInv, TypeOK

(* A choice of a free attachment, read from the cache, for a request.      *)
LEMMA ChoiceType ==
  ASSUME TypeInv, NEW v \in Nads
  PROVE  /\ Copied(nad[v], Worker) \in Stored(Labels)
         /\ Current(Copied(nad[v], Worker), Cache) =>
              Copied(nad[v], Worker).cache = Copied(nad[v], Worker).obj
<1>1. nad[v] \in Stored(Labels)
  BY DEF TypeInv, TypeOK
<1> QED
  BY <1>1, OthersType DEF TypeInv, CopiesCurrent

(* The label of the attachment the worker has chosen.                      *)
LEMMA LabelType ==
  ASSUME TypeInv, work # None, work.at \in {"label", "mark"}, NEW m \in Nodes,
         NEW o \in UpdateOutcomes(nad[work.nad], Worker,
                                  [nad[work.nad].obj EXCEPT ![m] = work.net])
  PROVE  /\ WorkerWrote(Labels, nad[work.nad],
                        [nad[work.nad].obj EXCEPT ![m] = work.net],
                        Forgotten(o.after, Worker))
         /\ o.ok => /\ Current(nad[work.nad], Worker)
                    /\ Forgotten(o.after, Worker).obj =
                         [nad[work.nad].obj EXCEPT ![m] = work.net]
         /\ o.cost \in {0, 1}
<1>1. nad[work.nad] \in Stored(Labels) /\ work.net \in Networks
  BY WorkType
<1>2. [nad[work.nad].obj EXCEPT ![m] = work.net] \in Labels
  BY <1>1 DEF Stored, Labels, Owners
<1> QED
  BY <1>1, <1>2, ForgottenWrote, OutcomeCases

LEMMA AttachmentTypeInv ==
  ASSUME TypeInv,
         \/ ConnectInternalSwitchToNED \/ LabelNetAttachDef
         \/ SetUpMirrorPort \/ LabelMirrorPort
  PROVE  TypeInv'
<1> USE DEF Creating, Connecting, Deleting, Connectivity
<1>1. CASE ConnectInternalSwitchToNED
  <2>1. work # None /\ work.net \in Networks /\ work.at = "join"
    BY <1>1, WorkType DEF ConnectInternalSwitchToNED, WorkingAt
  <2>2. /\ UNCHANGED <<net, sdn, hosted, linked, zones, mirrored, sensors, historyVars>>
        /\ \/ /\ Done /\ UNCHANGED <<nad, joined>>
              /\ UNCHANGED faults \/ faults' = faults + 1
           \/ \E v \in Nads, o \in CallOutcomes :
                /\ joined' = joined \cup {q \in {<<work.net, v>>} : o.done}
                /\ nad' = [nad EXCEPT ![v] = Copied(@, Worker)]
                /\ faults' = faults + o.cost
                /\ IF o.ok THEN Choose("label", v) ELSE Done
    BY <1>1 DEF ConnectInternalSwitchToNED, FreeNetAttachDefs, Fault
  <2>3. CASE Done /\ UNCHANGED <<nad, joined>> /\ (UNCHANGED faults \/ faults' = faults + 1)
    <3>1. SdnOK /\ HistoryOK /\ SameTask
      BY <2>2, <2>3 DEF SdnOK, HistoryOK, historyVars, TypeInv, TypeOK, SameTask, Done
    <3>2. WorkOK
      BY <2>1, <2>3, GoOnType
    <3>3. CopiesCurrent' /\ WorkerCopyCurrent'
      BY <2>2, <2>3, <3>1, CopiesKept
    <3> QED
      BY <2>2, <2>3, <3>1, <3>2, <3>3, Assembled DEF TypeInv, TypeOK
  <2>4. CASE \E v \in Nads, o \in CallOutcomes :
               /\ joined' = joined \cup {q \in {<<work.net, v>>} : o.done}
               /\ nad' = [nad EXCEPT ![v] = Copied(@, Worker)]
               /\ faults' = faults + o.cost
               /\ IF o.ok THEN Choose("label", v) ELSE Done
    <3>1. PICK v \in Nads, o \in CallOutcomes :
               /\ joined' = joined \cup {q \in {<<work.net, v>>} : o.done}
               /\ nad' = [nad EXCEPT ![v] = Copied(nad[v], Worker)]
               /\ faults' = faults + o.cost
               /\ IF o.ok THEN Choose("label", v) ELSE Done
      BY <2>4
    <3>2. o.cost \in {0, 1}
      BY CallCases DEF Answered
    <3>3. SdnOK /\ HistoryOK
      BY <2>1, <2>2, <3>1, <3>2 DEF SdnOK, HistoryOK, historyVars, TypeInv, TypeOK
    <3>4. SameTask
      BY <2>1, <3>1 DEF Choose, Done, SameTask, TypeInv, TypeOK, Work
    <3>5. WorkOK
      BY <2>1, <3>1, GoOnType
    <3>6. /\ nad' \in [Nads -> Stored(Labels)]
          /\ CopiesCurrent' /\ WorkerCopyCurrent'
      BY <2>2, <3>1, <3>4, ChoiceType, NadStored
    <3> QED
      BY <2>2, <3>3, <3>5, <3>6, Assembled DEF TypeInv, TypeOK
  <2> QED
    BY <2>2, <2>3, <2>4
<1>2. CASE LabelNetAttachDef
  <2>1. /\ work # None /\ work.at = "label" /\ work.nad \in Nads
        /\ EdgeNode \in Nodes
    BY <1>2, WorkType DEF LabelNetAttachDef, WorkingAt, Nodes
  <2>2. PICK o \in UpdateOutcomes(nad[work.nad], Worker,
                                  [nad[work.nad].obj EXCEPT ![EdgeNode] = work.net]) :
               /\ nad' = [nad EXCEPT ![work.nad] = Forgotten(o.after, Worker)]
               /\ faults' = faults + o.cost
               /\ IF o.ok THEN GoOn("link") ELSE Done
    BY <1>2 DEF LabelNetAttachDef
  <2> DEFINE t == Forgotten(o.after, Worker)
  <2>3. /\ WorkerWrote(Labels, nad[work.nad],
                       [nad[work.nad].obj EXCEPT ![EdgeNode] = work.net], t)
        /\ o.cost \in {0, 1}
    BY <2>1, LabelType
  <2>4. t \in Stored(Labels) /\ (Current(t, Cache) => t.cache = t.obj)
    BY <2>1, <2>3 DEF WorkerWrote, TypeInv, CopiesCurrent
  <2>5. UNCHANGED <<net, sdnVars, historyVars>> /\ SdnOK /\ HistoryOK
    BY <1>2, <2>2, <2>3, SdnKept DEF LabelNetAttachDef
  <2>6. SameTask
    BY <2>1, <2>2 DEF GoOn, Done, SameTask, TypeInv, TypeOK, Work
  <2>7. WorkOK
    BY <2>1, <2>2, GoOnType
  <2>8. /\ nad' \in [Nads -> Stored(Labels)]
        /\ CopiesCurrent' /\ WorkerCopyCurrent'
    BY <2>1, <2>2, <2>4, <2>5, <2>6, NadStored
  <2> QED
    BY <2>5, <2>7, <2>8, Assembled DEF TypeInv, TypeOK
<1>3. CASE SetUpMirrorPort
  <2>1. work # None /\ work.net \in Networks /\ work.at = "mirror"
    BY <1>3, WorkType DEF SetUpMirrorPort, WorkingAt
  <2>2. /\ UNCHANGED <<net, sdn, hosted, joined, linked, zones, sensors, historyVars>>
        /\ \/ Retry /\ UNCHANGED <<nad, mirrored, faults>>
           \/ \E v \in Nads, o \in CallOutcomes :
                /\ mirrored' = mirrored \cup {q \in {<<work.net, v>>} : o.done}
                /\ nad' = [nad EXCEPT ![v] = Copied(@, Worker)]
                /\ faults' = faults + o.cost
                /\ IF o.ok THEN Choose("deploy", v) ELSE Retry
    BY <1>3 DEF SetUpMirrorPort, FreeNetAttachDefs
  <2>3. CASE Retry /\ UNCHANGED <<nad, mirrored, faults>>
    <3>1. SdnOK /\ HistoryOK /\ SameTask
      BY <2>2, <2>3 DEF SdnOK, HistoryOK, historyVars, TypeInv, TypeOK, SameTask, Retry
    <3>2. WorkOK
      BY <2>1, <2>3, GoOnType
    <3>3. CopiesCurrent' /\ WorkerCopyCurrent'
      BY <2>2, <2>3, <3>1, CopiesKept
    <3> QED
      BY <2>2, <2>3, <3>1, <3>2, <3>3, Assembled DEF TypeInv, TypeOK
  <2>4. CASE \E v \in Nads, o \in CallOutcomes :
               /\ mirrored' = mirrored \cup {q \in {<<work.net, v>>} : o.done}
               /\ nad' = [nad EXCEPT ![v] = Copied(@, Worker)]
               /\ faults' = faults + o.cost
               /\ IF o.ok THEN Choose("deploy", v) ELSE Retry
    <3>1. PICK v \in Nads, o \in CallOutcomes :
               /\ mirrored' = mirrored \cup {q \in {<<work.net, v>>} : o.done}
               /\ nad' = [nad EXCEPT ![v] = Copied(nad[v], Worker)]
               /\ faults' = faults + o.cost
               /\ IF o.ok THEN Choose("deploy", v) ELSE Retry
      BY <2>4
    <3>2. o.cost \in {0, 1}
      BY CallCases DEF Answered
    <3>3. SdnOK /\ HistoryOK
      BY <2>1, <2>2, <3>1, <3>2 DEF SdnOK, HistoryOK, historyVars, TypeInv, TypeOK
    <3>4. SameTask
      BY <2>1, <3>1 DEF Choose, Retry, SameTask, TypeInv, TypeOK, Work
    <3>5. WorkOK
      BY <2>1, <3>1, GoOnType
    <3>6. /\ nad' \in [Nads -> Stored(Labels)]
          /\ CopiesCurrent' /\ WorkerCopyCurrent'
      BY <2>2, <3>1, <3>4, ChoiceType, NadStored
    <3> QED
      BY <2>2, <3>3, <3>5, <3>6, Assembled DEF TypeInv, TypeOK
  <2> QED
    BY <2>2, <2>3, <2>4
<1>4. CASE LabelMirrorPort
  <2>1. /\ work # None /\ work.at = "mark" /\ work.nad \in Nads
        /\ IdsNode \in Nodes
    BY <1>4, WorkType DEF LabelMirrorPort, WorkingAt, Nodes
  <2>2. PICK o \in UpdateOutcomes(nad[work.nad], Worker,
                                  [nad[work.nad].obj EXCEPT ![IdsNode] = work.net]) :
               /\ nad' = [nad EXCEPT ![work.nad] = Forgotten(o.after, Worker)]
               /\ faults' = faults + o.cost
               /\ IF o.ok THEN Done ELSE Retry
    BY <1>4 DEF LabelMirrorPort
  <2> DEFINE t == Forgotten(o.after, Worker)
  <2>3. /\ WorkerWrote(Labels, nad[work.nad],
                       [nad[work.nad].obj EXCEPT ![IdsNode] = work.net], t)
        /\ o.cost \in {0, 1}
    BY <2>1, LabelType
  <2>4. t \in Stored(Labels) /\ (Current(t, Cache) => t.cache = t.obj)
    BY <2>1, <2>3 DEF WorkerWrote, TypeInv, CopiesCurrent
  <2>5. UNCHANGED <<net, sdnVars, historyVars>> /\ SdnOK /\ HistoryOK
    BY <1>4, <2>2, <2>3, SdnKept DEF LabelMirrorPort
  <2>6. SameTask
    BY <2>1, <2>2 DEF Retry, Done, SameTask, TypeInv, TypeOK, Work
  <2>7. WorkOK
    BY <2>1, <2>2, GoOnType
  <2>8. /\ nad' \in [Nads -> Stored(Labels)]
        /\ CopiesCurrent' /\ WorkerCopyCurrent'
    BY <2>1, <2>2, <2>4, <2>5, <2>6, NadStored
  <2> QED
    BY <2>5, <2>7, <2>8, Assembled DEF TypeInv, TypeOK
<1> QED
  BY <1>1, <1>2, <1>3, <1>4

(* What the worker writes to its network, and what comes of it.            *)
Reported == [net[work.net].obj EXCEPT !.internal = work.status]
Finalized == [net[work.net].obj EXCEPT !.fin = TRUE]
Announced == [net[work.net].obj EXCEPT !.provider = work.status]

LEMMA WrittenType ==
  ASSUME TypeInv, work # None, Current(net[work.net], Worker), work.at \notin Deleting,
         NEW v \in {Reported, Finalized, Announced}
  PROVE  /\ net[work.net].obj \in NetObject
         /\ v \in NetObject /\ v # None /\ v.del = net[work.net].obj.del
<1>1. net[work.net].obj \in NetObject /\ work.status \in Connectivity
  BY WorkType DEF TypeInv, WorkerCopyCurrent, Stored, NetValue, Work
<1> QED
  BY <1>1, NetObjectAssumption DEF Reported, Finalized, Announced, NetObject

LEMMA UpdateCases ==
  ASSUME TypeInv, work # None, work.at \notin Deleting,
         NEW v \in {Reported, Finalized, Announced},
         NEW o \in UpdateOutcomes(net[work.net], Worker, v)
  PROVE  /\ WorkerWrote(NetValue, net[work.net], v, Updated(net[work.net], o))
         /\ o.ok => /\ Current(net[work.net], Worker)
                    /\ Updated(net[work.net], o).obj = v
         /\ o.cost \in {0, 1}
<1>1. Current(net[work.net], Worker) => v \in NetValue
  BY WrittenType DEF NetValue
<1> QED
  BY <1>1, WorkType, UpdatedWrote, OutcomeCases

LEMMA StatusTypeInv ==
  ASSUME TypeInv, UpdateControllerStatus \/ AddFinalizer \/ UpdateProviderStatus
  PROVE  TypeInv'
<1> USE DEF Creating, Connecting, Deleting
<1>1. /\ work # None /\ work.at \notin Deleting
      /\ work.at = "announce" \/ work.at \in Creating
  BY DEF UpdateControllerStatus, AddFinalizer, UpdateProviderStatus, WorkingAt
<1>2. PICK v \in {Reported, Finalized, Announced} :
             \E o \in UpdateOutcomes(net[work.net], Worker, v) :
               /\ net' = [net EXCEPT ![work.net] = Updated(net[work.net], o)]
               /\ faults' = faults + o.cost
               /\ \/ \E stage \in {"finalize", "check", "join"} :
                       GoOn(stage) /\ (stage = "finalize" => work.at \in Creating)
                  \/ DetectIntrusions \/ Retry \/ Done
  <2>1. CASE UpdateControllerStatus
    <3>1. PICK o \in UpdateOutcomes(net[work.net], Worker, Reported) :
               /\ net' = [net EXCEPT ![work.net] = Updated(net[work.net], o)]
               /\ faults' = faults + o.cost
      BY <2>1 DEF UpdateControllerStatus, Reported
    <3>2. /\ work.at = "report"
          /\ GoOn("finalize") \/ Retry
      BY <2>1 DEF UpdateControllerStatus, WorkingAt
    <3> QED
      BY <3>1, <3>2
  <2>2. CASE AddFinalizer
    BY <2>2 DEF AddFinalizer, Finalized
  <2>3. CASE UpdateProviderStatus
    BY <2>3 DEF UpdateProviderStatus, Announced
  <2> QED
    BY <2>1, <2>2, <2>3
<1>3. PICK o \in UpdateOutcomes(net[work.net], Worker, v) :
             /\ net' = [net EXCEPT ![work.net] = Updated(net[work.net], o)]
             /\ faults' = faults + o.cost
             /\ \/ \E stage \in {"finalize", "check", "join"} :
                     GoOn(stage) /\ (stage = "finalize" => work.at \in Creating)
                \/ DetectIntrusions \/ Retry \/ Done
  BY <1>2
<1>4. UNCHANGED <<nad, sdnVars, historyVars>>
  BY DEF UpdateControllerStatus, AddFinalizer, UpdateProviderStatus
<1>5. /\ WorkerWrote(NetValue, net[work.net], v, Updated(net[work.net], o))
      /\ o.cost \in {0, 1}
  BY <1>1, UpdateCases
<1>6. SameTask
  BY <1>1, <1>3 DEF GoOn, DetectIntrusions, Retry, Done, SameTask, TypeInv, TypeOK, Work
<1>7. WorkOK
  BY <1>1, <1>3, GoOnType
<1>8. /\ net' \in [Networks -> Stored(NetObject \cup {None})]
      /\ CopiesCurrent' /\ WorkerCopyCurrent'
  <2> DEFINE t == Updated(net[work.net], o)
  <2>1. WorkerWrote(NetValue, net[work.net], v, t) /\ net' = [net EXCEPT ![work.net] = t]
    BY <1>3, <1>5
  <2>2. work.at \in Creating /\ Current(net[work.net], Worker) => v # None /\ ~ v.del
    BY <1>1, WrittenType DEF TypeInv, WorkerCopyCurrent
  <2>3. /\ work.net \in Networks /\ t \in Stored(NetValue)
        /\ Current(t, Cache) => t.cache = t.obj
    BY <1>1, <2>1, WorkType DEF WorkerWrote, TypeInv, CopiesCurrent
  <2> HIDE DEF t
  <2>4. /\ net' \in [Networks -> Stored(NetObject \cup {None})]
        /\ CopiesCurrent'
        /\ net'[work.net] = t
    BY <1>4, <2>1, <2>3, NetStored
  <2>5. WorkerCopyCurrent'
    <3> SUFFICES ASSUME work' # None, Current(t, Worker)
                 PROVE  /\ t.obj # None
                        /\ work.at \in Creating =>
                             ~ t.obj.del /\ t.cache # None /\ ~ t.cache.del
      BY <1>1, <1>6, <2>4 DEF WorkerCopyCurrent, SameTask
    <3>1. Current(net[work.net], Worker) /\ t.cache = net[work.net].cache
      BY <2>1 DEF WorkerWrote
    <3>2. CASE t.obj = net[work.net].obj
      BY <1>1, <3>1, <3>2 DEF TypeInv, WorkerCopyCurrent
    <3>3. CASE t.obj = v
      BY <1>1, <2>2, <3>1, <3>3, WrittenType DEF TypeInv, WorkerCopyCurrent
    <3> QED
      BY <2>1, <3>2, <3>3 DEF WorkerWrote
  <2> QED
    BY <2>4, <2>5
<1>9. SdnOK /\ HistoryOK
  BY <1>3, <1>4, <1>5, SdnKept
<1> QED
  BY <1>4, <1>7, <1>8, <1>9, Assembled DEF TypeInv, TypeOK

LEMMA RemoveFinalizerTypeInv ==
  ASSUME TypeInv, RemoveFinalizer
  PROVE  TypeInv'
<1>1. work # None /\ work.net \in Networks /\ net[work.net] \in Stored(NetValue)
  BY WorkType DEF RemoveFinalizer, WorkingAt
<1>2. PICK o \in UpdateOutcomes(net[work.net], Worker, None) :
             /\ net' = [net EXCEPT ![work.net] = Forgotten(o.after, Worker)]
             /\ early' = early \ {m \in {work.net} : o.after.obj = None /\ Exists(work.net)}
             /\ faults' = faults + o.cost
             /\ Done \/ Retry
  BY DEF RemoveFinalizer
<1> DEFINE t == Forgotten(o.after, Worker)
<1>3. WorkerWrote(NetValue, net[work.net], None, t) /\ o.cost \in {0, 1}
  BY <1>1, ForgottenWrote, OutcomeCases DEF NetValue
<1>4. SameTask /\ work' = None
  BY <1>2 DEF SameTask, Done, Retry
<1>5. UNCHANGED <<nad, sdnVars, lives, evicted>>
  BY DEF RemoveFinalizer
<1>6. SdnOK /\ HistoryOK
  BY <1>2, <1>3, <1>5 DEF SdnOK, HistoryOK, sdnVars, TypeInv, TypeOK
<1>7. WorkOK
  BY <1>1, <1>2, GoOnType
<1>8. t \in Stored(NetValue) /\ (Current(t, Cache) => t.cache = t.obj)
  BY <1>1, <1>3 DEF WorkerWrote, TypeInv, CopiesCurrent
<1>9. net' \in [Networks -> Stored(NetObject \cup {None})] /\ CopiesCurrent'
  BY <1>1, <1>2, <1>5, <1>8, NetStored
<1>10. WorkerCopyCurrent'
  BY <1>4 DEF WorkerCopyCurrent
<1> QED
  BY <1>5, <1>6, <1>7, <1>9, <1>10, Assembled DEF TypeInv, TypeOK

(* The worker takes a network from the queue.                              *)
LEMMA BeginTypeInv ==
  ASSUME TypeInv, NEW n \in Networks, Ignore(n) \/ BeginCreation(n) \/ BeginDeletion(n)
  PROVE  TypeInv'
<1>1. CASE Ignore(n)
  <2>1. UNCHANGED <<net, nad>> /\ SameTask
    BY <1>1 DEF Ignore, SameTask
  <2>2. CopiesCurrent' /\ WorkerCopyCurrent'
    BY <2>1, CopiesKept
  <2>3. queue' \subseteq Networks /\ UNCHANGED <<faults, work, sdnVars, historyVars>>
    BY <1>1 DEF Ignore, TypeInv, TypeOK
  <2> QED
    BY <2>1, <2>2, <2>3 DEF TypeInv, TypeOK, sdnVars, historyVars
<1>2. CASE BeginCreation(n) \/ BeginDeletion(n)
  <2>1. PICK stage \in {"create", "delete"} :
               /\ Start(n, stage)
               /\ net[n].cache # None
               /\ stage = "create" => NeedsCreation(net[n].cache)
               /\ stage = "delete" => NeedsDeletion(net[n].cache)
    BY <1>2 DEF BeginCreation, BeginDeletion
  <2>2. /\ work' = [at |-> stage, net |-> n, status |-> "Unknown", nad |-> None]
        /\ net' = [net EXCEPT ![n] = Copied(net[n], Worker)]
        /\ queue' = queue \ {n}
        /\ UNCHANGED <<nad, faults, sdnVars, historyVars>>
    BY <2>1 DEF Start
  <2> DEFINE t == Copied(net[n], Worker)
  <2>3. /\ t \in Stored(NetValue) /\ t.obj = net[n].obj /\ t.cache = net[n].cache
        /\ Current(t, Cache) => t.cache = t.obj
        /\ Current(t, Worker) => t.cache = t.obj
    <3>1. net[n] \in Stored(NetValue)
      BY DEF TypeInv, TypeOK, NetValue
    <3> QED
      BY <3>1, OthersType DEF TypeInv, CopiesCurrent
  <2> HIDE DEF t
  <2>4. /\ net' \in [Networks -> Stored(NetObject \cup {None})]
        /\ CopiesCurrent' /\ net'[n] = t
    BY <2>2, <2>3, NetStored DEF t
  <2>5. WorkerCopyCurrent'
    BY <2>1, <2>2, <2>3, <2>4
    DEF WorkerCopyCurrent, NeedsCreation, NeedsDeletion, Creating, Deleting
  <2>6. WorkOK
    BY <2>2 DEF WorkOK, Work, Creating, Deleting, Connectivity, TypeInv, TypeOK
  <2> QED
    BY <2>2, <2>4, <2>5, <2>6, SdnKept, Assembled DEF TypeInv, TypeOK
<1> QED
  BY <1>1, <1>2

LEMMA RestartTypeInv ==
  ASSUME TypeInv, Restart
  PROVE  TypeInv'
<1>1. /\ work' = None /\ faults' = faults + 1
      /\ net' = [n \in Networks |-> New(net[n].obj)]
      /\ nad' = [v \in Nads |-> New(nad[v].obj)]
      /\ queue' = {n \in Networks : Exists(n)}
      /\ UNCHANGED <<sdnVars, historyVars>>
  BY DEF Restart, Fault
<1>2. /\ net' \in [Networks -> Stored(NetObject \cup {None})]
      /\ nad' \in [Nads -> Stored(Labels)]
  BY <1>1 DEF TypeInv, TypeOK, New, Stored, Holders
<1>3. CopiesCurrent' /\ WorkerCopyCurrent'
  BY <1>1 DEF CopiesCurrent, WorkerCopyCurrent, New
<1>4. SdnOK /\ HistoryOK
  BY <1>1, SdnKept
<1>5. WorkOK
  BY <1>1 DEF WorkOK
<1> QED
  BY <1>2, <1>3, <1>4, <1>5, Assembled

(* Every step keeps the type invariant.                                    *)
LEMMA TypeInvStep ==
  ASSUME TypeInv, [Next]_vars
  PROVE  TypeInv'
<1>1. CASE Next
  BY <1>1, EnvironmentTypeInv, BeginTypeInv, TalkTypeInv, AttachmentTypeInv,
     StatusTypeInv, RemoveFinalizerTypeInv, RestartTypeInv DEF Next, WorkerStep
<1>2. CASE UNCHANGED vars
  <2>1. UNCHANGED <<net, nad>> /\ SameTask
    BY <1>2 DEF vars, SameTask
  <2>2. CopiesCurrent' /\ WorkerCopyCurrent'
    BY <2>1, CopiesKept
  <2> QED
    BY <1>2, <2>2 DEF vars, sdnVars, historyVars, TypeInv, TypeOK
<1> QED
  BY <1>1, <1>2

LEMMA TypeInvInit == Init => TypeInv
<1> SUFFICES ASSUME Init PROVE TypeInv
  OBVIOUS
<1>1. TypeOK
  BY DEF Init, TypeOK, New, Stored, Holders, Labels
<1>2. CopiesCurrent /\ WorkerCopyCurrent
  BY DEF Init, CopiesCurrent, WorkerCopyCurrent, New
<1> QED
  BY <1>1, <1>2 DEF TypeInv

LEMMA TypeInvAlways == Spec => []TypeInv
<1> QED
  BY TypeInvInit, TypeInvStep, PTL DEF Spec

(* Every object, label and queue of the L2Network controller keeps its     *)
(* type: in particular no step of Reconcile labels an attachment that was  *)
(* not chosen. With TypeInv, a copy with the latest resourceVersion says   *)
(* what the object says.                                                   *)
THEOREM LifecycleTypeCorrect == Spec => []TypeOK
<1>1. TypeInv => TypeOK
  BY DEF TypeInv
<1> QED
  BY <1>1, TypeInvAlways, PTL

-----------------------------------------------------------------------------
(* The virtual networks in the SDN controller.                             *)

SdnInv == /\ StaleDeletion /\ WorkerKnowsSdn /\ CreationCovered
          /\ AvailableIsCreated /\ SdnCovered

(* What the invariant says of one network, and of the worker.              *)
NetworkSound(n) ==
  /\ net[n].cache # None /\ net[n].cache.del => NotYetCreated(n)
  /\ net[n].cache # None /\ NeedsCreation(net[n].cache) => Accounted(n)
  /\ Live(n) /\ (net[n].obj.fin \/ net[n].obj.internal = "Available") => n \in sdn
  /\ n \in sdn => Accounted(n)

WorkSound ==
  work # None =>
    /\ work.at \in Deleting => NotYetCreated(work.net)
    /\ work.at = "report" /\ work.status = "Available" => work.net \in sdn
    /\ work.at = "finalize" => work.net \in sdn
    /\ work.at = "unfinalize" => work.net \notin sdn
    /\ work.at \in Creating => Accounted(work.net)

LEMMA SdnInvParts ==
  ASSUME TypeOK
  PROVE  SdnInv <=> WorkSound /\ \A n \in Networks : NetworkSound(n)
  BY DEF TypeOK, SdnInv, StaleDeletion, WorkerKnowsSdn, CreationCovered, AvailableIsCreated,
     SdnCovered, Accounted, NetworkSound, WorkSound

LEMMA SdnInvAfter ==
  ASSUME TypeInv', WorkSound', \A n \in Networks : NetworkSound(n)'
  PROVE  SdnInv'
  BY DEF TypeInv, TypeOK, SdnInv, StaleDeletion, WorkerKnowsSdn, CreationCovered,
     AvailableIsCreated, SdnCovered, Accounted, NetworkSound, WorkSound

(* A step that leaves a network alone.                                     *)
Alike(n) == /\ net'[n].obj = net[n].obj
            /\ n \in sdn <=> n \in sdn'
            /\ n \in early <=> n \in early'

LEMMA AlikeKeeps ==
  ASSUME NEW n, Alike(n)
  PROVE  /\ NotYetCreated(n) <=> NotYetCreated(n)'
         /\ Accounted(n) <=> Accounted(n)'
         /\ NetworkSound(n) /\ net'[n].cache = net[n].cache => NetworkSound(n)'
  BY DEF Alike, NotYetCreated, Accounted, NetworkSound, Live, Exists

(* A step that changes nothing of this, and starts no other task.          *)
LEMMA AllAlike ==
  ASSUME TypeInv, TypeInv', SdnInv, UNCHANGED <<sdn, early>>,
         \A n \in Networks : net'[n].obj = net[n].obj /\ net'[n].cache = net[n].cache,
         \/ work' = work \/ work' = None \/ work'.at \in Connecting
  PROVE  SdnInv'
<1>1. \A n \in Networks : Alike(n)
  BY DEF Alike
<1>2. \A n \in Networks : NetworkSound(n)'
  BY <1>1, AlikeKeeps, SdnInvParts DEF TypeInv
<1>3. WorkSound'
  <2>1. CASE work' = work
    <3>1. work # None => work.net \in Networks
      BY DEF TypeInv, TypeOK, Work
    <3> QED
      BY <1>1, <2>1, <3>1, AlikeKeeps, SdnInvParts DEF TypeInv, WorkSound, Alike
  <2>2. CASE work' = None \/ work'.at \in Connecting
    BY <2>2 DEF WorkSound, Connecting, Creating, Deleting
  <2> QED
    BY <2>1, <2>2
<1> QED
  BY <1>2, <1>3, SdnInvAfter

(* A step that changes one network and not the worker.                     *)
LEMMA OneChanged ==
  ASSUME TypeInv, TypeInv', SdnInv, NEW n \in Networks, UNCHANGED work,
         \A m \in Networks \ {n} : Alike(m) /\ net'[m].cache = net[m].cache,
         NetworkSound(n)', UNCHANGED sdn,
         work # None /\ work.net = n =>
           /\ work.at \in Deleting /\ NotYetCreated(n) => NotYetCreated(n)'
           /\ work.at \in Creating /\ Accounted(n) => Accounted(n)'
  PROVE  SdnInv'
<1>1. \A m \in Networks : NetworkSound(m)'
  BY AlikeKeeps, SdnInvParts DEF TypeInv
<1>2. WorkSound'
  <2>1. work # None => work.net \in Networks
    BY DEF TypeInv, TypeOK, Work
  <2>2. CASE work # None /\ work.net = n
    BY <2>2, SdnInvParts DEF WorkSound, TypeInv
  <2>3. CASE work # None /\ work.net # n
    BY <2>1, <2>3, AlikeKeeps, SdnInvParts DEF WorkSound, TypeInv, Alike
  <2> QED
    BY <2>2, <2>3 DEF WorkSound
<1> QED
  BY <1>1, <1>2, SdnInvAfter

(* A step that changes one network, and the worker.                        *)
LEMMA OthersAlike ==
  ASSUME TypeInv, TypeInv', SdnInv, NEW n \in Networks,
         \A m \in Networks \ {n} : Alike(m) /\ net'[m].cache = net[m].cache,
         NetworkSound(n)', WorkSound'
  PROVE  SdnInv'
<1>1. \A m \in Networks : NetworkSound(m)'
  BY AlikeKeeps, SdnInvParts DEF TypeInv
<1> QED
  BY <1>1, SdnInvAfter

LEMMA EnvironmentSdnInv ==
  ASSUME TypeInv, TypeInv', SdnInv, Environment
  PROVE  SdnInv'
<1>1. ASSUME NEW n \in Networks, CreateL2Network(n)
      PROVE  SdnInv'
  <2>1. /\ net' = [net EXCEPT ![n] = Write(net[n], NewObject)]
        /\ UNCHANGED <<work, sdn, early>>
    BY <1>1 DEF CreateL2Network, sdnVars
  <2>2. net'[n].obj = NewObject /\ NewObject # None
    <3>1. NewObject \in NetObject
      BY DEF NewObject, NetObject, Connectivity
    <3>2. net[n] \in Stored(NetValue) /\ net'[n] = Write(net[n], NewObject)
      BY <2>1 DEF TypeInv, TypeOK, NetValue
    <3>3. Write(net[n], NewObject).obj = NewObject
      BY <3>1, <3>2, WriteType DEF NetValue
    <3> QED
      BY <3>1, <3>2, <3>3, NetObjectAssumption
  <2>3. \A m \in Networks \ {n} : Alike(m) /\ net'[m].cache = net[m].cache
    BY <2>1 DEF Alike, TypeInv, TypeOK
  <2>4. NotYetCreated(n)' /\ Accounted(n)' /\ NetworkSound(n)'
    BY <2>2 DEF NotYetCreated, Accounted, NetworkSound, Exists, Live, NewObject
  <2> QED
    BY <2>1, <2>3, <2>4, OneChanged
<1>2. ASSUME NEW n \in Networks, DeleteL2Network(n)
      PROVE  SdnInv'
  <2>1. UNCHANGED <<work, sdn>> /\ Live(n) /\ net[n].obj \in NetObject
    BY <1>2 DEF DeleteL2Network, sdnVars, Live, Exists, TypeInv, TypeOK, Stored
  <2>2. /\ \A m \in Networks \ {n} : Alike(m) /\ net'[m].cache = net[m].cache
        /\ \/ net'[n].obj = [net[n].obj EXCEPT !.del = TRUE] /\ UNCHANGED early
           \/ net'[n].obj = None /\ n \in early'
    <3>1. CASE /\ net' = [net EXCEPT ![n] = Write(net[n], [net[n].obj EXCEPT !.del = TRUE])]
               /\ UNCHANGED early
      <4>1. [net[n].obj EXCEPT !.del = TRUE] \in NetValue /\ net[n] \in Stored(NetValue)
        BY <2>1 DEF NetValue, NetObject, TypeInv, TypeOK
      <4>2. net'[n].obj = [net[n].obj EXCEPT !.del = TRUE]
        BY <3>1, <4>1, WriteType DEF TypeInv, TypeOK
      <4> QED
        BY <2>1, <3>1, <4>2 DEF Alike, TypeInv, TypeOK
    <3>2. CASE /\ net' = [net EXCEPT ![n] = Write(net[n], None)]
               /\ early' = early \cup {n}
      <4>1. None \in NetValue /\ net[n] \in Stored(NetValue)
        BY DEF NetValue, TypeInv, TypeOK
      <4>2. net'[n].obj = None
        BY <3>2, <4>1, WriteType DEF TypeInv, TypeOK
      <4> QED
        BY <2>1, <3>2, <4>2 DEF Alike, TypeInv, TypeOK
    <3> QED
      BY <1>2, <3>1, <3>2 DEF DeleteL2Network
  <2>3. ~ Live(n)' /\ Accounted(n)'
    BY <2>1, <2>2, NetObjectAssumption DEF Accounted, Live, Exists, NetObject
  <2>4. NotYetCreated(n)' /\ NetworkSound(n)'
    BY <2>3 DEF NotYetCreated, NetworkSound
  <2> QED
    BY <2>1, <2>2, <2>3, <2>4, OneChanged
<1>3. ASSUME NEW n \in Networks, DeliverNetwork(n)
      PROVE  SdnInv'
  <2>1. /\ net' = [net EXCEPT ![n] = Delivered(net[n])]
        /\ UNCHANGED <<work, sdn, early>>
    BY <1>3 DEF DeliverNetwork, sdnVars, historyVars
  <2>2. net'[n].obj = net[n].obj /\ net'[n].cache = net[n].obj
    BY <2>1 DEF Delivered, TypeInv, TypeOK, Stored
  <2>3. \A m \in Networks : Alike(m) /\ (m # n => net'[m].cache = net[m].cache)
    BY <2>1, <2>2 DEF Alike, TypeInv, TypeOK
  <2>4. NetworkSound(n)
    BY SdnInvParts DEF TypeInv
  <2>5. NetworkSound(n)'
    BY <2>1, <2>2, <2>4 DEF NetworkSound, NotYetCreated, Accounted, Live, Exists
  <2> QED
    BY <2>1, <2>3, <2>5, AlikeKeeps, OneChanged
<1>4. ASSUME NEW n \in Networks, TouchNetwork(n)
      PROVE  SdnInv'
  <2>1. /\ net' = [net EXCEPT ![n] = Touched(net[n])]
        /\ UNCHANGED <<work, sdn, early>>
    BY <1>4 DEF TouchNetwork, sdnVars, historyVars
  <2>2. \A m \in Networks : net'[m].obj = net[m].obj /\ net'[m].cache = net[m].cache
    BY <2>1 DEF Touched, TypeInv, TypeOK, Stored
  <2> QED
    BY <2>1, <2>2, AllAlike
<1>5. CASE \/ \E n \in Networks : HostForPeer(n) \/ CollectSensor(n)
           \/ \E v \in Nads : DeliverNad(v) \/ \E m \in Nodes : ClaimForPod(v, m) \/ FreeForPod(v, m)
           \/ Resync
  <2>1. UNCHANGED <<net, work, sdn, early>>
    BY <1>5 DEF HostForPeer, CollectSensor, DeliverNad, ClaimForPod, FreeForPod, Resync,
                sdnVars, historyVars
  <2> QED
    BY <2>1, AllAlike
<1> QED
  BY <1>1, <1>2, <1>3, <1>4, <1>5 DEF Environment

LEMMA BeginSdnInv ==
  ASSUME TypeInv, TypeInv', SdnInv,
         NEW n \in Networks, Ignore(n) \/ BeginCreation(n) \/ BeginDeletion(n)
  PROVE  SdnInv'
<1>1. CASE Ignore(n)
  <2>1. UNCHANGED <<net, work, sdn, early>>
    BY <1>1 DEF Ignore, sdnVars, historyVars
  <2> QED
    BY <2>1, AllAlike
<1>2. CASE BeginCreation(n) \/ BeginDeletion(n)
  <2>1. PICK stage \in {"create", "delete"} :
               /\ Start(n, stage)
               /\ net[n].cache # None
               /\ stage = "create" => NeedsCreation(net[n].cache)
               /\ stage = "delete" => NeedsDeletion(net[n].cache)
    BY <1>2 DEF BeginCreation, BeginDeletion
  <2>2. /\ work'.at = stage /\ work'.net = n
        /\ net' = [net EXCEPT ![n] = Copied(net[n], Worker)]
        /\ UNCHANGED <<sdn, early>>
    BY <2>1 DEF Start, sdnVars, historyVars
  <2>3. \A m \in Networks : Alike(m) /\ net'[m].cache = net[m].cache
    BY <2>2 DEF Copied, Alike, TypeInv, TypeOK, Stored
  <2>4. NetworkSound(n)
    BY SdnInvParts DEF TypeInv
  <2>5. NetworkSound(n)'
    BY <2>3, <2>4, AlikeKeeps
  <2>6. /\ stage = "create" => Accounted(n)'
        /\ stage = "delete" => NotYetCreated(n)'
    BY <2>1, <2>3, <2>4, AlikeKeeps DEF NetworkSound, NeedsDeletion
  <2>7. WorkSound'
    BY <2>2, <2>6 DEF WorkSound, Creating, Deleting, Accounted, NotYetCreated, Live, Exists
  <2> QED
    BY <2>3, <2>5, <2>7, OthersAlike
<1> QED
  BY <1>1, <1>2

(* Steps of a network that is connected.                                   *)
LEMMA ConnectingSdnInv ==
  ASSUME TypeInv, TypeInv', SdnInv,
         \/ CheckNetworkExists \/ CreateAtProvider \/ ConnectInternalSwitchToNED
         \/ LabelNetAttachDef \/ CreateNewNEDConnection
         \/ SetUpMirrorPort \/ CreateIdsResources \/ LabelMirrorPort
  PROVE  SdnInv'
<1>1. work # None /\ work \in Work
  BY WorkType
  DEF CheckNetworkExists, CreateAtProvider, ConnectInternalSwitchToNED, LabelNetAttachDef,
      CreateNewNEDConnection, SetUpMirrorPort, CreateIdsResources, LabelMirrorPort, WorkingAt
<1>2. UNCHANGED <<net, sdn, early>>
  BY DEF CheckNetworkExists, CreateAtProvider, ConnectInternalSwitchToNED, LabelNetAttachDef,
      CreateNewNEDConnection, SetUpMirrorPort, CreateIdsResources, LabelMirrorPort,
      sdnVars, historyVars
<1>3. \/ Done \/ Retry \/ DetectIntrusions
      \/ \E stage \in Connecting :
           \/ GoOn(stage)
           \/ \E s \in Connectivity : Conclude(stage, s)
           \/ \E v \in Nads : Choose(stage, v)
  BY DEF CheckNetworkExists, CreateAtProvider, ConnectInternalSwitchToNED, LabelNetAttachDef,
      CreateNewNEDConnection, SetUpMirrorPort, CreateIdsResources, LabelMirrorPort,
      Connecting, Connectivity, FreeNetAttachDefs
<1>4. work' = None \/ work'.at \in Connecting
  BY <1>1, <1>3
  DEF Done, Retry, DetectIntrusions, GoOn, Conclude, Choose, Work, Connecting
<1> QED
  BY <1>2, <1>4, AllAlike

(* The network is created, or deleted, in the SDN controller.              *)
LEMMA SdnChangeSdnInv ==
  ASSUME TypeInv, TypeInv', SdnInv, CreateNetwork \/ DeleteNetwork
  PROVE  SdnInv'
<1>0. PICK n \in Networks : n = work.net
  BY WorkType DEF CreateNetwork, DeleteNetwork, WorkingAt
<1>1. /\ work # None /\ work \in Work /\ work.net = n
      /\ UNCHANGED <<net, early>>
  BY <1>0, WorkType DEF CreateNetwork, DeleteNetwork, WorkingAt, historyVars
<1>2. WorkSound /\ NetworkSound(n)
  BY <1>1, SdnInvParts DEF TypeInv
<1>3. CASE CreateNetwork
  <2>1. PICK o \in SdnOutcomes(n \in sdn) :
               /\ sdn' = sdn \cup {m \in {n} : o.done}
               /\ Conclude("report", IF o.ok THEN "Available" ELSE "Unavailable")
    BY <1>1, <1>3 DEF CreateNetwork
  <2>2. /\ work'.at = "report" /\ work'.net = n
        /\ work'.status = "Available" => n \in sdn'
    BY <1>1, <2>1, SdnCases DEF Conclude, Answered, Work
  <2>3. Accounted(n)
    BY <1>1, <1>2, <1>3 DEF WorkSound, CreateNetwork, WorkingAt, Creating
  <2>4. Accounted(n)' /\ NetworkSound(n)'
    BY <1>1, <1>2, <2>1, <2>3 DEF Accounted, NetworkSound, NotYetCreated, Live, Exists
  <2>5. WorkSound'
    BY <2>2, <2>4 DEF WorkSound, Deleting, Accounted, Exists
  <2>6. \A m \in Networks \ {n} : Alike(m) /\ net'[m].cache = net[m].cache
    BY <1>1, <2>1 DEF Alike
  <2> QED
    BY <1>1, <2>4, <2>5, <2>6, OthersAlike
<1>4. CASE DeleteNetwork
  <2>1. PICK o \in SdnOutcomes(n \notin sdn) :
               /\ sdn' = sdn \ {m \in {n} : o.done}
               /\ IF o.ok THEN GoOn("unfinalize") ELSE Retry
    BY <1>1, <1>4 DEF DeleteNetwork
  <2>2. \/ work' = None
        \/ work'.at = "unfinalize" /\ work'.net = n /\ n \notin sdn'
    BY <1>1, <2>1, SdnCases DEF GoOn, Retry, Answered, Work
  <2>3. NotYetCreated(n)
    BY <1>1, <1>2, <1>4 DEF WorkSound, DeleteNetwork, WorkingAt, Deleting
  <2>4. NotYetCreated(n)' /\ NetworkSound(n)'
    BY <1>1, <1>2, <2>1, <2>3 DEF Accounted, NetworkSound, NotYetCreated, Live, Exists
  <2>5. WorkSound'
    BY <2>2, <2>4 DEF WorkSound, Creating, NotYetCreated, Live, Exists
  <2>6. \A m \in Networks \ {n} : Alike(m) /\ net'[m].cache = net[m].cache
    BY <1>1, <2>1 DEF Alike
  <2> QED
    BY <1>1, <2>4, <2>5, <2>6, OthersAlike
<1> QED
  BY <1>3, <1>4

(* The worker writes to a network that it creates or connects.             *)
LEMMA StatusSdnInv ==
  ASSUME TypeInv, TypeInv', SdnInv,
         UpdateControllerStatus \/ AddFinalizer \/ UpdateProviderStatus
  PROVE  SdnInv'
<1>0. PICK n \in Networks : n = work.net
  BY WorkType DEF UpdateControllerStatus, AddFinalizer, UpdateProviderStatus, WorkingAt
<1>1. /\ work # None /\ work \in Work /\ work.net = n
      /\ net[n] \in Stored(NetValue) /\ work.at \notin Deleting
      /\ UNCHANGED <<sdn, early>>
  BY <1>0, WorkType DEF UpdateControllerStatus, AddFinalizer, UpdateProviderStatus, WorkingAt,
                  Deleting, sdnVars, historyVars
<1>2. WorkSound /\ NetworkSound(n)
  BY <1>1, SdnInvParts DEF TypeInv
<1>3. ASSUME NEW v \in {Reported, Finalized, Announced},
             NEW o \in UpdateOutcomes(net[n], Worker, v),
             net' = [net EXCEPT ![n] = Updated(net[n], o)]
      PROVE  /\ \A m \in Networks \ {n} : Alike(m) /\ net'[m].cache = net[m].cache
             /\ net'[n].cache = net[n].cache
             /\ net'[n].obj # net[n].obj =>
                  /\ Current(net[n], Worker)
                  /\ net'[n].obj = v /\ net[n].obj \in NetObject
                  /\ v # None /\ net[n].obj # None /\ v.del = net[n].obj.del
  <2>1. WorkerWrote(NetValue, net[n], v, Updated(net[n], o))
    BY <1>1, UpdateCases
  <2>2. net'[n] = Updated(net[n], o)
    BY <1>1, <1>3 DEF TypeInv, TypeOK
  <2>3. \A m \in Networks \ {n} : Alike(m) /\ net'[m].cache = net[m].cache
    BY <1>1, <1>3 DEF Alike, TypeInv, TypeOK
  <2>4. net'[n].obj # net[n].obj => Current(net[n], Worker) /\ net'[n].obj = v
    BY <2>1, <2>2 DEF WorkerWrote
  <2>5. net'[n].cache = net[n].cache
    BY <2>1, <2>2 DEF WorkerWrote
  <2> QED
    BY <1>1, <2>3, <2>4, <2>5, WrittenType, NetObjectAssumption
<1>4. CASE UpdateControllerStatus
  <2>1. PICK o \in UpdateOutcomes(net[n], Worker, Reported) :
               net' = [net EXCEPT ![n] = Updated(net[n], o)]
    BY <1>1, <1>4 DEF UpdateControllerStatus, Reported
  <2>2. /\ \A m \in Networks \ {n} : Alike(m) /\ net'[m].cache = net[m].cache
        /\ net'[n].cache = net[n].cache
        /\ net'[n].obj # net[n].obj =>
             /\ Current(net[n], Worker)
             /\ net'[n].obj = Reported /\ net[n].obj \in NetObject
             /\ Reported # None /\ net[n].obj # None
    BY <1>3, <2>1
  <2>3. work.at = "report" /\ (work.status = "Available" => n \in sdn)
    BY <1>1, <1>2, <1>4 DEF WorkSound, UpdateControllerStatus, WorkingAt
  <2>4. Accounted(n) /\ (Current(net[n], Worker) =>
                           net[n].cache # None /\ ~ net[n].cache.del)
    BY <1>1, <1>2, <2>3 DEF WorkSound, Creating, TypeInv, WorkerCopyCurrent
  <2>5. Accounted(n)'
    BY <1>1, <2>2, <2>4 DEF Accounted, Exists
  <2>6. NetworkSound(n)'
    <3>1. CASE net'[n].obj = net[n].obj
      BY <1>1, <1>2, <2>2, <3>1, AlikeKeeps DEF Alike
    <3>2. CASE net'[n].obj # net[n].obj
      <4>1. /\ net'[n].obj.del = net[n].obj.del /\ net'[n].obj.fin = net[n].obj.fin
            /\ net'[n].obj.internal = work.status
        BY <1>1, <2>2, <3>2 DEF Reported, NetObject
      <4> QED
        BY <1>1, <1>2, <2>2, <2>3, <2>4, <2>5, <3>2, <4>1
        DEF NetworkSound, Live, Exists
    <3> QED
      BY <3>1, <3>2
  <2>7. WorkSound'
    <3>1. \/ work' = None
          \/ work'.at = "finalize" /\ work'.net = n /\ n \in sdn'
      BY <1>1, <1>4, <2>3 DEF UpdateControllerStatus, GoOn, Retry, Work
    <3> QED
      BY <2>5, <3>1 DEF WorkSound, Deleting, Accounted, Exists
  <2> QED
    BY <1>1, <2>2, <2>6, <2>7, OthersAlike
<1>5. CASE AddFinalizer
  <2>1. PICK o \in UpdateOutcomes(net[n], Worker, Finalized) :
               net' = [net EXCEPT ![n] = Updated(net[n], o)]
    BY <1>1, <1>5 DEF AddFinalizer, Finalized
  <2>2. /\ \A m \in Networks \ {n} : Alike(m) /\ net'[m].cache = net[m].cache
        /\ net'[n].cache = net[n].cache
        /\ net'[n].obj # net[n].obj =>
             /\ Current(net[n], Worker)
             /\ net'[n].obj = Finalized /\ net[n].obj \in NetObject
             /\ Finalized # None /\ net[n].obj # None
    BY <1>3, <2>1
  <2>3. work.at = "finalize" /\ n \in sdn /\ Accounted(n)
    BY <1>1, <1>2, <1>5 DEF WorkSound, AddFinalizer, WorkingAt, Creating
  <2>4. Current(net[n], Worker) => net[n].cache # None /\ ~ net[n].cache.del
    BY <1>1, <2>3 DEF Creating, TypeInv, WorkerCopyCurrent
  <2>5. Accounted(n)'
    BY <1>1, <2>2, <2>3 DEF Accounted, Exists
  <2>6. NetworkSound(n)'
    <3>1. CASE net'[n].obj = net[n].obj
      BY <1>1, <1>2, <2>2, <3>1, AlikeKeeps DEF Alike
    <3>2. CASE net'[n].obj # net[n].obj
      BY <1>1, <2>2, <2>3, <2>4, <2>5, <3>2 DEF NetworkSound
    <3> QED
      BY <3>1, <3>2
  <2>7. work' = None \/ work'.at \in Connecting
    BY <1>1, <1>5
    DEF AddFinalizer, GoOn, Retry, DetectIntrusions, Done, Work, Connecting
  <2>8. WorkSound'
    BY <2>7 DEF WorkSound, Connecting, Creating, Deleting
  <2> QED
    BY <1>1, <2>2, <2>6, <2>8, OthersAlike
<1>6. CASE UpdateProviderStatus
  <2>1. PICK o \in UpdateOutcomes(net[n], Worker, Announced) :
               net' = [net EXCEPT ![n] = Updated(net[n], o)]
    BY <1>1, <1>6 DEF UpdateProviderStatus, Announced
  <2>2. /\ \A m \in Networks \ {n} : Alike(m) /\ net'[m].cache = net[m].cache
        /\ net'[n].cache = net[n].cache
        /\ net'[n].obj # net[n].obj =>
             /\ net'[n].obj = Announced /\ net[n].obj \in NetObject
             /\ Announced # None /\ net[n].obj # None
    BY <1>3, <2>1
  <2>3. NetworkSound(n)'
    <3>1. CASE net'[n].obj = net[n].obj
      BY <1>1, <1>2, <2>2, <3>1, AlikeKeeps DEF Alike
    <3>2. CASE net'[n].obj # net[n].obj
      <4>1. /\ net'[n].obj.del = net[n].obj.del /\ net'[n].obj.fin = net[n].obj.fin
            /\ net'[n].obj.internal = net[n].obj.internal
        BY <1>1, <2>2, <3>2 DEF Announced, NetObject
      <4> QED
        BY <1>1, <1>2, <2>2, <3>2, <4>1
        DEF NetworkSound, NotYetCreated, Accounted, Live, Exists
    <3> QED
      BY <3>1, <3>2
  <2>4. work' = None \/ work'.at \in Connecting
    BY <1>1, <1>6 DEF UpdateProviderStatus, GoOn, Retry, Work, Connecting
  <2>5. WorkSound'
    BY <2>4 DEF WorkSound, Connecting, Creating, Deleting
  <2> QED
    BY <1>1, <2>2, <2>3, <2>5, OthersAlike
<1> QED
  BY <1>4, <1>5, <1>6

LEMMA RemoveFinalizerSdnInv ==
  ASSUME TypeInv, TypeInv', SdnInv, RemoveFinalizer
  PROVE  SdnInv'
<1>0. PICK n \in Networks : n = work.net
  BY WorkType DEF RemoveFinalizer, WorkingAt
<1>1. /\ work # None /\ work.net = n /\ net[n] \in Stored(NetValue)
      /\ work.at = "unfinalize" /\ UNCHANGED sdn
  BY <1>0, WorkType DEF RemoveFinalizer, WorkingAt, sdnVars
<1>2. PICK o \in UpdateOutcomes(net[n], Worker, None) :
             /\ net' = [net EXCEPT ![n] = Forgotten(o.after, Worker)]
             /\ early' = early \ {m \in {n} : o.after.obj = None /\ Exists(n)}
             /\ Done \/ Retry
  BY <1>1 DEF RemoveFinalizer
<1>3. /\ WorkerWrote(NetValue, net[n], None, Forgotten(o.after, Worker))
      /\ Forgotten(o.after, Worker).obj = o.after.obj
  BY <1>1, ForgottenWrote DEF NetValue
<1>4. net'[n] = Forgotten(o.after, Worker)
  BY <1>1, <1>2 DEF TypeInv, TypeOK
<1>5. NetworkSound(n) /\ n \notin sdn
  BY <1>1, SdnInvParts DEF TypeInv, WorkSound
<1>6. NetworkSound(n)'
  <2>1. CASE net'[n].obj = net[n].obj
    <3>1. UNCHANGED early
      BY <1>2, <1>3, <1>4, <2>1 DEF Exists
    <3> QED
      BY <1>1, <1>3, <1>4, <1>5, <2>1, <3>1, AlikeKeeps DEF Alike, WorkerWrote
  <2>2. CASE net'[n].obj # net[n].obj
    <3>1. Current(net[n], Worker) /\ net'[n].obj = None /\ net'[n].cache = net[n].cache
      BY <1>3, <1>4, <2>2 DEF WorkerWrote
    <3>2. net[n].cache.del
      BY <1>1, <3>1 DEF Deleting, NeedsDeletion, TypeInv, WorkerCopyCurrent
    <3> QED
      BY <1>1, <1>5, <3>1, <3>2
      DEF NetworkSound, NotYetCreated, NeedsCreation, Live, Exists
  <2> QED
    BY <2>1, <2>2
<1>7. WorkSound'
  BY <1>2 DEF WorkSound, Done, Retry
<1>8. \A m \in Networks \ {n} : Alike(m) /\ net'[m].cache = net[m].cache
  BY <1>1, <1>2 DEF Alike, TypeInv, TypeOK
<1> QED
  BY <1>1, <1>6, <1>7, <1>8, OthersAlike

LEMMA RestartSdnInv ==
  ASSUME TypeInv, TypeInv', SdnInv, Restart
  PROVE  SdnInv'
<1>1. /\ work' = None /\ UNCHANGED <<sdn, early>>
      /\ net' = [n \in Networks |-> New(net[n].obj)]
  BY DEF Restart, sdnVars, historyVars
<1>2. ASSUME NEW n \in Networks
      PROVE  NetworkSound(n)'
  <2>1. net'[n].obj = net[n].obj /\ net'[n].cache = net[n].obj
    BY <1>1 DEF New
  <2>2. NetworkSound(n)
    BY SdnInvParts DEF TypeInv
  <2> QED
    BY <1>1, <2>1, <2>2 DEF NetworkSound, NotYetCreated, Accounted, Live, Exists
<1>3. WorkSound'
  BY <1>1 DEF WorkSound
<1> QED
  BY <1>2, <1>3, SdnInvAfter

LEMMA SdnInvStep ==
  ASSUME TypeInv, TypeInv', SdnInv, [Next]_vars
  PROVE  SdnInv'
<1>1. CASE Next
  BY <1>1, EnvironmentSdnInv, BeginSdnInv, ConnectingSdnInv, SdnChangeSdnInv,
     StatusSdnInv, RemoveFinalizerSdnInv, RestartSdnInv DEF Next, WorkerStep
<1>2. CASE UNCHANGED vars
  BY <1>2, AllAlike DEF vars, sdnVars, historyVars
<1> QED
  BY <1>1, <1>2

LEMMA SdnInvInit == Init => SdnInv
<1> SUFFICES ASSUME Init PROVE SdnInv
  OBVIOUS
<1> QED
  BY DEF Init, New, SdnInv, StaleDeletion, WorkerKnowsSdn, CreationCovered,
         AvailableIsCreated, SdnCovered, Live, Exists

LEMMA SdnInvAlways == Spec => []SdnInv
<1>1. TypeInv /\ TypeInv' /\ SdnInv /\ [Next]_vars => SdnInv'
  BY SdnInvStep
<1> QED
  BY <1>1, SdnInvInit, TypeInvAlways, PTL DEF Spec

(* A network that its status calls available, or that has the finalizer,   *)
(* is in the SDN controller as long as it is not deleted, whatever fails   *)
(* and whenever the operator restarts.                                     *)
THEOREM AvailableIsCreatedHolds == Spec => []AvailableIsCreated
<1>1. SdnInv => AvailableIsCreated
  BY DEF SdnInv
<1> QED
  BY <1>1, SdnInvAlways, PTL

(* What is in the SDN controller has an object whose deletion will remove  *)
(* it, but for objects deleted before the finalizer was written.           *)
THEOREM SdnCoveredHolds == Spec => []SdnCovered
<1>1. SdnInv => SdnCovered
  BY DEF SdnInv
<1> QED
  BY <1>1, SdnInvAlways, PTL

-----------------------------------------------------------------------------
(* The attachments.                                                        *)

SameLabels == \A v \in Nads : nad'[v].obj = nad[v].obj

(* One label changes: a free port is claimed, or one is freed.             *)
LabelsTo(v, m, p) ==
  /\ nad'[v].obj = [nad[v].obj EXCEPT ![m] = p]
  /\ \A w \in Nads \ {v} : nad'[w].obj = nad[w].obj
  /\ \/ nad[v].obj[m] = None
     \/ p = None /\ {nad[v].obj[m]} \cap Networks \subseteq evicted'

LabelStep ==
  /\ evicted \subseteq evicted'
  /\ \/ SameLabels
     \/ \E v \in Nads, m \in Nodes, p \in Owners \cup {None} : LabelsTo(v, m, p)

LEMMA NadLabels ==
  ASSUME TypeInv, NEW v \in Nads
  PROVE  /\ nad[v] \in Stored(Labels) /\ nad[v].obj \in Labels
         /\ \A m \in Nodes : nad[v].obj[m] \in Owners \cup {None}
  BY DEF TypeInv, TypeOK, Stored, Labels

(* The worker labels only an attachment that is free.                      *)
LEMMA WorkerLabels ==
  ASSUME TypeInv, NEW v \in Nads, NEW m \in Nodes, NEW n \in Networks,
         Current(nad[v], Worker) => nad[v].obj[m] = None,
         NEW o \in UpdateOutcomes(nad[v], Worker, [nad[v].obj EXCEPT ![m] = n]),
         nad' = [nad EXCEPT ![v] = Forgotten(o.after, Worker)],
         UNCHANGED evicted
  PROVE  /\ LabelStep
         /\ o.ok => nad'[v].obj[m] = n
<1>1. nad[v] \in Stored(Labels) /\ nad[v].obj \in Labels
  BY NadLabels
<1>2. [nad[v].obj EXCEPT ![m] = n] \in Labels
  BY <1>1 DEF Labels, Owners
<1> DEFINE t == Forgotten(o.after, Worker)
<1>3. /\ WorkerWrote(Labels, nad[v], [nad[v].obj EXCEPT ![m] = n], t)
      /\ o.ok => t.obj = [nad[v].obj EXCEPT ![m] = n]
  BY <1>1, <1>2, ForgottenWrote
<1> HIDE DEF t
<1>4. nad'[v] = t /\ \A w \in Nads \ {v} : nad'[w] = nad[w]
  BY DEF t, TypeInv, TypeOK
<1>5. t.obj = nad[v].obj => LabelStep
  BY <1>4 DEF LabelStep, SameLabels
<1>6. ASSUME Current(nad[v], Worker), t.obj = [nad[v].obj EXCEPT ![m] = n]
      PROVE  LabelStep
  <2>1. LabelsTo(v, m, n)
    BY <1>4, <1>6 DEF LabelsTo
  <2> QED
    BY <2>1 DEF LabelStep, Owners
<1>7. LabelStep
  BY <1>3, <1>5, <1>6 DEF WorkerWrote
<1>8. o.ok => nad'[v].obj[m] = n
  BY <1>1, <1>3, <1>4 DEF Labels
<1> QED
  BY <1>7, <1>8

LEMMA LabelsByAll ==
  ASSUME TypeInv, ChosenFree, [Next]_vars
  PROVE  LabelStep
<1>1. ASSUME NEW v \in Nads, NEW m \in Nodes, ClaimForPod(v, m) \/ FreeForPod(v, m)
      PROVE  LabelStep
  <2>1. nad[v] \in Stored(Labels) /\ nad[v].obj \in Labels
    BY NadLabels
  <2>2. PICK p \in {PodClaim, None} :
               /\ nad' = [nad EXCEPT ![v] = Write(nad[v], [nad[v].obj EXCEPT ![m] = p])]
               /\ \/ nad[v].obj[m] = None
                  \/ p = None /\ {nad[v].obj[m]} \cap Networks \subseteq evicted'
    BY <1>1 DEF ClaimForPod, FreeForPod
  <2>3. [nad[v].obj EXCEPT ![m] = p] \in Labels
    BY <2>1 DEF Labels, Owners
  <2>4. LabelsTo(v, m, p)
    BY <2>1, <2>2, <2>3, WriteType DEF LabelsTo, TypeInv, TypeOK
  <2>5. evicted \subseteq evicted'
    BY <1>1 DEF ClaimForPod, FreeForPod, historyVars
  <2> QED
    BY <2>4, <2>5 DEF LabelStep, Owners
<1>2. ASSUME NEW v \in Nads,
             \/ nad' = [nad EXCEPT ![v] = Delivered(nad[v])]
             \/ nad' = [nad EXCEPT ![v] = Copied(nad[v], Worker)],
             UNCHANGED evicted
      PROVE  LabelStep
  <2>1. /\ Delivered(nad[v]).obj = nad[v].obj
        /\ Copied(nad[v], Worker).obj = nad[v].obj
    BY NadLabels, OthersType
  <2> QED
    BY <1>2, <2>1 DEF LabelStep, SameLabels, TypeInv, TypeOK
<1>3. CASE LabelNetAttachDef
  <2>1. /\ work # None /\ work.at = "label" /\ work.nad \in Nads /\ work.net \in Networks
    BY <1>3, WorkType DEF LabelNetAttachDef, WorkingAt
  <2>2. Current(nad[work.nad], Worker) => nad[work.nad].obj[EdgeNode] = None
    BY <2>1, LifecycleAssumption DEF ChosenFree
  <2> QED
    BY <1>3, <2>1, <2>2, WorkerLabels DEF LabelNetAttachDef, Nodes, historyVars
<1>4. CASE LabelMirrorPort
  <2>1. /\ work # None /\ work.at = "mark" /\ work.nad \in Nads /\ work.net \in Networks
    BY <1>4, WorkType DEF LabelMirrorPort, WorkingAt
  <2>2. Current(nad[work.nad], Worker) => nad[work.nad].obj[IdsNode] = None
    BY <2>1, LifecycleAssumption DEF ChosenFree
  <2> QED
    BY <1>4, <2>1, <2>2, WorkerLabels DEF LabelMirrorPort, Nodes, historyVars
<1>5. CASE Restart
  BY <1>5 DEF Restart, New, LabelStep, SameLabels, historyVars
<1>6. CASE ConnectInternalSwitchToNED \/ SetUpMirrorPort
  <2>1. /\ UNCHANGED evicted
        /\ \/ UNCHANGED nad
           \/ \E v \in Nads : nad' = [nad EXCEPT ![v] = Copied(@, Worker)]
    BY <1>6 DEF historyVars, ConnectInternalSwitchToNED, SetUpMirrorPort, FreeNetAttachDefs
  <2> QED
    BY <1>2, <2>1 DEF LabelStep, SameLabels
<1>7. CASE \E v \in Nads : DeliverNad(v)
  BY <1>2, <1>7 DEF DeliverNad, historyVars
<1>8. CASE UNCHANGED <<nad, evicted>>
  BY <1>8 DEF LabelStep, SameLabels
<1>9. CASE Environment
  BY <1>1, <1>7, <1>8, <1>9
  DEF Environment, CreateL2Network, DeleteL2Network, TouchNetwork, DeliverNetwork,
      HostForPeer, CollectSensor, Resync, historyVars
<1>10. CASE \E n \in Networks : Ignore(n) \/ BeginCreation(n) \/ BeginDeletion(n)
  BY <1>8, <1>10 DEF Ignore, BeginCreation, BeginDeletion, Start, historyVars
<1>11. CASE WorkerStep
  BY <1>3, <1>4, <1>6, <1>8, <1>11
  DEF WorkerStep, CreateNetwork, UpdateControllerStatus, AddFinalizer, CheckNetworkExists,
      CreateAtProvider, UpdateProviderStatus, CreateNewNEDConnection, CreateIdsResources,
      DeleteNetwork, RemoveFinalizer, historyVars
<1> QED
  BY <1>5, <1>8, <1>9, <1>10, <1>11 DEF Next, vars, historyVars

(* A network keeps its port, or is evicted from it.                        *)
LEMMA PortsKept ==
  ASSUME TypeInv, LabelStep, NEW n \in Networks, HasEdgePort(n)
  PROVE  HasEdgePort(n)'
<1>1. n # None
  BY LifecycleAssumption DEF Owners
<1>2. CASE n \in evicted
  BY <1>2 DEF HasEdgePort, LabelStep
<1>3. ASSUME NEW v \in Nads, nad[v].obj[EdgeNode] = n
      PROVE  n \in evicted' \/ nad'[v].obj[EdgeNode] = n
  <2>1. CASE SameLabels
    BY <1>3, <2>1 DEF SameLabels
  <2>2. ASSUME NEW w \in Nads, NEW m \in Nodes, NEW p \in Owners \cup {None},
               LabelsTo(w, m, p)
        PROVE  n \in evicted' \/ nad'[v].obj[EdgeNode] = n
    <3>1. CASE v = w
      BY <1>1, <1>3, <2>2, <3>1, NadLabels DEF LabelsTo, Labels, Nodes
    <3>2. CASE v # w
      BY <1>3, <2>2, <3>2 DEF LabelsTo
    <3> QED
      BY <3>1, <3>2
  <2> QED
    BY <2>1, <2>2 DEF LabelStep
<1> QED
  BY <1>2, <1>3 DEF HasEdgePort

(* How a step moves the worker: only two steps choose an attachment, and   *)
(* only a labelled one is linked.                                          *)
LEMMA WorkerMoves ==
  ASSUME TypeInv, [Next]_vars
  PROVE  \/ UNCHANGED work \/ work' = None
         \/ work'.at \notin {"label", "deploy", "mark", "link"}
         \/ ConnectInternalSwitchToNED \/ SetUpMirrorPort
         \/ LabelNetAttachDef \/ CreateIdsResources
<1>1. CASE Environment \/ UNCHANGED vars
  BY <1>1 DEF Environment, CreateL2Network, DeleteL2Network, TouchNetwork, DeliverNetwork,
     HostForPeer, CollectSensor, DeliverNad, ClaimForPod, FreeForPod, Resync, vars
<1>2. CASE \E n \in Networks : Ignore(n) \/ BeginCreation(n) \/ BeginDeletion(n)
  BY <1>2 DEF Ignore, BeginCreation, BeginDeletion, Start
<1>3. CASE Restart
  BY <1>3 DEF Restart
<1>4. ASSUME work # None,
             \/ Done \/ Retry \/ DetectIntrusions
             \/ \E stage \in {"check", "offer", "finalize", "join", "unfinalize"} : GoOn(stage)
             \/ \E stage \in {"report", "announce"}, c \in Connectivity : Conclude(stage, c)
      PROVE  work' = None \/ work'.at \notin {"label", "deploy", "mark", "link"}
  <2>1. work \in Work
    BY <1>4, WorkType
  <2> QED
    BY <1>4, <2>1 DEF Done, Retry, DetectIntrusions, GoOn, Conclude, Work
<1>5. CASE \/ CreateNetwork \/ UpdateControllerStatus \/ AddFinalizer
           \/ CheckNetworkExists \/ CreateAtProvider \/ UpdateProviderStatus
           \/ CreateNewNEDConnection \/ LabelMirrorPort
           \/ DeleteNetwork \/ RemoveFinalizer
  BY <1>4, <1>5 DEF CreateNetwork, UpdateControllerStatus, AddFinalizer, CheckNetworkExists,
     CreateAtProvider, UpdateProviderStatus, CreateNewNEDConnection, LabelMirrorPort,
     DeleteNetwork, RemoveFinalizer, WorkingAt, Connectivity
<1> QED
  BY <1>1, <1>2, <1>3, <1>5 DEF Next, WorkerStep

(* The copy of an attachment that nobody writes to by the worker's hand:   *)
(* if it is current afterwards, it was before, and says the same.          *)
LEMMA CopyStays ==
  ASSUME TypeInv, [Next]_vars, UNCHANGED work, work # None, NEW v \in Nads,
         Current(nad'[v], Worker)
  PROVE  Current(nad[v], Worker) /\ nad'[v].obj = nad[v].obj
<1>1. nad[v] \in Stored(Labels)
  BY NadLabels
<1>2. CASE UNCHANGED nad
  BY <1>2
<1>3. ASSUME NEW w \in Nads, DeliverNad(w)
      PROVE  Current(nad[v], Worker) /\ nad'[v].obj = nad[v].obj
  BY <1>1, <1>3, OthersType DEF DeliverNad, TypeInv, TypeOK
<1>4. ASSUME NEW w \in Nads, NEW l \in Labels,
             nad' = [nad EXCEPT ![w] = Write(nad[w], l)]
      PROVE  Current(nad[v], Worker) /\ nad'[v].obj = nad[v].obj
  <2>1. Write(nad[w], l) = nad[w] \/ Write(nad[w], l).fresh = {}
    BY <1>4, NadLabels, WriteType
  <2>2. nad'[v] = nad[v] \/ nad'[v].fresh = {}
    BY <1>4, <2>1 DEF TypeInv, TypeOK
  <2> QED
    BY <2>2
<1>5. ASSUME NEW w \in Nads, NEW m \in Nodes, ClaimForPod(w, m) \/ FreeForPod(w, m)
      PROVE  Current(nad[v], Worker) /\ nad'[v].obj = nad[v].obj
  <2>1. /\ [nad[w].obj EXCEPT ![m] = PodClaim] \in Labels
        /\ [nad[w].obj EXCEPT ![m] = None] \in Labels
    BY NadLabels DEF Labels, Owners
  <2>2. \E l \in Labels : nad' = [nad EXCEPT ![w] = Write(nad[w], l)]
    BY <1>5, <2>1 DEF ClaimForPod, FreeForPod
  <2> QED
    BY <1>4, <2>2
<1>6. CASE Environment \/ UNCHANGED vars
  BY <1>2, <1>3, <1>5, <1>6
  DEF Environment, CreateL2Network, DeleteL2Network, TouchNetwork, DeliverNetwork,
      HostForPeer, CollectSensor, Resync, vars
<1>7. CASE \E n \in Networks : Ignore(n) \/ BeginCreation(n) \/ BeginDeletion(n)
  BY <1>2, <1>7 DEF Ignore, BeginCreation, BeginDeletion, Start
<1>8. CASE WorkerStep
  <2>1. work \in Work
    BY WorkType
  <2>2. work' # None /\ work'.at = work.at
    OBVIOUS
  <2>3. ~ ConnectInternalSwitchToNED
    <3> SUFFICES ASSUME ConnectInternalSwitchToNED PROVE FALSE
      OBVIOUS
    <3>1. work.at = "join" /\ (Done \/ \E w \in Nads : Choose("label", w))
      BY DEF ConnectInternalSwitchToNED, WorkingAt, FreeNetAttachDefs
    <3> QED
      BY <2>1, <2>2, <3>1 DEF Choose, Done, Work
  <2>4. ~ SetUpMirrorPort
    <3> SUFFICES ASSUME SetUpMirrorPort PROVE FALSE
      OBVIOUS
    <3>1. work.at = "mirror" /\ (Retry \/ \E w \in Nads : Choose("deploy", w))
      BY DEF SetUpMirrorPort, WorkingAt, FreeNetAttachDefs
    <3> QED
      BY <2>1, <2>2, <3>1 DEF Choose, Retry, Work
  <2>5. ~ LabelNetAttachDef
    BY <2>1, <2>2 DEF LabelNetAttachDef, WorkingAt, GoOn, Done, Work
  <2>6. ~ LabelMirrorPort
    BY <2>2 DEF LabelMirrorPort, Done, Retry
  <2>7. UNCHANGED nad
    BY <1>8, <2>3, <2>4, <2>5, <2>6
    DEF WorkerStep, CreateNetwork, UpdateControllerStatus, AddFinalizer,
      CheckNetworkExists, CreateAtProvider, UpdateProviderStatus, CreateNewNEDConnection,
      CreateIdsResources, DeleteNetwork, RemoveFinalizer
  <2> QED
    BY <1>2, <2>7
<1>9. CASE Restart
  BY <1>9 DEF Restart
<1> QED
  BY <1>6, <1>7, <1>8, <1>9 DEF Next

(* A choice is made from the cache.                                        *)
LEMMA ChosenCopy ==
  ASSUME TypeInv, NEW v \in Nads, NEW m \in Nodes, v \in FreeNetAttachDefs(m),
         nad' = [nad EXCEPT ![v] = Copied(nad[v], Worker)],
         Current(nad'[v], Worker)
  PROVE  nad'[v].obj[m] = None
<1>1. nad[v] \in Stored(Labels) /\ nad'[v] = Copied(nad[v], Worker)
  BY NadLabels DEF TypeInv, TypeOK
<1>2. Current(nad[v], Cache) /\ nad'[v].obj = nad[v].obj
  BY <1>1, OthersType
<1> QED
  BY <1>2 DEF FreeNetAttachDefs, TypeInv, CopiesCurrent

ClaimInv == ChosenFree /\ LinkClaimed /\ LinkedPortClaimed

LEMMA ChosenFreeStep ==
  ASSUME TypeInv, TypeInv', ClaimInv, [Next]_vars
  PROVE  ChosenFree'
<1> USE DEF Nodes
<1>1. CASE UNCHANGED work
  <2> SUFFICES ASSUME work # None, work.nad # None, Current(nad'[work.nad], Worker),
                      work.at \in {"label", "deploy", "mark"}
               PROVE  /\ work.at = "label" => nad'[work.nad].obj[EdgeNode] = None
                      /\ work.at \in {"deploy", "mark"} =>
                           nad'[work.nad].obj[IdsNode] = None
    BY <1>1 DEF ChosenFree
  <2>1. work.nad \in Nads
    BY WorkType
  <2>2. Current(nad[work.nad], Worker) /\ nad'[work.nad].obj = nad[work.nad].obj
    BY <1>1, <2>1, CopyStays
  <2> QED
    BY <2>2 DEF ClaimInv, ChosenFree
<1>2. CASE work' = None \/ work'.at \notin {"label", "deploy", "mark", "link"}
  BY <1>2 DEF ChosenFree
<1>3. CASE ConnectInternalSwitchToNED
  <2>1. work # None /\ work \in Work /\ work.at = "join"
    BY <1>3, WorkType DEF ConnectInternalSwitchToNED, WorkingAt
  <2>2. CASE Done
    BY <2>2 DEF Done, ChosenFree
  <2>3. ASSUME NEW v \in FreeNetAttachDefs(EdgeNode), Choose("label", v),
               nad' = [nad EXCEPT ![v] = Copied(nad[v], Worker)]
        PROVE  ChosenFree'
    <3>1. v \in Nads /\ work'.at = "label" /\ work'.nad = v
      BY <2>1, <2>3 DEF Choose, Work, FreeNetAttachDefs
    <3>2. Current(nad'[v], Worker) => nad'[v].obj[EdgeNode] = None
      BY <2>3, <3>1, ChosenCopy
    <3> QED
      BY <3>1, <3>2 DEF ChosenFree
  <2> QED
    BY <1>3, <2>2, <2>3 DEF ConnectInternalSwitchToNED
<1>4. CASE SetUpMirrorPort
  <2>1. work # None /\ work \in Work /\ work.at = "mirror"
    BY <1>4, WorkType DEF SetUpMirrorPort, WorkingAt
  <2>2. CASE Retry
    BY <2>2 DEF Retry, ChosenFree
  <2>3. ASSUME NEW v \in FreeNetAttachDefs(IdsNode), Choose("deploy", v),
               nad' = [nad EXCEPT ![v] = Copied(nad[v], Worker)]
        PROVE  ChosenFree'
    <3>1. v \in Nads /\ work'.at = "deploy" /\ work'.nad = v
      BY <2>1, <2>3 DEF Choose, Work, FreeNetAttachDefs
    <3>2. Current(nad'[v], Worker) => nad'[v].obj[IdsNode] = None
      BY <2>3, <3>1, ChosenCopy
    <3> QED
      BY <3>1, <3>2 DEF ChosenFree
  <2> QED
    BY <1>4, <2>2, <2>3 DEF SetUpMirrorPort
<1>5. CASE LabelNetAttachDef
  <2>1. work # None /\ work \in Work
    BY <1>5, WorkType DEF LabelNetAttachDef, WorkingAt
  <2>2. work' = None \/ work'.at = "link"
    BY <1>5, <2>1 DEF LabelNetAttachDef, GoOn, Done, Work
  <2> QED
    BY <2>2 DEF ChosenFree
<1>6. CASE CreateIdsResources
  <2>1. /\ work # None /\ work \in Work /\ work.at = "deploy"
        /\ UNCHANGED nad
    BY <1>6, WorkType DEF CreateIdsResources, WorkingAt
  <2>2. work'.at = "mark" /\ work'.nad = work.nad
    BY <1>6, <2>1 DEF CreateIdsResources, GoOn, Work
  <2> QED
    BY <2>1, <2>2 DEF ClaimInv, ChosenFree
<1> QED
  BY <1>1, <1>2, <1>3, <1>4, <1>5, <1>6, WorkerMoves

LEMMA LinkClaimedStep ==
  ASSUME TypeInv, TypeInv', ClaimInv, [Next]_vars
  PROVE  LinkClaimed'
<1>1. LabelStep
  BY LabelsByAll DEF ClaimInv
<1>2. CASE UNCHANGED work
  <2> SUFFICES ASSUME WorkingAt("link")
               PROVE  work.net \in evicted' \/ \E v \in Nads : nad'[v].obj[EdgeNode] = work.net
    BY <1>2 DEF LinkClaimed, HasEdgePort, WorkingAt
  <2>1. work.net \in Networks /\ HasEdgePort(work.net)
    BY WorkType DEF ClaimInv, LinkClaimed, WorkingAt
  <2>2. PICK n \in Networks : n = work.net
    BY <2>1
  <2>3. HasEdgePort(n)'
    BY <1>1, <2>1, <2>2, PortsKept
  <2> QED
    BY <2>2, <2>3 DEF HasEdgePort
<1>3. CASE work' = None \/ work'.at \notin {"label", "deploy", "mark", "link"}
  BY <1>3 DEF LinkClaimed, WorkingAt
<1>4. CASE ConnectInternalSwitchToNED \/ SetUpMirrorPort \/ CreateIdsResources
  <2>1. work # None /\ work \in Work
    BY <1>4, WorkType
    DEF ConnectInternalSwitchToNED, SetUpMirrorPort, CreateIdsResources, WorkingAt
  <2>2. \/ Done \/ Retry
        \/ GoOn("mark")
        \/ \E stage \in {"label", "deploy"} : \E v \in Nads : Choose(stage, v)
    BY <1>4 DEF ConnectInternalSwitchToNED, SetUpMirrorPort, CreateIdsResources,
                FreeNetAttachDefs
  <2>3. work' = None \/ work'.at # "link"
    BY <2>1, <2>2 DEF Choose, GoOn, Done, Retry, Work
  <2> QED
    BY <2>3 DEF LinkClaimed, WorkingAt
<1>5. CASE LabelNetAttachDef
  <2>1. /\ work # None /\ work.at = "label" /\ work.nad \in Nads
        /\ work.net \in Networks /\ work \in Work
    BY <1>5, WorkType DEF LabelNetAttachDef, WorkingAt
  <2>2. Current(nad[work.nad], Worker) => nad[work.nad].obj[EdgeNode] = None
    BY <2>1, LifecycleAssumption DEF ClaimInv, ChosenFree
  <2>3. PICK o \in UpdateOutcomes(nad[work.nad], Worker,
                                  [nad[work.nad].obj EXCEPT ![EdgeNode] = work.net]) :
               /\ nad' = [nad EXCEPT ![work.nad] = Forgotten(o.after, Worker)]
               /\ IF o.ok THEN GoOn("link") ELSE Done
               /\ UNCHANGED evicted
    BY <1>5 DEF LabelNetAttachDef, historyVars
  <2>4. o.ok => nad'[work.nad].obj[EdgeNode] = work.net
    BY <2>1, <2>2, <2>3, WorkerLabels DEF Nodes
  <2>5. CASE o.ok
    <3>1. work'.net = work.net
      BY <2>1, <2>3, <2>5 DEF GoOn, Work
    <3> QED
      BY <2>1, <2>4, <2>5, <3>1 DEF LinkClaimed, HasEdgePort
  <2>6. CASE ~ o.ok
    BY <2>3, <2>6 DEF Done, LinkClaimed, WorkingAt
  <2> QED
    BY <2>5, <2>6
<1> QED
  BY <1>2, <1>3, <1>4, <1>5, WorkerMoves

LEMMA LinkedStep ==
  ASSUME TypeInv, TypeInv', ClaimInv, [Next]_vars
  PROVE  LinkedPortClaimed'
<1>1. LabelStep
  BY LabelsByAll DEF ClaimInv
<1>2. \A n \in linked' : n \in linked \/ (WorkingAt("link") /\ n = work.net)
  <2>1. CASE CreateNewNEDConnection
    BY <2>1 DEF CreateNewNEDConnection
  <2>2. CASE UNCHANGED linked
    BY <2>2
  <2>3. CASE WorkerStep
    BY <2>1, <2>2, <2>3
    DEF WorkerStep, CreateNetwork, UpdateControllerStatus, AddFinalizer,
      CheckNetworkExists, CreateAtProvider, UpdateProviderStatus,
      CreateIdsResources, DeleteNetwork, RemoveFinalizer, ConnectInternalSwitchToNED,
      SetUpMirrorPort, LabelNetAttachDef, LabelMirrorPort, sdnVars
  <2>4. CASE \/ Environment \/ UNCHANGED vars \/ Restart
             \/ \E n \in Networks : Ignore(n) \/ BeginCreation(n) \/ BeginDeletion(n)
    BY <2>4
    DEF Environment, CreateL2Network, DeleteL2Network, TouchNetwork, DeliverNetwork,
      HostForPeer, CollectSensor, DeliverNad, ClaimForPod, FreeForPod, Resync, vars, Restart,
      Ignore, BeginCreation, BeginDeletion, Start, sdnVars
  <2> QED
    BY <2>3, <2>4 DEF Next
<1>3. \A n \in linked' : n \in Networks /\ HasEdgePort(n)
  BY <1>2 DEF TypeInv, TypeOK, ClaimInv, LinkedPortClaimed, LinkClaimed
<1> QED
  BY <1>1, <1>3, PortsKept DEF LinkedPortClaimed

LEMMA ClaimInvAlways == Spec => []ClaimInv
<1>1. Init => ClaimInv
  BY DEF Init, ClaimInv, ChosenFree, LinkClaimed, LinkedPortClaimed, WorkingAt
<1>2. TypeInv /\ TypeInv' /\ ClaimInv /\ [Next]_vars => ClaimInv'
  BY ChosenFreeStep, LinkClaimedStep, LinkedStep DEF ClaimInv
<1> QED
  BY <1>1, <1>2, TypeInvAlways, PTL DEF Spec

(* Every network the edge device is attached to holds a port on the edge   *)
(* device's node, unless a pod that was given the same port has freed it:  *)
(* the worker never goes on with a port it lost to a pod.                  *)
THEOREM LinkedPortClaimedHolds == Spec => []LinkedPortClaimed
<1>1. ClaimInv => LinkedPortClaimed
  BY DEF ClaimInv
<1> QED
  BY <1>1, ClaimInvAlways, PTL

(* Who a port is labelled for, as PortClaims sees it.                      *)
Owner == [s \in Nads \X Nodes |-> nad[s[1]].obj[s[2]]]

LEMMA ClaimsStep ==
  ASSUME TypeInv, LabelStep
  PROVE  [Claimed!Next]_Owner
<1>1. CASE SameLabels
  BY <1>1 DEF SameLabels, Owner
<1>2. ASSUME NEW v \in Nads, NEW m \in Nodes, NEW p \in Owners \cup {None}, LabelsTo(v, m, p)
      PROVE  [Claimed!Next]_Owner
  <2>1. /\ nad[v].obj \in [Nodes -> Owners \cup {None}]
        /\ <<v, m>> \in Nads \X Nodes /\ Owner[<<v, m>>] = nad[v].obj[m]
    BY NadLabels DEF Labels, Owner
  <2>2. ASSUME NEW s \in Nads \X Nodes
        PROVE  nad'[s[1]].obj[s[2]] = [Owner EXCEPT ![<<v, m>>] = p][s]
    <3>1. PICK w \in Nads, k \in Nodes : s = <<w, k>>
      OBVIOUS
    <3>2. CASE w = v
      BY <1>2, <2>1, <3>1, <3>2 DEF Owner, LabelsTo
    <3>3. CASE w # v
      BY <1>2, <3>1, <3>3 DEF Owner, LabelsTo
    <3> QED
      BY <3>2, <3>3
  <2>3. Owner' = [Owner EXCEPT ![<<v, m>>] = p]
    BY <2>2 DEF Owner
  <2>4. CASE nad[v].obj[m] = None /\ p = None
    BY <2>1, <2>3, <2>4 DEF Owner
  <2>5. CASE nad[v].obj[m] = None /\ p \in Owners
    <3>1. Claimed!Acquire(<<v, m>>, p)
      BY <2>1, <2>3, <2>5 DEF Claimed!Acquire, Owner
    <3> QED
      BY <2>1, <2>5, <3>1 DEF Claimed!Next
  <2>6. CASE nad[v].obj[m] # None /\ p = None
    <3>1. Claimed!Free(<<v, m>>)
      BY <2>1, <2>3, <2>6 DEF Claimed!Free, Owner
    <3> QED
      BY <2>1, <3>1 DEF Claimed!Next
  <2> QED
    BY <1>2, <2>4, <2>5, <2>6 DEF LabelsTo
<1> QED
  BY <1>1, <1>2 DEF LabelStep

(* The labels implement PortClaims with networks among the owners: a       *)
(* network and a pod, or two networks, never hold the same port.           *)
THEOREM NetworkClaimsImplemented == Spec => ClaimSpec
<1>1. Init => Claimed!Init
  BY DEF Init, New, Claimed!Init
<1>2. TypeInv /\ ClaimInv /\ [Next]_vars => [Claimed!Next]_Owner
  BY LabelsByAll, ClaimsStep DEF ClaimInv
<1> QED
  BY <1>1, <1>2, TypeInvAlways, ClaimInvAlways, PTL
  DEF Spec, ClaimSpec, Claimed!Spec, Owner
=============================================================================
