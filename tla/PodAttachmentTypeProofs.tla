---------------------- MODULE PodAttachmentTypeProofs ----------------------
(***************************************************************************)
(* What PodAttachment guarantees for any number of pods, networks, nodes,  *)
(* attachments and faults.                                                 *)
(***************************************************************************)
EXTENDS PodAttachment, IPAMProofs, SequenceTheorems

USE DEF Cache, Worker, Current, UpToDate

-----------------------------------------------------------------------------
(* Objects: what each operation on one does.                               *)

LEMMA ForgottenType ==
  ASSUME NEW V, NEW s \in Stored(V), NEW h \in Holders
  PROVE  /\ Forgotten(s, h) \in Stored(V)
         /\ Forgotten(s, h).obj = s.obj
         /\ Forgotten(s, h).cache = s.cache
         /\ Forgotten(s, h).fresh = s.fresh \ {h}
         /\ UpToDate(s) => UpToDate(Forgotten(s, h))
BY DEF Forgotten, Stored

LEMMA CopiedType ==
  ASSUME NEW V, NEW s \in Stored(V), NEW h \in Holders
  PROVE  /\ Copied(s, h) \in Stored(V)
         /\ Copied(s, h).obj = s.obj
         /\ Copied(s, h).cache = s.cache
         /\ h \in Copied(s, h).fresh => Cache \in s.fresh
         /\ Copied(s, h).fresh \subseteq s.fresh \cup {h}
         /\ h # Cache /\ UpToDate(s) => UpToDate(Copied(s, h))
         /\ UpToDate(s) /\ h \in Copied(s, h).fresh => s.cache = s.obj
BY DEF Copied, Stored

LEMMA DeliveredType ==
  ASSUME NEW V, NEW s \in Stored(V)
  PROVE  /\ Delivered(s) \in Stored(V)
         /\ Delivered(s).obj = s.obj
         /\ Delivered(s).cache = s.obj
         /\ Delivered(s).fresh = s.fresh \cup {Cache}
BY DEF Delivered, Stored, Holders

LEMMA TouchedType ==
  ASSUME NEW V, NEW s \in Stored(V)
  PROVE  /\ Touched(s) \in Stored(V)
         /\ Touched(s).obj = s.obj
         /\ Touched(s).cache = s.cache
         /\ Touched(s).fresh = {}
BY DEF Touched, Stored

LEMMA NewType ==
  ASSUME NEW V, NEW v \in V
  PROVE  /\ New(v) \in Stored(V)
         /\ New(v).obj = v
         /\ New(v).cache = v
         /\ New(v).fresh = {Cache}
BY DEF New, Stored, Holders

LEMMA WriteType ==
  ASSUME NEW V, NEW s \in Stored(V), NEW v \in V
  PROVE  /\ Write(s, v) \in Stored(V)
         /\ Write(s, v).obj = v
         /\ Write(s, v).cache = s.cache
         /\ Write(s, v) = s \/ Write(s, v).fresh = {}
         /\ UpToDate(s) => UpToDate(Write(s, v))
BY DEF Write, Stored

(* An update either leaves the object alone, or was made from the latest   *)
(* copy, takes effect, and outdates every copy of what was there.          *)
LEMMA UpdateType ==
  ASSUME NEW V, NEW s \in Stored(V), NEW h \in Holders, NEW v \in V,
         NEW o \in UpdateOutcomes(s, h, v)
  PROVE  /\ o.after \in Stored(V)
         /\ o.after.cache = s.cache
         /\ o.after = s \/ (h \in s.fresh /\ o.after.obj = v /\ o.after.fresh = {})
         /\ UpToDate(s) => UpToDate(o.after)
         /\ o.ok \in BOOLEAN
         /\ o.ok => h \in s.fresh /\ o.after.obj = v
         /\ o.cost \in Nat
<1>1. /\ Write(s, v) \in Stored(V)
      /\ Write(s, v).obj = v
      /\ Write(s, v).cache = s.cache
      /\ Write(s, v) = s \/ Write(s, v).fresh = {}
  BY WriteType
<1>2. CASE h \notin s.fresh
  <2>1. o = [after |-> s, ok |-> FALSE, cost |-> 0]
    BY <1>2 DEF UpdateOutcomes, Current
  <2> QED BY <2>1
<1>3. CASE h \in s.fresh
  <2>1. o \in {[after |-> Write(s, v), ok |-> TRUE, cost |-> 0],
               [after |-> s, ok |-> FALSE, cost |-> 1],
               [after |-> Write(s, v), ok |-> FALSE, cost |-> 1]}
    BY <1>3 DEF UpdateOutcomes, Current
  <2>2. CASE o = [after |-> Write(s, v), ok |-> TRUE, cost |-> 0]
    BY <1>1, <1>3, <2>2
  <2>3. CASE o = [after |-> s, ok |-> FALSE, cost |-> 1]
    BY <2>3
  <2>4. CASE o = [after |-> Write(s, v), ok |-> FALSE, cost |-> 1]
    BY <1>1, <1>3, <2>4
  <2> QED BY <2>1, <2>2, <2>3, <2>4
<1> QED BY <1>2, <1>3

(* The same with the caller's copy forgotten.                              *)
LEMMA UpdateForgottenType ==
  ASSUME NEW V, NEW s \in Stored(V), NEW h \in Holders, NEW v \in V,
         NEW o \in UpdateOutcomes(s, h, v)
  PROVE  LET t == Forgotten(o.after, h)
         IN  /\ t \in Stored(V)
             /\ t.cache = s.cache
             /\ \/ t.obj = s.obj /\ t.fresh = s.fresh \ {h}
                \/ h \in s.fresh /\ t.obj = v /\ t.fresh = {}
             /\ h \notin t.fresh
             /\ UpToDate(s) => UpToDate(t)
             /\ o.ok \in BOOLEAN
             /\ o.ok => h \in s.fresh /\ t.obj = v
             /\ o.cost \in Nat
<1>1. /\ o.after \in Stored(V)
      /\ o.after.cache = s.cache
      /\ o.after = s \/ (h \in s.fresh /\ o.after.obj = v /\ o.after.fresh = {})
      /\ UpToDate(s) => UpToDate(o.after)
      /\ o.ok \in BOOLEAN
      /\ o.ok => h \in s.fresh /\ o.after.obj = v
      /\ o.cost \in Nat
  BY UpdateType
<1>2. /\ Forgotten(o.after, h) \in Stored(V)
      /\ Forgotten(o.after, h).obj = o.after.obj
      /\ Forgotten(o.after, h).cache = o.after.cache
      /\ Forgotten(o.after, h).fresh = o.after.fresh \ {h}
      /\ UpToDate(o.after) => UpToDate(Forgotten(o.after, h))
  BY <1>1, ForgottenType
<1> QED BY <1>1, <1>2

-----------------------------------------------------------------------------
(* The data.                                                               *)

LEMMA SlotsType ==
  ASSUME NEW p \in Pods
  PROVE  /\ Requested[p] \in Seq(Request)
         /\ Len(Requested[p]) \in Nat \ {0}
         /\ Slots(p) = 1 .. Len(Requested[p])
         /\ \A i \in Slots(p) : /\ Requested[p][i].net \in Networks
                                /\ Requested[p][i].ip \in Ips \cup {None}
<1>1. Requested[p] \in Seq(Request) /\ Requested[p] # <<>>
  BY ClusterAssumption, RequestAssumption
<1>2. Len(Requested[p]) \in Nat /\ Len(Requested[p]) # 0
  BY <1>1, EmptySeq, LenProperties
<1>3. Slots(p) = 1 .. Len(Requested[p])
  BY <1>1, LenProperties DEF Slots
<1>4. \A i \in Slots(p) : Requested[p][i] \in Request
  BY <1>1, <1>3, ElementOfSeq
<1> QED BY <1>1, <1>2, <1>3, <1>4 DEF Request

(* A function on an initial segment of the numbers is a sequence.          *)
LEMMA FunctionIsSequence ==
  ASSUME NEW S, NEW n \in Nat, NEW f \in [1 .. n -> S]
  PROVE  f \in Seq(S) /\ Len(f) = n
<1>1. f \in Seq(S)
  BY SeqDef
<1>2. DOMAIN f = 1 .. Len(f) /\ Len(f) \in Nat
  BY <1>1, LenProperties
<1> QED BY <1>1, <1>2

LEMMA AddressForType ==
  ASSUME TypeOK, NEW p \in Pods, NEW i \in Slots(p)
  PROVE  AddressFor(p, i) \in Answers \cup {None}
<1> DEFINE n == Requested[p][i].net
           status == net[n].cache
<1>1. n \in Networks /\ Requested[p][i].ip \in Ips \cup {None}
  BY SlotsType
<1>2. CASE IsDynamic(p, i) /\ Known(p, i)
  <2>1. i \in 1 .. i
    BY SlotsType
  <2>2. status # None
    BY <1>2, <2>1 DEF Known
  <2>3. status \in NetStatus
    BY <1>1, <2>2 DEF TypeOK, ClusterTypeOK, Stored
  <2>4. status.last \in Octets \cup {NoAddress}
    BY <2>3, WebhookAssumption DEF NetStatus
  <2>5. GetNextAvailableIP(status.last, {a \in Ips : status.assigned[a] # None}) \in Answers
    BY <2>4, AnswerIsFree
  <2> QED BY <1>2, <2>5 DEF AddressFor
<1>3. CASE ~ (IsDynamic(p, i) /\ Known(p, i))
  BY <1>1, <1>3, WebhookAssumption DEF AddressFor, Answers
<1> QED BY <1>2, <1>3

LEMMA StatusWithType ==
  ASSUME NEW status \in NetStatus, NEW p \in Pods, NEW i, NEW ip
  PROVE  StatusWith(status, p, i, ip) \in NetStatus
<1>1. Recordable(ip) \in Ips \cup {None}
  BY DEF Recordable
<1>2. [status.assigned EXCEPT ![Recordable(ip)] = p] \in [Ips \cup {None} -> Pods \cup {None}]
  BY <1>1 DEF NetStatus
<1> QED BY <1>1, <1>2 DEF StatusWith, NetStatus

-----------------------------------------------------------------------------
(* TypeInv, variable by variable.                                          *)

PodPart == /\ pod \in [Pods -> Stored(PodObject \cup {None})]
           /\ PodShape
           /\ \A p \in Pods : UpToDate(pod[p])

NadPart == /\ nad \in [Nads -> Stored(Claims)]
           /\ \A v \in Nads : UpToDate(nad[v])

NetPart == /\ net \in [Networks -> Stored(NetStatus \cup {None})]
           /\ \A n \in Networks : UpToDate(net[n])
           /\ HandlerSeesNetwork

HookPart == HookTypeOK /\ HandlerShape

WorkPart == ControllerTypeOK /\ WorkShape

RestPart == queue \subseteq Pods /\ faults \in Nat

CopyPart ==
  work # None /\ Current(pod[work.pod], Worker) => pod[work.pod].obj = work.copy

Parts == /\ PodPart /\ NadPart /\ NetPart
         /\ HookPart /\ WorkPart /\ RestPart /\ CopyPart

LEMMA TypeInvParts == TypeInv <=> Parts
BY DEF TypeInv, TypeOK, ClusterTypeOK, CopiesCurrent, Parts, PodPart, NadPart,
       NetPart, HookPart, WorkPart, RestPart, CopyPart

LEMMA TypeInvPartsPrime == TypeInv' <=> Parts'
BY DEF TypeInv, TypeOK, ClusterTypeOK, CopiesCurrent, Parts, PodPart, NadPart,
       NetPart, HookPart, WorkPart, RestPart, CopyPart

(* A part whose variables do not change stays.                             *)
LEMMA PartsStay ==
  /\ PodPart /\ UNCHANGED pod => PodPart'
  /\ NadPart /\ UNCHANGED nad => NadPart'
  /\ NetPart /\ UNCHANGED net => NetPart'
  /\ HookPart /\ UNCHANGED hook => HookPart'
  /\ WorkPart /\ UNCHANGED controllerVars => WorkPart'
  /\ RestPart /\ UNCHANGED <<queue, faults>> => RestPart'
  /\ CopyPart /\ UNCHANGED <<pod, work>> => CopyPart'
<1>1. PodPart /\ UNCHANGED pod => PodPart'
  BY DEF PodPart, PodShape, Exists
<1>2. NadPart /\ UNCHANGED nad => NadPart'
  BY DEF NadPart
<1>3. NetPart /\ UNCHANGED net => NetPart'
  BY DEF NetPart, HandlerSeesNetwork
<1>4. HookPart /\ UNCHANGED hook => HookPart'
  BY DEF HookPart, HookTypeOK, HandlerShape
<1>5. WorkPart /\ UNCHANGED controllerVars => WorkPart'
  BY DEF WorkPart, ControllerTypeOK, WorkShape, controllerVars
<1>6. RestPart /\ UNCHANGED <<queue, faults>> => RestPart'
  BY DEF RestPart
<1>7. CopyPart /\ UNCHANGED <<pod, work>> => CopyPart'
  BY DEF CopyPart
<1> QED BY <1>1, <1>2, <1>3, <1>4, <1>5, <1>6, <1>7

(* A pod object that keeps its shape, is not newly held by the worker, and *)
(* whose cached copy, if latest, is the object, disturbs no part.          *)
LEMMA PodPartStep ==
  ASSUME PodPart, NEW p \in Pods, NEW t \in Stored(PodObject \cup {None}),
         pod' = [pod EXCEPT ![p] = t],
         UpToDate(t),
         t.obj # None => Lists(p, t.obj.nads) \/ t.obj.nads = <<>>,
         t.cache = pod[p].cache \/ t.cache = pod[p].obj
  PROVE  PodPart'
BY DEF PodPart, PodShape, Exists

LEMMA CopyPartStep ==
  ASSUME PodPart, WorkPart, CopyPart, NEW p \in Pods,
         NEW t \in Stored(PodObject \cup {None}),
         pod' = [pod EXCEPT ![p] = t],
         Worker \in t.fresh => Worker \in pod[p].fresh /\ t.obj = pod[p].obj,
         UNCHANGED work
  PROVE  CopyPart'
BY DEF PodPart, CopyPart, WorkPart, ControllerTypeOK, Work

LEMMA NadPartStep ==
  ASSUME NadPart, NEW v \in Nads, NEW t \in Stored(Claims),
         nad' = [nad EXCEPT ![v] = t], UpToDate(t)
  PROVE  NadPart'
BY DEF NadPart

LEMMA NetPartStep ==
  ASSUME NetPart, NEW n \in Networks, NEW t \in Stored(NetStatus \cup {None}),
         net' = [net EXCEPT ![n] = t], UpToDate(t),
         \A p \in Pods : p \in t.fresh => t.obj # None
  PROVE  NetPart'
BY DEF NetPart, HandlerSeesNetwork

-----------------------------------------------------------------------------
(* Users, the API server and the watches.                                  *)

LEMMA CreateNetworkType ==
  ASSUME Parts, NEW n \in Networks, CreateNetwork(n), UNCHANGED <<hook, controllerVars>>
  PROVE  Parts'
<1> DEFINE t == Write(net[n], NewStatus)
<1>1. NewStatus \in NetStatus
  BY DEF NewStatus, NetStatus
<1>2. net[n] \in Stored(NetStatus \cup {None}) /\ UpToDate(net[n])
  BY DEF Parts, NetPart
<1>3. /\ t \in Stored(NetStatus \cup {None})
      /\ t.obj = NewStatus /\ UpToDate(t)
      /\ net' = [net EXCEPT ![n] = t]
  BY <1>1, <1>2, WriteType DEF CreateNetwork
<1>4. t.obj # None
  BY <1>1, <1>3, ObjectAssumption
<1>5. NetPart'
  BY <1>3, <1>4, NetPartStep DEF Parts
<1> QED BY <1>5, PartsStay DEF Parts, CreateNetwork, controllerVars

LEMMA TouchNetworkType ==
  ASSUME Parts, NEW n \in Networks, TouchNetwork(n), UNCHANGED <<hook, controllerVars>>
  PROVE  Parts'
<1> DEFINE t == Touched(net[n])
<1>1. net[n] \in Stored(NetStatus \cup {None})
  BY DEF Parts, NetPart
<1>2. /\ t \in Stored(NetStatus \cup {None})
      /\ t.fresh = {}
      /\ net' = [net EXCEPT ![n] = t]
  BY <1>1, TouchedType DEF TouchNetwork
<1>3. NetPart'
  BY <1>2, NetPartStep DEF Parts
<1>4. RestPart'
  BY DEF Parts, RestPart, TouchNetwork, Fault
<1> QED BY <1>3, <1>4, PartsStay DEF Parts, TouchNetwork, controllerVars

LEMMA DeliverNetworkType ==
  ASSUME Parts, NEW n \in Networks, DeliverNetwork(n), UNCHANGED <<hook, controllerVars>>
  PROVE  Parts'
<1> DEFINE t == Delivered(net[n])
<1>1. net[n] \in Stored(NetStatus \cup {None})
  BY DEF Parts, NetPart
<1>2. /\ t \in Stored(NetStatus \cup {None})
      /\ t.obj = net[n].obj /\ t.cache = net[n].obj
      /\ t.fresh = net[n].fresh \cup {Cache}
      /\ net' = [net EXCEPT ![n] = t]
  BY <1>1, DeliveredType DEF DeliverNetwork
<1>3. \A p \in Pods : p \in t.fresh => t.obj # None
  BY <1>2, HolderAssumption DEF Parts, NetPart, HandlerSeesNetwork
<1>4. NetPart'
  BY <1>2, <1>3, NetPartStep DEF Parts
<1> QED BY <1>4, PartsStay DEF Parts, DeliverNetwork, controllerVars

LEMMA DeliverNadType ==
  ASSUME Parts, NEW v \in Nads, DeliverNad(v), UNCHANGED <<hook, controllerVars>>
  PROVE  Parts'
<1> DEFINE t == Delivered(nad[v])
<1>1. nad[v] \in Stored(Claims)
  BY DEF Parts, NadPart
<1>2. t \in Stored(Claims) /\ UpToDate(t) /\ nad' = [nad EXCEPT ![v] = t]
  BY <1>1, DeliveredType DEF DeliverNad
<1>3. NadPart'
  BY <1>2, NadPartStep DEF Parts
<1> QED BY <1>3, PartsStay DEF Parts, DeliverNad, controllerVars

(* The steps that change one pod object and nothing the worker holds.      *)
LEMMA PodStepType ==
  ASSUME Parts, NEW p \in Pods, NEW t \in Stored(PodObject \cup {None}),
         pod' = [pod EXCEPT ![p] = t],
         UpToDate(t),
         t.obj # None => Lists(p, t.obj.nads) \/ t.obj.nads = <<>>,
         t.cache = pod[p].cache \/ t.cache = pod[p].obj,
         Worker \in t.fresh => Worker \in pod[p].fresh /\ t.obj = pod[p].obj,
         RestPart', UNCHANGED <<nad, net, hook, controllerVars>>
  PROVE  Parts'
<1>1. PodPart' /\ CopyPart'
  BY PodPartStep, CopyPartStep DEF Parts, controllerVars
<1> QED BY <1>1, PartsStay DEF Parts

LEMMA PodObjectType ==
  ASSUME Parts, NEW p \in Pods, pod[p].obj # None
  PROVE  /\ pod[p].obj \in PodObject
         /\ Lists(p, pod[p].obj.nads) \/ pod[p].obj.nads = <<>>
BY DEF Parts, PodPart, PodShape, Exists, Stored

LEMMA DeletePodType ==
  ASSUME Parts, NEW p \in Pods, DeletePod(p), UNCHANGED <<hook, controllerVars>>
  PROVE  Parts'
<1> DEFINE new == [pod[p].obj EXCEPT !.del = TRUE]
           t == Write(pod[p], new)
<1>1. pod[p] \in Stored(PodObject \cup {None}) /\ UpToDate(pod[p])
  BY DEF Parts, PodPart
<1>2. /\ pod[p].obj \in PodObject
      /\ Lists(p, pod[p].obj.nads) \/ pod[p].obj.nads = <<>>
  BY PodObjectType DEF DeletePod
<1>3. new \in PodObject \cup {None} /\ new.nads = pod[p].obj.nads
  BY <1>2 DEF PodObject
<1>4. pod' = [pod EXCEPT ![p] = t] /\ RestPart'
  BY PartsStay DEF DeletePod, Parts
<1> HIDE DEF new
<1>5. /\ t \in Stored(PodObject \cup {None})
      /\ t.obj = new /\ t.cache = pod[p].cache
      /\ t = pod[p] \/ t.fresh = {}
      /\ UpToDate(t)
  BY <1>1, <1>3, WriteType
<1> QED BY <1>2, <1>3, <1>4, <1>5, PodStepType DEF DeletePod

LEMMA RemovePodType ==
  ASSUME Parts, NEW p \in Pods, RemovePod(p), UNCHANGED <<hook, controllerVars>>
  PROVE  Parts'
<1> DEFINE t == Write(pod[p], None)
<1>1. pod[p] \in Stored(PodObject \cup {None}) /\ UpToDate(pod[p])
  BY DEF Parts, PodPart
<1>2. /\ t \in Stored(PodObject \cup {None})
      /\ t.obj = None /\ t.cache = pod[p].cache
      /\ t = pod[p] \/ t.fresh = {}
      /\ UpToDate(t)
      /\ pod' = [pod EXCEPT ![p] = t]
  BY <1>1, WriteType DEF RemovePod
<1>3. RestPart'
  BY PartsStay DEF RemovePod, Parts
<1> QED BY <1>2, <1>3, PodStepType DEF RemovePod

LEMMA TouchPodType ==
  ASSUME Parts, NEW p \in Pods, TouchPod(p), UNCHANGED <<hook, controllerVars>>
  PROVE  Parts'
<1> DEFINE t == Touched(pod[p])
<1>1. pod[p] \in Stored(PodObject \cup {None})
  BY DEF Parts, PodPart
<1>2. /\ t \in Stored(PodObject \cup {None})
      /\ t.obj = pod[p].obj /\ t.cache = pod[p].cache /\ t.fresh = {}
      /\ pod' = [pod EXCEPT ![p] = t]
  BY <1>1, TouchedType DEF TouchPod
<1>3. Lists(p, pod[p].obj.nads) \/ pod[p].obj.nads = <<>>
  BY PodObjectType DEF TouchPod
<1>4. RestPart'
  BY DEF Parts, RestPart, TouchPod, Fault
<1> QED BY <1>2, <1>3, <1>4, PodStepType DEF TouchPod

LEMMA DeliverPodType ==
  ASSUME Parts, NEW p \in Pods, DeliverPod(p), UNCHANGED <<hook, controllerVars>>
  PROVE  Parts'
<1> DEFINE t == Delivered(pod[p])
<1>1. pod[p] \in Stored(PodObject \cup {None})
  BY DEF Parts, PodPart
<1>2. /\ t \in Stored(PodObject \cup {None})
      /\ t.obj = pod[p].obj /\ t.cache = pod[p].obj
      /\ t.fresh = pod[p].fresh \cup {Cache}
  BY <1>1, DeliveredType
<1>3. RestPart' /\ pod' = [pod EXCEPT ![p] = t]
  BY DEF Parts, RestPart, DeliverPod
<1>4. Worker \in t.fresh => Worker \in pod[p].fresh
  BY <1>2
<1>5. t.obj # None => Lists(p, t.obj.nads) \/ t.obj.nads = <<>>
  BY <1>2, PodObjectType
<1> QED BY <1>2, <1>3, <1>4, <1>5, PodStepType DEF DeliverPod

LEMMA ResyncType ==
  ASSUME Parts, Resync, UNCHANGED <<hook, controllerVars>>
  PROVE  Parts'
<1>1. RestPart'
  BY DEF Parts, RestPart, Resync
<1> QED BY <1>1, PartsStay DEF Parts, Resync, controllerVars

LEMMA EnvironmentType ==
  ASSUME Parts, Environment, UNCHANGED <<hook, controllerVars>>
  PROVE  Parts'
BY CreateNetworkType, TouchNetworkType, DeliverNetworkType, DeliverNadType,
   DeletePodType, RemovePodType, TouchPodType, DeliverPodType, ResyncType
   DEF Environment

-----------------------------------------------------------------------------
(* The webhook.                                                            *)

LEMMA HookPartStep ==
  ASSUME HookPart, NEW p \in Pods, NEW h \in Handler, WellFormed(p, h),
         hook' = [hook EXCEPT ![p] = h]
  PROVE  HookPart'
BY DEF HookPart, HookTypeOK, HandlerShape

LEMMA HandlerType ==
  ASSUME HookPart, NEW p \in Pods
  PROVE  hook[p] \in Handler /\ WellFormed(p, hook[p])
BY DEF HookPart, HookTypeOK, HandlerShape

LEMMA NoHandlerType ==
  ASSUME NEW p \in Pods
  PROVE  /\ NoHandler("done") \in Handler /\ WellFormed(p, NoHandler("done"))
         /\ NoHandler("idle") \in Handler /\ WellFormed(p, NoHandler("idle"))
         /\ \A m \in Nodes : LET h == [NoHandler("reply") EXCEPT !.node = m]
                             IN  h \in Handler /\ WellFormed(p, h)
<1>1. <<>> \in Seq(Nads) /\ <<>> \in Seq(Answers \cup {None})
  BY EmptySeq
<1> QED BY <1>1 DEF NoHandler, Handler, Stages, WellFormed

LEMMA PodIsHolder ==
  ASSUME NEW p \in Pods
  PROVE  p \in Holders /\ p # Cache /\ p # Worker
BY HolderAssumption DEF Holders

LEMMA AdmitType ==
  ASSUME Parts, NEW p \in Pods, NEW m \in Nodes, NEW nads \in [Slots(p) -> Nads],
         Admit(p, m, nads), UNCHANGED controllerVars
  PROVE  Parts'
<1> USE PodIsHolder
<1>1. HookPart'
  <2> DEFINE ips == [i \in Slots(p) |-> AddressFor(p, i)]
             h == [at |-> "claim", node |-> m, nads |-> nads, ips |-> ips, next |-> 1]
  <2>1. TypeOK
    BY TypeInvParts DEF TypeInv
  <2>2. ips \in [Slots(p) -> Answers \cup {None}]
    BY <2>1, AddressForType
  <2>3. Len(Requested[p]) \in Nat \ {0} /\ Slots(p) = 1 .. Len(Requested[p])
    BY SlotsType
  <2>4. ips \in Seq(Answers \cup {None}) /\ nads \in Seq(Nads)
    BY <2>2, <2>3, FunctionIsSequence
  <2> HIDE DEF ips
  <2>5. h \in Handler /\ WellFormed(p, h)
    BY <2>2, <2>3, <2>4 DEF Handler, Stages, WellFormed, Lists
  <2>6. hook' = [hook EXCEPT ![p] = h]
    BY DEF Admit, ips
  <2> QED BY <2>5, <2>6, HookPartStep DEF Parts
<1>2. NadPart'
  <2>1. nad' = [v \in Nads |-> IF \E i \in Slots(p) : nads[i] = v
                               THEN Copied(nad[v], p) ELSE nad[v]]
    BY DEF Admit
  <2>2. ASSUME NEW v \in Nads
        PROVE  nad'[v] \in Stored(Claims) /\ UpToDate(nad'[v])
    <3>1. nad[v] \in Stored(Claims) /\ UpToDate(nad[v])
      BY DEF Parts, NadPart
    <3>2. Copied(nad[v], p) \in Stored(Claims) /\ UpToDate(Copied(nad[v], p))
      BY <3>1, CopiedType
    <3> QED BY <2>1, <3>1, <3>2
  <2> QED BY <2>1, <2>2 DEF NadPart
<1>3. NetPart'
  <2>1. net' = [n \in Networks |->
                  IF \E i \in Slots(p) : Requested[p][i].net = n /\ Known(p, i)
                  THEN Copied(net[n], p) ELSE net[n]]
    BY DEF Admit
  <2>2. ASSUME NEW n \in Networks
        PROVE  /\ net'[n] \in Stored(NetStatus \cup {None}) /\ UpToDate(net'[n])
               /\ \A q \in Pods : q \in net'[n].fresh => net'[n].obj # None
    <3>1. /\ net[n] \in Stored(NetStatus \cup {None}) /\ UpToDate(net[n])
          /\ \A q \in Pods : q \in net[n].fresh => net[n].obj # None
      BY DEF Parts, NetPart, HandlerSeesNetwork
    <3>2. CASE \E i \in Slots(p) : Requested[p][i].net = n /\ Known(p, i)
      <4>1. net'[n] = Copied(net[n], p)
        BY <2>1, <3>2
      <4>2. net[n].cache # None
        <5>1. PICK i \in Slots(p) : Requested[p][i].net = n /\ Known(p, i)
          BY <3>2
        <5>2. i \in 1 .. i
          BY SlotsType
        <5> QED BY <5>1, <5>2 DEF Known
      <4>3. /\ Copied(net[n], p) \in Stored(NetStatus \cup {None})
            /\ UpToDate(Copied(net[n], p))
            /\ Copied(net[n], p).obj = net[n].obj
            /\ p \in Copied(net[n], p).fresh => net[n].cache = net[n].obj
            /\ Copied(net[n], p).fresh \subseteq net[n].fresh \cup {p}
        BY <3>1, CopiedType
      <4> QED BY <3>1, <4>1, <4>2, <4>3
    <3>3. CASE ~ \E i \in Slots(p) : Requested[p][i].net = n /\ Known(p, i)
      BY <2>1, <3>1, <3>3
    <3> QED BY <3>2, <3>3
  <2> QED BY <2>1, <2>2 DEF NetPart, HandlerSeesNetwork
<1> QED BY <1>1, <1>2, <1>3, PartsStay DEF Parts, Admit, controllerVars

LEMMA AdmitErroredType ==
  ASSUME Parts, NEW p \in Pods, NEW m \in Nodes,
         AdmitErrored(p, m), UNCHANGED controllerVars
  PROVE  Parts'
<1>1. HookPart'
  BY NoHandlerType, HookPartStep DEF Parts, AdmitErrored
<1> QED BY <1>1, PartsStay DEF Parts, AdmitErrored, controllerVars

(* What a handler in the middle of its work points at.                     *)
LEMMA HandlerAt ==
  ASSUME HookPart, NEW p \in Pods, hook[p].at \in {"claim", "record"}
  PROVE  /\ hook[p].node \in Nodes
         /\ hook[p].next \in Slots(p)
         /\ hook[p].nads[hook[p].next] \in Nads
         /\ Requested[p][hook[p].next].net \in Networks
<1>1. WellFormed(p, hook[p])
  BY HandlerType
<1> QED BY <1>1, SlotsType DEF WellFormed, Lists

LEMMA ClaimNetAttachDefType ==
  ASSUME Parts, NEW p \in Pods, ClaimNetAttachDef(p), UNCHANGED controllerVars
  PROVE  Parts'
<1> DEFINE v == hook[p].nads[hook[p].next]
           claimed == [nad[v].obj EXCEPT ![hook[p].node] = p]
<1> USE PodIsHolder
<1>1. v \in Nads /\ hook[p].node \in Nodes
  BY HandlerAt DEF Parts, ClaimNetAttachDef
<1>2. nad[v] \in Stored(Claims) /\ UpToDate(nad[v])
  BY <1>1 DEF Parts, NadPart
<1>3. claimed \in Claims
  BY <1>1, <1>2 DEF Stored, Claims
<1>4. PICK o \in UpdateOutcomes(nad[v], p, claimed) :
             nad' = [nad EXCEPT ![v] = Forgotten(o.after, p)] /\ faults' = faults + o.cost
  BY DEF ClaimNetAttachDef
<1> HIDE DEF claimed, v
<1>5. /\ Forgotten(o.after, p) \in Stored(Claims) /\ UpToDate(Forgotten(o.after, p))
      /\ o.cost \in Nat
  BY <1>2, <1>3, UpdateForgottenType
<1>6. NadPart'
  BY <1>1, <1>4, <1>5, NadPartStep DEF Parts
<1>7. HookPart'
  <2>1. hook' = [hook EXCEPT ![p] = [hook[p] EXCEPT !.at = "record"]]
    BY DEF ClaimNetAttachDef
  <2>2. hook[p] \in Handler /\ WellFormed(p, hook[p]) /\ hook[p].at = "claim"
    BY HandlerType DEF Parts, ClaimNetAttachDef
  <2>3. [hook[p] EXCEPT !.at = "record"] \in Handler
    BY <2>2 DEF Handler, Stages
  <2>4. WellFormed(p, [hook[p] EXCEPT !.at = "record"])
    BY <2>2 DEF Handler, WellFormed
  <2> QED BY <2>1, <2>3, <2>4, HookPartStep DEF Parts
<1>8. RestPart'
  BY <1>4, <1>5 DEF Parts, RestPart, ClaimNetAttachDef
<1> QED BY <1>6, <1>7, <1>8, PartsStay DEF Parts, ClaimNetAttachDef, controllerVars

LEMMA RecordInNetworkType ==
  ASSUME Parts, NEW p \in Pods, RecordInNetwork(p), UNCHANGED controllerVars
  PROVE  Parts'
<1> DEFINE i == hook[p].next
           n == Requested[p][i].net
           written == IF Current(net[n], p)
                      THEN StatusWith(net[n].obj, p, i, hook[p].ips[i]) ELSE net[n].obj
           last == i = Len(Requested[p])
<1> USE PodIsHolder
<1>1. n \in Networks /\ i \in Slots(p)
  BY HandlerAt DEF Parts, RecordInNetwork
<1>2. /\ net[n] \in Stored(NetStatus \cup {None}) /\ UpToDate(net[n])
      /\ \A q \in Pods : q \in net[n].fresh => net[n].obj # None
  BY <1>1 DEF Parts, NetPart, HandlerSeesNetwork
<1>3. written \in NetStatus \cup {None} /\ (p \in net[n].fresh => written # None)
  <2>1. CASE p \in net[n].fresh
    <3>1. net[n].obj \in NetStatus
      BY <1>2, <2>1 DEF Stored
    <3>2. StatusWith(net[n].obj, p, i, hook[p].ips[i]) \in NetStatus
      BY <3>1, StatusWithType
    <3> QED BY <2>1, <3>2, ObjectAssumption
  <2>2. CASE p \notin net[n].fresh
    BY <1>2, <2>2 DEF Stored
  <2> QED BY <2>1, <2>2
<1>4. PICK o \in UpdateOutcomes(net[n], p, written) :
             net' = [net EXCEPT ![n] = Forgotten(o.after, p)] /\ faults' = faults + o.cost
  BY DEF RecordInNetwork
<1> HIDE DEF written, n, i
<1>5. /\ Forgotten(o.after, p) \in Stored(NetStatus \cup {None})
      /\ UpToDate(Forgotten(o.after, p))
      /\ \/ /\ Forgotten(o.after, p).obj = net[n].obj
            /\ Forgotten(o.after, p).fresh = net[n].fresh \ {p}
         \/ Forgotten(o.after, p).fresh = {}
      /\ o.cost \in Nat
  BY <1>2, <1>3, UpdateForgottenType
<1>6. NetPart'
  BY <1>1, <1>2, <1>4, <1>5, NetPartStep DEF Parts
<1>7. HookPart'
  <2> DEFINE h == [[hook[p] EXCEPT !.at = IF last THEN "reply" ELSE "claim"]
                     EXCEPT !.next = IF last THEN i ELSE i + 1]
  <2>1. hook' = [hook EXCEPT ![p] = h]
    BY DEF RecordInNetwork, i, HookPart, Parts, HookTypeOK, Handler
  <2>2. hook[p] \in Handler /\ WellFormed(p, hook[p]) /\ hook[p].at = "record"
    BY HandlerType DEF Parts, RecordInNetwork
  <2>3. Len(Requested[p]) \in Nat \ {0} /\ Slots(p) = 1 .. Len(Requested[p])
    BY SlotsType
  <2>4. CASE last
    <3>1. h = [[hook[p] EXCEPT !.at = "reply"] EXCEPT !.next = i]
      BY <2>4
    <3>2. h \in Handler
      BY <1>1, <2>2, <2>3, <3>1 DEF Handler, Stages
    <3>3. h.at = "reply" /\ h.node = hook[p].node /\ h.nads = hook[p].nads
      BY <2>2, <3>1 DEF Handler
    <3>4. WellFormed(p, h)
      BY <2>2, <3>3 DEF WellFormed
    <3> QED BY <2>1, <3>2, <3>4, HookPartStep DEF Parts
  <2>5. CASE ~ last
    <3>1. h = [[hook[p] EXCEPT !.at = "claim"] EXCEPT !.next = i + 1]
      BY <2>5
    <3>2. i + 1 \in Slots(p) /\ i + 1 \in Nat
      BY <1>1, <2>3, <2>5
    <3>3. h \in Handler
      BY <2>2, <3>1, <3>2 DEF Handler, Stages
    <3>4. /\ h.at = "claim" /\ h.next = i + 1 /\ h.node = hook[p].node
          /\ h.nads = hook[p].nads /\ h.ips = hook[p].ips
      BY <2>2, <3>1 DEF Handler
    <3>5. WellFormed(p, h)
      BY <2>2, <3>2, <3>4 DEF WellFormed
    <3> QED BY <2>1, <3>3, <3>5, HookPartStep DEF Parts
  <2> QED BY <2>4, <2>5
<1>8. RestPart'
  BY <1>4, <1>5 DEF Parts, RestPart, RecordInNetwork
<1> QED BY <1>6, <1>7, <1>8, PartsStay DEF Parts, RecordInNetwork, controllerVars

(* The pod the webhook returned.                                           *)
Created(p) ==
  [node |-> hook[p].node, nads |-> hook[p].nads,
   ips |-> [i \in DOMAIN hook[p].ips |-> Recordable(hook[p].ips[i])],
   fin |-> FALSE, del |-> FALSE]

LEMMA CreatedType ==
  ASSUME HookPart, NEW p \in Pods, hook[p].at = "reply"
  PROVE  /\ Created(p) \in PodObject
         /\ Lists(p, Created(p).nads) \/ Created(p).nads = <<>>
<1> DEFINE ips == [i \in DOMAIN hook[p].ips |-> Recordable(hook[p].ips[i])]
<1>1. hook[p] \in Handler /\ WellFormed(p, hook[p])
  BY HandlerType
<1>2. hook[p].ips \in Seq(Answers \cup {None})
  BY <1>1 DEF Handler
<1>3. Len(hook[p].ips) \in Nat /\ DOMAIN hook[p].ips = 1 .. Len(hook[p].ips)
  BY <1>2, LenProperties
<1>4. ips \in [1 .. Len(hook[p].ips) -> Ips \cup {None}]
  BY <1>3 DEF Recordable
<1> HIDE DEF ips
<1>5. ips \in Seq(Ips \cup {None})
  BY <1>3, <1>4, FunctionIsSequence
<1>6. Created(p) = [node |-> hook[p].node, nads |-> hook[p].nads, ips |-> ips,
                    fin |-> FALSE, del |-> FALSE]
  BY DEF Created, ips
<1> QED BY <1>1, <1>5, <1>6 DEF Handler, WellFormed, PodObject

LEMMA PersistPodType ==
  ASSUME Parts, NEW p \in Pods, PersistPod(p), UNCHANGED controllerVars
  PROVE  Parts'
<1> DEFINE t == Write(pod[p], Created(p))
<1>1. pod[p] \in Stored(PodObject \cup {None}) /\ UpToDate(pod[p])
  BY DEF Parts, PodPart
<1>2. /\ Created(p) \in PodObject \cup {None}
      /\ Lists(p, Created(p).nads) \/ Created(p).nads = <<>>
  BY CreatedType DEF Parts, PersistPod
<1>3. /\ t \in Stored(PodObject \cup {None})
      /\ t.obj = Created(p) /\ t.cache = pod[p].cache
      /\ t = pod[p] \/ t.fresh = {}
      /\ UpToDate(t)
  BY <1>1, <1>2, WriteType
<1>4. pod' = [pod EXCEPT ![p] = t] /\ hook' = [hook EXCEPT ![p] = NoHandler("done")]
  BY DEF PersistPod, Created
<1> HIDE DEF t
<1>5. PodPart'
  BY <1>2, <1>3, <1>4, PodPartStep DEF Parts
<1>6. CopyPart'
  BY <1>3, <1>4, CopyPartStep DEF Parts, controllerVars
<1>7. HookPart'
  BY <1>4, NoHandlerType, HookPartStep DEF Parts
<1> QED BY <1>5, <1>6, <1>7, PartsStay DEF Parts, PersistPod, controllerVars

LEMMA RefusePodType ==
  ASSUME Parts, NEW p \in Pods, RefusePod(p), UNCHANGED controllerVars
  PROVE  Parts'
<1> USE PodIsHolder
<1>1. HookPart'
  BY NoHandlerType, HookPartStep DEF Parts, RefusePod
<1>2. NadPart'
  <2>1. ASSUME NEW v \in Nads
        PROVE  nad'[v] \in Stored(Claims) /\ UpToDate(nad'[v])
    <3>1. nad[v] \in Stored(Claims) /\ UpToDate(nad[v])
      BY DEF Parts, NadPart
    <3>2. nad'[v] = Forgotten(nad[v], p)
      BY DEF RefusePod
    <3> QED BY <3>1, <3>2, ForgottenType
  <2> QED BY <2>1 DEF NadPart, RefusePod
<1>3. NetPart'
  <2>1. ASSUME NEW n \in Networks
        PROVE  /\ net'[n] \in Stored(NetStatus \cup {None}) /\ UpToDate(net'[n])
               /\ \A q \in Pods : q \in net'[n].fresh => net'[n].obj # None
    <3>1. /\ net[n] \in Stored(NetStatus \cup {None}) /\ UpToDate(net[n])
          /\ \A q \in Pods : q \in net[n].fresh => net[n].obj # None
      BY DEF Parts, NetPart, HandlerSeesNetwork
    <3>2. net'[n] = Forgotten(net[n], p)
      BY DEF RefusePod
    <3>3. /\ Forgotten(net[n], p) \in Stored(NetStatus \cup {None})
          /\ UpToDate(Forgotten(net[n], p))
          /\ Forgotten(net[n], p).obj = net[n].obj
          /\ Forgotten(net[n], p).fresh \subseteq net[n].fresh
      BY <3>1, ForgottenType
    <3> QED BY <3>1, <3>2, <3>3
  <2> QED BY <2>1 DEF NetPart, HandlerSeesNetwork, RefusePod
<1>4. RestPart'
  BY DEF Parts, RestPart, RefusePod, Fault
<1> QED BY <1>1, <1>2, <1>3, <1>4, PartsStay DEF Parts, RefusePod, controllerVars

LEMMA WebhookType ==
  ASSUME Parts, Webhook, UNCHANGED controllerVars
  PROVE  Parts'
BY AdmitType, AdmitErroredType, ClaimNetAttachDefType, RecordInNetworkType,
   PersistPodType, RefusePodType DEF Webhook

-----------------------------------------------------------------------------
(* The controller.                                                         *)

(* A well-formed value of work.                                            *)
WellWorked(w) ==
  /\ w \in Work \cup {None}
  /\ w # None => Lists(w.pod, w.copy.nads) /\ w.next \in Slots(w.pod)

LEMMA WorkPartStep ==
  ASSUME NEW w, WellWorked(w), work' = w,
         attached' \subseteq Ports, lost' \subseteq Ports,
         dns' \subseteq Networks \X Pods
  PROVE  WorkPart'
BY DEF WellWorked, WorkPart, ControllerTypeOK, WorkShape

(* What the worker points at.                                              *)
LEMMA WorkType ==
  ASSUME WorkPart, work # None
  PROVE  /\ work \in Work /\ WellWorked(work)
         /\ work.pod \in Pods /\ work.copy \in PodObject
         /\ work.next \in Slots(work.pod)
         /\ Lists(work.pod, work.copy.nads)
         /\ work.copy.node \in Nodes
         /\ \A i \in Slots(work.pod) : /\ work.copy.nads[i] \in Nads
                                       /\ PortOf(work.pod, work.copy, i) \in Ports
<1>1. /\ work \in Work /\ work.next \in Slots(work.pod)
      /\ Lists(work.pod, work.copy.nads)
  BY DEF WorkPart, ControllerTypeOK, WorkShape
<1>2. work.pod \in Pods /\ work.copy \in PodObject
  BY <1>1 DEF Work
<1>3. work.copy.node \in Nodes /\ \A i \in Slots(work.pod) : work.copy.nads[i] \in Nads
  BY <1>1, <1>2 DEF PodObject, Lists
<1>4. \A i \in Slots(work.pod) : Requested[work.pod][i].net \in Networks
  BY <1>2, SlotsType
<1>5. \A i \in Slots(work.pod) : PortOf(work.pod, work.copy, i) \in Ports
  BY <1>3, <1>4 DEF PortOf, Ports
<1> QED BY <1>1, <1>2, <1>3, <1>5 DEF WellWorked

LEMMA IgnoreType ==
  ASSUME Parts, NEW p \in Pods, Ignore(p), UNCHANGED hook
  PROVE  Parts'
<1>1. RestPart'
  BY DEF Parts, RestPart, Ignore
<1> QED BY <1>1, PartsStay DEF Parts, Ignore, controllerVars

LEMMA StartType ==
  ASSUME Parts, NEW p \in Pods, NEW stage \in {"finalize", "detach"},
         pod[p].cache # None, HasMultus(pod[p].cache), Start(p, stage), UNCHANGED hook
  PROVE  Parts'
<1> DEFINE t == Copied(pod[p], Worker)
           w == [at |-> stage, pod |-> p, copy |-> pod[p].cache, next |-> 1]
<1>1. /\ pod[p] \in Stored(PodObject \cup {None}) /\ UpToDate(pod[p])
      /\ Lists(p, pod[p].cache.nads)
  BY DEF Parts, PodPart, PodShape, HasMultus
<1>2. pod[p].cache \in PodObject
  BY <1>1 DEF Stored
<1>3. 1 \in Slots(p)
  BY SlotsType
<1>4. WellWorked(w)
  BY <1>1, <1>2, <1>3 DEF WellWorked, Work
<1>5. /\ t \in Stored(PodObject \cup {None}) /\ UpToDate(t)
      /\ t.obj = pod[p].obj /\ t.cache = pod[p].cache
      /\ Worker \in t.fresh => pod[p].cache = pod[p].obj
  BY <1>1, CopiedType DEF Holders
<1>6. work' = w /\ pod' = [pod EXCEPT ![p] = t]
  BY DEF Start
<1>7. t.obj # None => Lists(p, t.obj.nads) \/ t.obj.nads = <<>>
  BY <1>5, PodObjectType
<1> HIDE DEF t, w
<1>8. PodPart'
  BY <1>5, <1>6, <1>7, PodPartStep DEF Parts
<1>9. WorkPart'
  BY <1>4, <1>6, WorkPartStep DEF Parts, WorkPart, ControllerTypeOK, Start
<1>10. CopyPart'
  BY <1>5, <1>6 DEF CopyPart, w, Parts, PodPart
<1>11. RestPart'
  BY DEF Parts, RestPart, Start
<1> QED BY <1>8, <1>9, <1>10, <1>11, PartsStay DEF Parts, Start

LEMMA AddFinalizerType ==
  ASSUME Parts, AddFinalizer, UNCHANGED hook
  PROVE  Parts'
<1> DEFINE p == work.pod
           new == [work.copy EXCEPT !.fin = TRUE]
<1>1. /\ work # None /\ work \in Work /\ WellWorked(work)
      /\ p \in Pods /\ work.copy \in PodObject /\ Lists(p, work.copy.nads)
  BY WorkType DEF Parts, AddFinalizer, WorkingAt
<1>2. new \in PodObject \cup {None} /\ new.nads = work.copy.nads
  BY <1>1 DEF PodObject
<1>3. pod[p] \in Stored(PodObject \cup {None}) /\ UpToDate(pod[p])
  BY <1>1 DEF Parts, PodPart
<1>4. PICK o \in UpdateOutcomes(pod[p], Worker, new) :
        /\ pod' = [pod EXCEPT ![p] = Forgotten(o.after, Worker)]
        /\ faults' = faults + o.cost
        /\ \/ work' = [work EXCEPT !.at = "attach"] /\ UNCHANGED queue
           \/ work' = None /\ queue' = queue \cup {p}
  BY DEF AddFinalizer
<1> DEFINE t == Forgotten(o.after, Worker)
<1> HIDE DEF new
<1>5. /\ t \in Stored(PodObject \cup {None})
      /\ t.cache = pod[p].cache
      /\ t.obj = pod[p].obj \/ t.obj = new
      /\ Worker \notin t.fresh
      /\ UpToDate(t)
      /\ o.cost \in Nat
  BY <1>2, <1>3, UpdateForgottenType DEF Holders
<1> HIDE DEF t
<1>6. pod' = [pod EXCEPT ![p] = t]
  BY <1>4 DEF t
<1>7. t.obj # None => Lists(p, t.obj.nads) \/ t.obj.nads = <<>>
  BY <1>1, <1>2, <1>5, PodObjectType
<1>8. PodPart'
  BY <1>1, <1>5, <1>6, <1>7, PodPartStep DEF Parts
<1>9. WorkPart' /\ (work' # None => work'.pod = p)
  <2>1. CASE work' = None
    BY <2>1, WorkPartStep DEF WellWorked, Parts, WorkPart, ControllerTypeOK, AddFinalizer
  <2>2. CASE work' = [work EXCEPT !.at = "attach"]
    <3>1. WellWorked([work EXCEPT !.at = "attach"]) /\ work'.pod = p
      BY <1>1, <2>2 DEF WellWorked, Work
    <3> QED BY <2>2, <3>1, WorkPartStep
            DEF Parts, WorkPart, ControllerTypeOK, AddFinalizer
  <2> QED BY <1>4, <2>1, <2>2
<1>10. CopyPart'
  BY <1>1, <1>3, <1>5, <1>6, <1>9 DEF CopyPart, Parts, PodPart
<1>11. RestPart'
  BY <1>1, <1>4, <1>5 DEF Parts, RestPart
<1> QED BY <1>8, <1>9, <1>10, <1>11, PartsStay DEF Parts, AddFinalizer

LEMMA CallOutcomesType ==
  \A o \in CallOutcomes : o.done \in BOOLEAN /\ o.ok \in BOOLEAN /\ o.cost \in Nat
<1> SUFFICES ASSUME NEW o \in CallOutcomes
             PROVE  o.done \in BOOLEAN /\ o.ok \in BOOLEAN /\ o.cost \in Nat
  OBVIOUS
<1>1. o \in {[done |-> TRUE, ok |-> TRUE, cost |-> 0],
             [done |-> FALSE, ok |-> FALSE, cost |-> 1],
             [done |-> TRUE, ok |-> FALSE, cost |-> 1]}
  BY DEF CallOutcomes
<1>2. CASE o = [done |-> TRUE, ok |-> TRUE, cost |-> 0]
  BY <1>2
<1>3. CASE o = [done |-> FALSE, ok |-> FALSE, cost |-> 1]
  BY <1>3
<1>4. CASE o = [done |-> TRUE, ok |-> FALSE, cost |-> 1]
  BY <1>4
<1> QED BY <1>1, <1>2, <1>3, <1>4

LEMMA NextSlot ==
  ASSUME WorkPart, work # None, work.next < Len(Requested[work.pod])
  PROVE  work.next + 1 \in Slots(work.pod) /\ work.next + 1 \in Nat
<1>1. work.pod \in Pods /\ work.next \in Slots(work.pod)
  BY WorkType
<1>2. Slots(work.pod) = 1 .. Len(Requested[work.pod]) /\ Len(Requested[work.pod]) \in Nat
  BY <1>1, SlotsType
<1> QED BY <1>1, <1>2

LEMMA AttachPodType ==
  ASSUME Parts, AttachPod, UNCHANGED hook
  PROVE  Parts'
<1> DEFINE i == work.next
           port == PortOf(work.pod, work.copy, i)
<1>1. /\ work # None /\ work \in Work /\ WellWorked(work) /\ work.pod \in Pods
      /\ port \in Ports
  BY WorkType DEF Parts, AttachPod, WorkingAt
<1>2. PICK o \in CallOutcomes :
        /\ attached' = attached \cup {q \in {port} : o.done}
        /\ lost' = lost \ {q \in {port} : o.done}
        /\ faults' = faults + o.cost
        /\ work' = IF o.ok /\ i < Len(Requested[work.pod])
                   THEN [work EXCEPT !.next = i + 1] ELSE None
        /\ dns' \in {dns} \cup {dns \cup {<<q.net, work.pod>>} :
                            q \in {r \in {port} : o.ok /\ r.net \in Provided}}
  BY DEF AttachPod
<1>3. o.cost \in Nat
  BY CallOutcomesType
<1>4. port.net \in Networks
  BY <1>1 DEF Ports
<1>5. WellWorked(work') /\ (work' # None => work'.pod = work.pod /\ work'.copy = work.copy)
  <2>1. CASE work' = None
    BY <2>1 DEF WellWorked
  <2>2. CASE work' = [work EXCEPT !.next = i + 1] /\ i < Len(Requested[work.pod])
    <3>1. i + 1 \in Slots(work.pod) /\ i + 1 \in Nat
      BY <1>1, <2>2, NextSlot DEF Parts
    <3> QED BY <1>1, <2>2, <3>1 DEF WellWorked, Work
  <2> QED BY <1>2, <2>1, <2>2
<1>6. WorkPart'
  <2>1. attached' \subseteq Ports /\ lost' \subseteq Ports
    BY <1>1, <1>2 DEF Parts, WorkPart, ControllerTypeOK
  <2>2. dns' \subseteq Networks \X Pods
    BY <1>1, <1>2, <1>4 DEF Parts, WorkPart, ControllerTypeOK
  <2> QED BY <1>5, <2>1, <2>2, WorkPartStep
<1>7. CopyPart'
  <2>1. UNCHANGED pod
    BY DEF AttachPod
  <2> HIDE DEF i
  <2> QED BY <1>1, <1>5, <2>1 DEF Parts, CopyPart
<1>8. RestPart'
  BY <1>2, <1>3 DEF Parts, RestPart, AttachPod
<1> QED BY <1>6, <1>7, <1>8, PartsStay DEF Parts, AttachPod

LEMMA DetachPodType ==
  ASSUME Parts, DetachPod, UNCHANGED hook
  PROVE  Parts'
<1> DEFINE port == PortOf(work.pod, work.copy, work.next)
<1>1. work # None /\ work \in Work /\ WellWorked(work) /\ port \in Ports
  BY WorkType DEF Parts, DetachPod, WorkingAt
<1>2. PICK o \in CallOutcomes :
        /\ attached' = attached \ {q \in {port} : o.done}
        /\ lost' = IF o.done THEN lost \ {port} ELSE lost \cup {port}
        /\ faults' = faults + o.cost
  BY DEF DetachPod
<1>3. o.cost \in Nat
  BY CallOutcomesType
<1>4. /\ WellWorked(work') /\ work'.pod = work.pod /\ work'.copy = work.copy
  BY <1>1 DEF DetachPod, WellWorked, Work
<1>5. WorkPart'
  BY <1>1, <1>2, <1>4, WorkPartStep DEF Parts, WorkPart, ControllerTypeOK, DetachPod
<1>6. CopyPart'
  BY <1>1, <1>4 DEF Parts, CopyPart, DetachPod
<1>7. RestPart'
  BY <1>2, <1>3 DEF Parts, RestPart, DetachPod
<1> QED BY <1>5, <1>6, <1>7, PartsStay DEF Parts, DetachPod

LEMMA ReleaseNetAttachDefType ==
  ASSUME Parts, ReleaseNetAttachDef, UNCHANGED hook
  PROVE  Parts'
<1> DEFINE i == work.next
           v == work.copy.nads[i]
           released == [nad[v].cache EXCEPT ![work.copy.node] = None]
<1>1. /\ work # None /\ work \in Work /\ WellWorked(work)
      /\ work.pod \in Pods /\ v \in Nads /\ work.copy.node \in Nodes
  BY WorkType DEF Parts, ReleaseNetAttachDef, WorkingAt
<1>2. nad[v] \in Stored(Claims) /\ UpToDate(nad[v])
  BY <1>1 DEF Parts, NadPart
<1>3. released \in Claims
  BY <1>1, <1>2 DEF Stored, Claims
<1>4. PICK o \in UpdateOutcomes(nad[v], Cache, released) :
        /\ nad' = [nad EXCEPT ![v] = o.after]
        /\ faults' = faults + o.cost
        /\ \/ work' = None
           \/ /\ i < Len(Requested[work.pod])
              /\ work' = [work EXCEPT !.at = "detach", !.next = i + 1]
           \/ work' = [work EXCEPT !.at = "unfinalize"]
  BY DEF ReleaseNetAttachDef
<1> HIDE DEF released, v
<1>5. o.after \in Stored(Claims) /\ UpToDate(o.after) /\ o.cost \in Nat
  BY <1>2, <1>3, UpdateType DEF Holders
<1>6. NadPart'
  BY <1>1, <1>4, <1>5, NadPartStep DEF Parts
<1>7. WellWorked(work') /\ (work' # None => work'.pod = work.pod /\ work'.copy = work.copy)
  <2>1. CASE work' = None
    BY <2>1 DEF WellWorked
  <2>2. CASE i < Len(Requested[work.pod]) /\ work' = [work EXCEPT !.at = "detach", !.next = i + 1]
    <3>1. i + 1 \in Slots(work.pod) /\ i + 1 \in Nat
      BY <1>1, <2>2, NextSlot DEF Parts
    <3> QED BY <1>1, <2>2, <3>1 DEF WellWorked, Work
  <2>3. CASE work' = [work EXCEPT !.at = "unfinalize"]
    BY <1>1, <2>3 DEF WellWorked, Work
  <2> QED BY <1>4, <2>1, <2>2, <2>3
<1>8. WorkPart'
  BY <1>7, WorkPartStep DEF Parts, WorkPart, ControllerTypeOK, ReleaseNetAttachDef
<1>9. CopyPart'
  <2>1. UNCHANGED pod
    BY DEF ReleaseNetAttachDef
  <2> QED BY <1>1, <1>7, <2>1 DEF Parts, CopyPart
<1>10. RestPart'
  BY <1>4, <1>5 DEF Parts, RestPart, ReleaseNetAttachDef
<1> QED BY <1>6, <1>8, <1>9, <1>10, PartsStay DEF Parts, ReleaseNetAttachDef

LEMMA RemoveFinalizerType ==
  ASSUME Parts, RemoveFinalizer, UNCHANGED hook
  PROVE  Parts'
<1> DEFINE p == work.pod
           new == [work.copy EXCEPT !.fin = FALSE]
<1>1. p \in Pods /\ work.copy \in PodObject /\ Lists(p, work.copy.nads)
  BY WorkType DEF Parts, RemoveFinalizer, WorkingAt
<1>2. new \in PodObject \cup {None} /\ new.nads = work.copy.nads
  BY <1>1 DEF PodObject
<1>3. pod[p] \in Stored(PodObject \cup {None}) /\ UpToDate(pod[p])
  BY <1>1 DEF Parts, PodPart
<1>4. PICK o \in UpdateOutcomes(pod[p], Worker, new) :
        /\ pod' = [pod EXCEPT ![p] = Forgotten(o.after, Worker)]
        /\ faults' = faults + o.cost
  BY DEF RemoveFinalizer
<1> DEFINE t == Forgotten(o.after, Worker)
<1> HIDE DEF new
<1>5. /\ t \in Stored(PodObject \cup {None})
      /\ t.cache = pod[p].cache
      /\ t.obj = pod[p].obj \/ t.obj = new
      /\ UpToDate(t)
      /\ o.cost \in Nat
  BY <1>2, <1>3, UpdateForgottenType DEF Holders
<1> HIDE DEF t
<1>6. pod' = [pod EXCEPT ![p] = t]
  BY <1>4 DEF t
<1>7. t.obj # None => Lists(p, t.obj.nads) \/ t.obj.nads = <<>>
  BY <1>1, <1>2, <1>5, PodObjectType
<1>8. PodPart'
  BY <1>1, <1>5, <1>6, <1>7, PodPartStep DEF Parts
<1>9. WorkPart' /\ CopyPart'
  BY WorkPartStep
     DEF WellWorked, Parts, WorkPart, CopyPart, ControllerTypeOK, RemoveFinalizer
<1>10. RestPart'
  BY <1>4, <1>5 DEF Parts, RestPart, RemoveFinalizer
<1> QED BY <1>8, <1>9, <1>10, PartsStay DEF Parts, RemoveFinalizer

LEMMA ControllerType ==
  ASSUME Parts, Controller, UNCHANGED hook
  PROVE  Parts'
<1>1. ASSUME NEW p \in Pods, BeginAttach(p) PROVE Parts'
  BY <1>1, StartType DEF BeginAttach, NeedsAttach
<1>2. ASSUME NEW p \in Pods, BeginCleanup(p) PROVE Parts'
  BY <1>2, StartType DEF BeginCleanup, NeedsCleanup
<1> QED BY <1>1, <1>2, IgnoreType, AddFinalizerType, AttachPodType, DetachPodType,
           ReleaseNetAttachDefType, RemoveFinalizerType DEF Controller, WorkerStep

-----------------------------------------------------------------------------

LEMMA RestartType ==
  ASSUME Parts, Restart
  PROVE  Parts'
<1>1. PodPart'
  <2>1. ASSUME NEW p \in Pods
        PROVE  /\ pod'[p] \in Stored(PodObject \cup {None}) /\ UpToDate(pod'[p])
               /\ pod'[p].obj = pod[p].obj /\ pod'[p].cache = pod[p].obj
    <3>1. pod[p].obj \in PodObject \cup {None}
      BY DEF Parts, PodPart, Stored
    <3>2. pod'[p] = New(pod[p].obj)
      BY DEF Restart
    <3> QED BY <3>1, <3>2, NewType
  <2>2. \A p \in Pods : pod[p].obj # None
          => Lists(p, pod[p].obj.nads) \/ pod[p].obj.nads = <<>>
    BY PodObjectType
  <2> QED BY <2>1, <2>2 DEF PodPart, PodShape, Exists, Restart
<1>2. NadPart'
  <2>1. ASSUME NEW v \in Nads
        PROVE  nad'[v] \in Stored(Claims) /\ UpToDate(nad'[v])
    <3>1. nad[v].obj \in Claims /\ nad'[v] = New(nad[v].obj)
      BY DEF Parts, NadPart, Stored, Restart
    <3> QED BY <3>1, NewType
  <2> QED BY <2>1 DEF NadPart, Restart
<1>3. NetPart'
  <2>1. ASSUME NEW n \in Networks
        PROVE  /\ net'[n] \in Stored(NetStatus \cup {None}) /\ UpToDate(net'[n])
               /\ net'[n].fresh = {Cache}
    <3>1. net[n].obj \in NetStatus \cup {None} /\ net'[n] = New(net[n].obj)
      BY DEF Parts, NetPart, Stored, Restart
    <3> QED BY <3>1, NewType
  <2> QED BY <2>1, HolderAssumption DEF NetPart, HandlerSeesNetwork, Restart
<1>4. HookPart'
  <2>1. ASSUME NEW p \in Pods
        PROVE  hook'[p] \in Handler /\ WellFormed(p, hook'[p])
    BY HandlerType, NoHandlerType DEF Parts, Restart
  <2> QED BY <2>1 DEF HookPart, HookTypeOK, HandlerShape, Restart
<1>5. WorkPart' /\ CopyPart'
  BY WorkPartStep DEF WellWorked, Parts, WorkPart, CopyPart, ControllerTypeOK, Restart
<1>6. RestPart'
  BY DEF Parts, RestPart, Restart, Fault
<1> QED BY <1>1, <1>2, <1>3, <1>4, <1>5, <1>6 DEF Parts

LEMMA InitType == Init => Parts
<1> SUFFICES ASSUME Init PROVE Parts
  OBVIOUS
<1>1. PodPart /\ CopyPart
  <2>1. New(None) \in Stored(PodObject \cup {None})
        /\ New(None).obj = None /\ New(None).cache = None
    BY NewType
  <2> QED BY <2>1 DEF Init, ClusterInit, ControllerInit, PodPart, PodShape, Exists, CopyPart
<1>2. NadPart
  <2>1. [m \in Nodes |-> None] \in Claims
    BY DEF Claims
  <2>2. /\ New([m \in Nodes |-> None]) \in Stored(Claims)
        /\ UpToDate(New([m \in Nodes |-> None]))
    BY <2>1, NewType
  <2> QED BY <2>2 DEF Init, ClusterInit, NadPart
<1>3. NetPart
  <2>1. /\ New(None) \in Stored(NetStatus \cup {None}) /\ UpToDate(New(None))
        /\ New(None).fresh = {Cache}
    BY NewType
  <2> QED BY <2>1, HolderAssumption DEF Init, ClusterInit, NetPart, HandlerSeesNetwork
<1>4. HookPart
  BY NoHandlerType DEF Init, HookInit, HookPart, HookTypeOK, HandlerShape
<1>5. WorkPart /\ RestPart
  BY DEF Init, ControllerInit, ClusterInit, WorkPart, ControllerTypeOK, WorkShape, RestPart
<1> QED BY <1>1, <1>2, <1>3, <1>4, <1>5 DEF Parts

LEMMA NextType == Parts /\ [Next]_vars => Parts'
<1> SUFFICES ASSUME Parts, [Next]_vars PROVE Parts'
  OBVIOUS
<1>1. CASE UNCHANGED vars
  BY <1>1, PartsStay DEF vars, clusterVars, controllerVars, Parts
<1> QED BY <1>1, EnvironmentType, WebhookType, ControllerType, RestartType DEF Next

(* The invariant TypeInv: every variable has its type, every handler and   *)
(* the worker point at networks and attachments that their pod has, and a  *)
(* copy with the latest resourceVersion says what the object says.         *)
THEOREM TypeInvHolds == Spec => []TypeInv
<1>1. Init => TypeInv
  BY InitType, TypeInvParts
<1>2. TypeInv /\ [Next]_vars => TypeInv'
  BY NextType, TypeInvParts, TypeInvPartsPrime
<1> QED BY <1>1, <1>2, PTL DEF Spec

(* Type correctness of the composition of the webhook and the controller.  *)
THEOREM TypeCorrect == Spec => []TypeOK
<1>1. TypeInv => TypeOK
  BY DEF TypeInv
<1> QED BY <1>1, TypeInvHolds, PTL
=============================================================================
