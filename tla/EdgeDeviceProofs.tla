-------------------------- MODULE EdgeDeviceProofs --------------------------
(***************************************************************************)
(* Proofs about the controller of network edge devices: its type           *)
(* invariant, that a monitoring network is covered by a finalizer, and     *)
(* that a switch has its configuration and the port of its probe.          *)
(***************************************************************************)
EXTENDS EdgeDevice, TLAPS

USE DEF Cache, Worker, Current

DeviceValue == DeviceObject \cup {None}

-----------------------------------------------------------------------------
(* The inductive invariant.                                                *)

(* A copy with the latest resourceVersion says what the object says.       *)
Honest(s) == Current(s, Cache) => s.cache = s.obj

CopiesCurrent ==
  /\ \A d \in Devices : Honest(device[d])
  /\ work # None /\ Current(device[work.of], Worker) => device[work.of].obj = work.copy

(* What the copy is, at the stage the worker has come to.                  *)
Running == {"network", "ports", "create"}

Fits(stage, c) ==
  /\ stage = "register" => ~ c.fin /\ ~ c.del
  /\ stage \in Running => c.fin /\ ~ c.del
  /\ stage \in {"network", "ports", "silence"} => c.spec.monitored
  /\ stage \in Deleting => c.del

WorkerSaw == work # None => Fits(work.at, work.copy)

(* A deleted device has the finalizer, and is not created anew while the   *)
(* worker deletes it.                                                      *)
DeletedStays ==
  /\ \A d \in Devices : Exists(d) /\ device[d].obj.del => device[d].obj.fin
  /\ work # None /\ work.at \in Deleting => Exists(work.of) /\ device[work.of].obj.del

(* A version c of a device is served: the object is there, of the same     *)
(* life, with the finalizer, and has not lost its monitoring unnoticed.    *)
Serves(d, c) ==
  /\ Exists(d) /\ device[d].obj.fin /\ device[d].obj.life = c.life
  /\ c.spec.monitored => device[d].obj.spec.monitored \/ d \in silenced

WorkerServed == work # None /\ work.at \in Running => Serves(work.of, work.copy)

(* A monitoring network has its device, which will delete it, and does so  *)
(* before it loses the finalizer.                                          *)
NetworkKept ==
  \A d \in sdn :
    \/ Exists(d) /\ device[d].obj.fin /\ device[d].obj.spec.monitored
    \/ d \in silenced

NetworkFirst ==
  work # None /\ work.at = "unfinalize" /\ work.copy.spec.monitored => work.of \notin sdn

CoverInv ==
  /\ TypeOK /\ CopiesCurrent /\ WorkerSaw /\ DeletedStays
  /\ WorkerServed /\ NetworkKept /\ NetworkFirst

(* Nothing is from a life that has not begun.                              *)
LivesBegun ==
  \A d \in Devices :
    /\ Exists(d) => device[d].obj.life \in 1 .. lives[d]
    /\ \A kind \in Kinds : child[<<d, kind>>] # None => child[<<d, kind>>].life =< lives[d]

(* The network comes before the port, and the port before the objects; the *)
(* configuration is the first of these.                                    *)
CreatedInOrder ==
  /\ work # None /\ work.at \notin {"create", "panic"} \cup Applying => work.made = 0
  /\ WorkingAt("create") /\ work.made > 0 => Mine(work.of, "config")
  /\ WorkingAt("ports") => work.of \in sdn
  /\ WorkingAt("create") /\ work.copy.spec.monitored => work.of \in sdn \cap probed

DeviceInv == CoverInv /\ LivesBegun /\ CreatedInOrder /\ SwitchHasAll

-----------------------------------------------------------------------------
(* The operators of the store.                                             *)

LEMMA WriteCases ==
  ASSUME NEW s \in Stored(DeviceValue), NEW v \in DeviceValue
  PROVE  /\ Write(s, v) \in Stored(DeviceValue)
         /\ Write(s, v).obj = v /\ Write(s, v).cache = s.cache
         /\ Write(s, v) = s \/ Write(s, v).fresh = {}
         /\ Honest(s) => Honest(Write(s, v))
  BY DEF Stored, Write, Holders, Honest

LEMMA OtherCases ==
  ASSUME NEW s \in Stored(DeviceValue)
  PROVE  /\ Delivered(s) \in Stored(DeviceValue) /\ Delivered(s).obj = s.obj
         /\ Current(Delivered(s), Worker) => Current(s, Worker)
         /\ Copied(s, Worker) \in Stored(DeviceValue) /\ Copied(s, Worker).obj = s.obj
         /\ Copied(s, Worker).cache = s.cache
         /\ Current(Copied(s, Worker), Worker) => Current(s, Cache)
         /\ New(s.obj) \in Stored(DeviceValue) /\ New(s.obj).obj = s.obj
         /\ Honest(Delivered(s)) /\ Honest(New(s.obj))
         /\ Honest(s) => Honest(Copied(s, Worker))
  BY DEF Delivered, Copied, New, Stored, Holders, Honest

(* An update succeeds only from the latest copy.                           *)
LEMMA UpdateCases ==
  ASSUME NEW s \in Stored(DeviceValue), NEW v \in DeviceValue,
         NEW u \in UpdateOutcomes(s, Worker, v)
  PROVE  /\ u.ok \in BOOLEAN /\ u.cost \in {0, 1} /\ (u.ok => Current(s, Worker))
         /\ u.after \in Stored(DeviceValue) /\ Updated(s, u) \in Stored(DeviceValue)
         /\ Updated(s, u).obj = u.after.obj
         /\ u.ok => u.after.obj = v
         /\ u.after.obj = s.obj \/ (Current(s, Worker) /\ u.after.obj = v)
         /\ Honest(s) => Honest(u.after) /\ Honest(Updated(s, u))
<1>1. /\ Write(s, v) \in Stored(DeviceValue) /\ Write(s, v).obj = v
      /\ Honest(s) => Honest(Write(s, v))
  BY WriteCases
<1>2. /\ u.ok \in BOOLEAN /\ u.cost \in {0, 1}
      /\ \/ u.after = s /\ ~ u.ok
         \/ u.after = Write(s, v) /\ Current(s, Worker)
  <2>1. CASE ~ Current(s, Worker)
    <3>1. u = [after |-> s, ok |-> FALSE, cost |-> 0]
      BY <2>1 DEF UpdateOutcomes
    <3> QED
      BY <3>1
  <2>2. CASE Current(s, Worker)
    <3>1. u \in {[after |-> Write(s, v), ok |-> TRUE, cost |-> 0],
                 [after |-> s, ok |-> FALSE, cost |-> 1],
                 [after |-> Write(s, v), ok |-> FALSE, cost |-> 1]}
      BY <2>2 DEF UpdateOutcomes
    <3>2. CASE u = [after |-> Write(s, v), ok |-> TRUE, cost |-> 0]
      BY <2>2, <3>2
    <3>3. CASE u = [after |-> s, ok |-> FALSE, cost |-> 1]
      BY <3>3
    <3>4. CASE u = [after |-> Write(s, v), ok |-> FALSE, cost |-> 1]
      BY <2>2, <3>4
    <3> QED
      BY <3>1, <3>2, <3>3, <3>4
  <2> QED
    BY <2>1, <2>2
<1>3. u.after \in Stored(DeviceValue)
  BY <1>1, <1>2
<1>4. /\ Updated(s, u) \in Stored(DeviceValue) /\ Updated(s, u).obj = u.after.obj
      /\ Honest(u.after) => Honest(Updated(s, u))
  BY <1>3 DEF Updated, Stored, Holders, Honest
<1> QED
  BY <1>1, <1>2, <1>3, <1>4

(* A request that is answered well was executed.                           *)
LEMMA SdnCases ==
  ASSUME NEW repeated, NEW r \in SdnOutcomes(repeated)
  PROVE  r.ok \in BOOLEAN /\ r.done \in BOOLEAN /\ r.cost \in {0, 1} /\ (r.ok => r.done)
<1>1. r \in {[done |-> TRUE, ok |-> TRUE, cost |-> 0],
             [done |-> FALSE, ok |-> FALSE, cost |-> 1],
             [done |-> TRUE, ok |-> FALSE, cost |-> 1],
             [done |-> TRUE, ok |-> FALSE, cost |-> 0]}
  BY DEF SdnOutcomes, CallOutcomes
<1>2. CASE r = [done |-> TRUE, ok |-> TRUE, cost |-> 0]
  BY <1>2
<1>3. CASE r = [done |-> FALSE, ok |-> FALSE, cost |-> 1]
  BY <1>3
<1>4. CASE r = [done |-> TRUE, ok |-> FALSE, cost |-> 1]
  BY <1>4
<1>5. CASE r = [done |-> TRUE, ok |-> FALSE, cost |-> 0]
  BY <1>5
<1> QED
  BY <1>1, <1>2, <1>3, <1>4, <1>5

-----------------------------------------------------------------------------
(* Facts about the types.                                                  *)

DeviceType == device \in [Devices -> Stored(DeviceObject \cup {None})]

LEMMA DeviceStored ==
  ASSUME TypeOK, NEW d \in Devices, NEW t \in Stored(DeviceValue),
         device' = [device EXCEPT ![d] = t]
  PROVE  /\ DeviceType'
         /\ \A e \in Devices : device'[e] = IF e = d THEN t ELSE device[e]
  BY DEF TypeOK, DeviceType, DeviceValue

LEMMA StoredFacts ==
  ASSUME TypeOK, NEW d \in Devices
  PROVE  /\ device[d] \in Stored(DeviceValue)
         /\ device[d].obj \in DeviceValue /\ device[d].cache \in DeviceValue
  BY DEF TypeOK, DeviceValue, Stored

LEMMA ObjectFacts ==
  /\ None \notin DeviceObject /\ None \notin ChildObject /\ None \notin Work
  /\ \A v \in DeviceObject :
       /\ v.life \in Nat /\ v.spec \in Specs /\ v.placed \in BOOLEAN
       /\ v.fin \in BOOLEAN /\ v.del \in BOOLEAN
       /\ [v EXCEPT !.fin = TRUE] \in DeviceObject
       /\ [v EXCEPT !.del = TRUE] \in DeviceObject
       /\ [v EXCEPT !.placed = TRUE] \in DeviceObject
       /\ \A s \in Specs : [v EXCEPT !.spec = s] \in DeviceObject
  BY DeviceObjects DEF DeviceObject

LEMMA WorkFacts ==
  ASSUME TypeOK, work # None
  PROVE  /\ work \in Work /\ work.of \in Devices /\ work.copy \in DeviceObject
         /\ work.copy # None /\ work.made \in Nat /\ work.copy.spec \in Specs
         /\ work.copy.life \in Nat /\ (work.at = "default" \/ work.copy.placed)
         /\ ChildNow \in ChildObject /\ ChildNow # None
<1>1. /\ work \in Work /\ work.of \in Devices /\ work.copy \in DeviceObject
      /\ work.made \in Nat /\ (work.at = "default" \/ work.copy.placed)
  BY DEF TypeOK, Work
<1>2. work.copy.life \in Nat /\ work.copy.spec \in Specs /\ work.copy # None
  BY <1>1, ObjectFacts
<1>3. ChildNow \in ChildObject
  BY <1>1, <1>2 DEF ChildNow, ChildObject
<1> QED
  BY <1>1, <1>2, <1>3, ObjectFacts

Stages == {"default", "panic"} \cup Launching \cup Applying \cup Deleting

(* Every way to go on.                                                     *)
WorkOK ==
  /\ work' \in Work \cup {None} /\ queue' \subseteq Devices
  /\ work' # None => work'.at = "default" \/ work'.copy.placed

LEMMA Stops ==
  ASSUME TypeOK, work # None, Retry \/ Done
  PROVE  WorkOK /\ work' = None
  BY WorkFacts DEF TypeOK, Retry, Done, WorkOK

LEMMA GoesOn ==
  ASSUME TypeOK, work # None, work.at # "default", NEW stage \in Stages, GoOn(stage)
  PROVE  /\ WorkOK /\ work' # None /\ work'.at = stage /\ work'.of = work.of
         /\ work'.copy = work.copy /\ work'.made = work.made
<1>1. work \in Work /\ work.copy.placed
  BY WorkFacts
<1>2. /\ work' \in Work /\ work'.at = stage /\ work'.of = work.of
      /\ work'.copy = work.copy /\ work'.made = work.made
  BY <1>1 DEF GoOn, Work, Stages
<1> QED
  BY <1>1, <1>2, ObjectFacts DEF WorkOK, GoOn, TypeOK

(* What the worker does with a completed copy fits it.                     *)
LEMMA NextStageFits ==
  ASSUME NEW c \in DeviceObject
  PROVE  /\ NextStage(c) \in Stages \ {"default", "ports"}
         /\ Fits(NextStage(c), c)
         /\ NextStage(c) \in {"create", "unfinalize"} => ~ c.spec.monitored
  BY DEF NextStage, Fits, Stages, Launching, Applying, Deleting, Running

LEMMA GoesOnWith ==
  ASSUME TypeOK, work # None, NEW c \in DeviceObject, c.placed, GoOnWith(c)
  PROVE  /\ WorkOK /\ work' # None /\ work'.at = NextStage(c) /\ work'.of = work.of
         /\ work'.copy = c /\ work'.made = work.made
<1>1. work \in Work
  BY WorkFacts
<1>2. /\ work' \in Work /\ work'.at = NextStage(c) /\ work'.of = work.of
      /\ work'.copy = c /\ work'.made = work.made
  <2>1. NextStage(c) \in Stages
    BY NextStageFits
  <2> HIDE DEF NextStage
  <2> QED
    BY <1>1, <2>1 DEF GoOnWith, Work, Stages
<1> QED
  BY <1>2, ObjectFacts DEF WorkOK, GoOnWith, TypeOK

-----------------------------------------------------------------------------
(* What a step may do, under the invariant.                                *)

(* To a device: it stays, is created, is changed and stays of its life, or *)
(* goes; one with the finalizer goes when the worker takes it away.        *)
Taken(d) ==
  /\ work # None /\ work.of = d /\ work.at = "unfinalize" /\ work' = None
  /\ device[d].obj = work.copy

DeviceStep(d) ==
  \/ device'[d].obj = device[d].obj
  \/ /\ ~ Exists(d) /\ Exists(d)' /\ ~ device'[d].obj.fin /\ ~ device'[d].obj.del
     /\ device'[d].obj.life = lives[d] + 1 /\ lives'[d] = lives[d] + 1
  \/ /\ Exists(d) /\ Exists(d)' /\ device'[d].obj.life = device[d].obj.life
     /\ device[d].obj.fin => device'[d].obj.fin
     /\ device[d].obj.del => device'[d].obj.del
     /\ device'[d].obj.del => device[d].obj.del \/ device'[d].obj.fin
     /\ device[d].obj.spec.monitored =>
          device'[d].obj.spec.monitored \/ d \in silenced'
  \/ Exists(d) /\ ~ Exists(d)' /\ (~ device[d].obj.fin \/ Taken(d))

(* To the worker: it stops, goes on as it is, begins, has written the copy *)
(* it goes on with, or comes to the next stage of the same task.           *)
Begins ==
  /\ work = None /\ work' # None /\ work'.at = "default" /\ work'.made = 0
  /\ UNCHANGED <<child, sdn, probed, silenced>>

Renews ==
  /\ work.at \in {"default", "register"} /\ work'.made = work.made
  /\ work'.at \in Stages \ {"default", "ports"} /\ Fits(work'.at, work'.copy)
  /\ work'.at \in {"create", "unfinalize"} => ~ work'.copy.spec.monitored
  /\ device'[work.of].obj = work'.copy
  /\ UNCHANGED <<child, sdn, probed, silenced>>

Advances ==
  /\ work'.copy = work.copy /\ (\A d \in Devices : device'[d].obj = device[d].obj)
  /\ \/ /\ work.at = "network" /\ work'.at = "ports" /\ work.of \in sdn'
        /\ work'.made = work.made /\ UNCHANGED <<child, silenced>>
     \/ /\ work.at = "ports" /\ work'.at = "create" /\ work.of \in probed'
        /\ work'.made = work.made /\ UNCHANGED <<child, sdn, silenced>>
     \/ /\ work.at = "create" /\ work'.at = "create" /\ work'.made = work.made + 1
        /\ child' = [child EXCEPT ![<<work.of, Resources[work.made + 1]>>] = ChildNow]
        /\ UNCHANGED <<sdn, probed, silenced>>
     \/ /\ work.at \in Applying /\ work'.at \in {"measure", "panic"}
        /\ UNCHANGED <<sdn, probed, silenced>>
     \/ /\ work.at = "silence" /\ work'.at = "unfinalize" /\ work.of \notin sdn'
        /\ work'.made = work.made /\ UNCHANGED <<child, silenced>>

WorkStep ==
  \/ work' = None \/ work' = work \/ Begins
  \/ work # None /\ work' # None /\ work'.of = work.of /\ (Renews \/ Advances)

(* To a child: it is created, collected, or applied.                       *)
ChildStep(d, kind) ==
  \/ child'[<<d, kind>>] = child[<<d, kind>>]
  \/ /\ UNCHANGED <<device, sdn, probed>>
     /\ \/ Orphaned(<<d, kind>>) /\ child'[<<d, kind>>] = None
        \/ /\ WorkingAt("create") /\ d = work.of /\ kind = Resources[work.made + 1]
           /\ child[<<d, kind>>] = None /\ child'[<<d, kind>>] = ChildNow
        \/ /\ WorkingAt("apply") \/ WorkingAt("measure")
           /\ kind # "ReplicaSet" /\ child'[<<d, kind>>] # None
           /\ child'[<<d, kind>>].life = IF child[<<d, kind>>] = None THEN Nobody
                                                              ELSE child[<<d, kind>>].life

(* To the SDN controller: networks and ports of the device in work come,   *)
(* and go when it is deleted.                                              *)
SdnStep ==
  /\ \A d \in sdn' :
       d \in sdn \/ (WorkingAt("network") /\ d = work.of /\ UNCHANGED <<device, silenced>>)
  /\ \A d \in Devices :
       (d \in sdn /\ d \notin sdn') \/ (d \in probed /\ d \notin probed')
         => WorkingAt("silence") /\ d = work.of /\ UNCHANGED <<device, child>>

HistoryStep ==
  /\ silenced \subseteq silenced'
  /\ \A d \in Devices : lives'[d] >= lives[d]

AnyStep ==
  /\ \A d \in Devices : DeviceStep(d)
  /\ \A d \in Devices, kind \in Kinds : ChildStep(d, kind)
  /\ WorkStep /\ SdnStep /\ HistoryStep

Good == TypeOK' /\ CopiesCurrent' /\ AnyStep

-----------------------------------------------------------------------------
(* Steps of the environment.                                               *)

(* A step that leaves the objects of all devices.                          *)
LEMMA SameDevices ==
  ASSUME TypeOK, UNCHANGED <<silenced, lives>>,
         \A d \in Devices : device'[d].obj = device[d].obj
  PROVE  (\A d \in Devices : DeviceStep(d)) /\ HistoryStep
  BY DEF TypeOK, DeviceStep, HistoryStep

LEMMA SameChildren ==
  ASSUME UNCHANGED child
  PROVE  \A d \in Devices, kind \in Kinds : ChildStep(d, kind)
  BY DEF ChildStep

LEMMA SameSdn ==
  ASSUME UNCHANGED <<sdn, probed>>
  PROVE  SdnStep
  BY DEF SdnStep

(* A write that is not the worker's.                                       *)
LEMMA WrittenByOthers ==
  ASSUME TypeOK, CopiesCurrent, UNCHANGED work, NEW d \in Devices, NEW v \in DeviceValue,
         device' = [device EXCEPT ![d] = Write(device[d], v)]
  PROVE  /\ DeviceType' /\ CopiesCurrent' /\ device'[d].obj = v
         /\ \A e \in Devices : e # d => device'[e] = device[e]
<1>1. PICK t \in Stored(DeviceValue) :
        /\ t = Write(device[d], v) /\ t.obj = v /\ (t = device[d] \/ t.fresh = {})
        /\ Honest(device[d]) => Honest(t)
  BY StoredFacts, WriteCases
<1>2. /\ DeviceType'
      /\ \A e \in Devices : device'[e] = IF e = d THEN t ELSE device[e]
  BY <1>1, DeviceStored
<1>3. CopiesCurrent'
  BY <1>1, <1>2, WorkFacts DEF CopiesCurrent
<1> QED
  BY <1>1, <1>2, <1>3

LEMMA EnvironmentGood ==
  ASSUME TypeOK, CopiesCurrent, Environment
  PROVE  Good
<1> USE DEF sdnVars, historyVars
<1>1. ASSUME NEW d \in Devices, CreateDevice(d)
      PROVE  Good
  <2>1. PICK s \in Specs, given \in BOOLEAN :
          device' = [device EXCEPT ![d] =
             Write(device[d], [life |-> lives[d] + 1, spec |-> s, placed |-> given,
                               fin |-> FALSE, del |-> FALSE])]
    BY <1>1 DEF CreateDevice
  <2> DEFINE v == [life |-> lives[d] + 1, spec |-> s, placed |-> given,
                   fin |-> FALSE, del |-> FALSE]
  <2>2. /\ v \in DeviceObject /\ v.life = lives[d] + 1 /\ ~ v.fin /\ ~ v.del
    BY DEF TypeOK, DeviceObject
  <2>3. v \in DeviceValue /\ v # None
    BY <2>2, ObjectFacts DEF DeviceValue
  <2> HIDE DEF v
  <2>4. device' = [device EXCEPT ![d] = Write(device[d], v)]
    BY <2>1 DEF v
  <2>5. /\ DeviceType' /\ CopiesCurrent' /\ device'[d].obj = v
        /\ \A e \in Devices : e # d => device'[e] = device[e]
    BY <1>1, <2>3, <2>4, WrittenByOthers DEF CreateDevice
  <2>6. lives'[d] = lives[d] + 1 /\ lives' \in [Devices -> Nat]
        /\ \A e \in Devices : lives'[e] >= lives[e]
    BY <1>1 DEF CreateDevice, TypeOK
  <2>7. \A e \in Devices : DeviceStep(e)
    BY <1>1, <2>2, <2>3, <2>5, <2>6 DEF CreateDevice, DeviceStep, Exists
  <2>8. TypeOK'
    BY <1>1, <2>5, <2>6 DEF CreateDevice, TypeOK, DeviceType
  <2>9. HistoryStep /\ WorkStep
    BY <1>1, <2>6 DEF CreateDevice, HistoryStep, WorkStep
  <2> QED
    BY <1>1, <2>5, <2>7, <2>8, <2>9, SameChildren, SameSdn DEF CreateDevice, Good, AnyStep
<1>2. ASSUME NEW d \in Devices, EditDevice(d)
      PROVE  Good
  <2>1. PICK s \in Specs :
          /\ device' = [device EXCEPT ![d] =
                          Write(device[d], [device[d].obj EXCEPT !.spec = s])]
          /\ silenced' = silenced \cup
               {q \in {d} : device[d].obj.spec.monitored /\ ~ s.monitored}
    BY <1>2 DEF EditDevice
  <2> DEFINE v == [device[d].obj EXCEPT !.spec = s]
  <2>2. device[d].obj \in DeviceObject /\ device[d].obj # None /\ ~ device[d].obj.del
    BY <1>2, StoredFacts DEF EditDevice, Live, Exists, DeviceValue
  <2>3. /\ v \in DeviceObject /\ v.life = device[d].obj.life /\ v.spec = s
        /\ v.fin = device[d].obj.fin /\ v.del = device[d].obj.del
    BY <2>2 DEF DeviceObject
  <2>4. v \in DeviceValue /\ v # None
    BY <2>3, ObjectFacts DEF DeviceValue
  <2> HIDE DEF v
  <2>5. device' = [device EXCEPT ![d] = Write(device[d], v)]
    BY <2>1 DEF v
  <2>6. /\ DeviceType' /\ CopiesCurrent' /\ device'[d].obj = v
        /\ \A e \in Devices : e # d => device'[e] = device[e]
    BY <1>2, <2>4, <2>5, WrittenByOthers DEF EditDevice
  <2>7. device[d].obj.spec.monitored => s.monitored \/ d \in silenced'
    BY <2>1
  <2>8. \A e \in Devices : DeviceStep(e)
    BY <2>2, <2>3, <2>4, <2>6, <2>7 DEF DeviceStep, Exists
  <2>9. silenced' \subseteq Devices /\ silenced \subseteq silenced' /\ faults' \in Nat
    BY <1>2, <2>1 DEF EditDevice, Fault, TypeOK
  <2>10. TypeOK'
    BY <1>2, <2>6, <2>9 DEF EditDevice, TypeOK, DeviceType
  <2>11. HistoryStep /\ WorkStep
    BY <1>2, <2>9 DEF EditDevice, HistoryStep, WorkStep, TypeOK
  <2> QED
    BY <1>2, <2>6, <2>8, <2>10, <2>11, SameChildren, SameSdn DEF EditDevice, Good, AnyStep
<1>3. ASSUME NEW d \in Devices, DeleteDevice(d)
      PROVE  Good
  <2> DEFINE v == IF device[d].obj.fin THEN [device[d].obj EXCEPT !.del = TRUE] ELSE None
  <2>1. device' = [device EXCEPT ![d] = Write(device[d], v)]
    BY <1>3 DEF DeleteDevice
  <2>2. device[d].obj \in DeviceObject /\ device[d].obj # None
    BY <1>3, StoredFacts DEF DeleteDevice, Live, Exists, DeviceValue
  <2>3. \/ v = None /\ ~ device[d].obj.fin
        \/ /\ v \in DeviceObject /\ v.life = device[d].obj.life
           /\ v.spec = device[d].obj.spec /\ v.fin /\ device[d].obj.fin /\ v.del
    BY <2>2 DEF DeviceObject
  <2>4. v \in DeviceValue /\ (v \in DeviceObject => v # None)
    BY <2>3, ObjectFacts DEF DeviceValue
  <2> HIDE DEF v
  <2>5. /\ DeviceType' /\ CopiesCurrent' /\ device'[d].obj = v
        /\ \A e \in Devices : e # d => device'[e] = device[e]
    BY <1>3, <2>1, <2>4, WrittenByOthers DEF DeleteDevice
  <2>6. \A e \in Devices : DeviceStep(e)
    BY <2>2, <2>3, <2>4, <2>5 DEF DeviceStep, Exists
  <2>7. TypeOK'
    BY <1>3, <2>5 DEF DeleteDevice, TypeOK, DeviceType
  <2>8. HistoryStep /\ WorkStep
    BY <1>3 DEF DeleteDevice, HistoryStep, WorkStep, TypeOK
  <2> QED
    BY <1>3, <2>5, <2>6, <2>7, <2>8, SameChildren, SameSdn DEF DeleteDevice, Good, AnyStep
<1>4. ASSUME NEW d \in Devices, DeliverDevice(d)
      PROVE  Good
  <2>1. PICK t \in Stored(DeviceValue) :
          /\ t = Delivered(device[d]) /\ t.obj = device[d].obj
          /\ Honest(t) /\ (Current(t, Worker) => Current(device[d], Worker))
    BY StoredFacts, OtherCases
  <2>2. /\ DeviceType'
        /\ \A e \in Devices : device'[e] = IF e = d THEN t ELSE device[e]
    BY <1>4, <2>1, DeviceStored DEF DeliverDevice
  <2>3. \A e \in Devices : device'[e].obj = device[e].obj
    BY <2>1, <2>2
  <2>4. CopiesCurrent'
    BY <1>4, <2>1, <2>2, WorkFacts DEF CopiesCurrent, DeliverDevice
  <2>5. TypeOK' /\ WorkStep
    BY <1>4, <2>2 DEF DeliverDevice, TypeOK, DeviceType, WorkStep
  <2> QED
    BY <1>4, <2>3, <2>4, <2>5, SameDevices, SameChildren, SameSdn
    DEF DeliverDevice, Good, AnyStep
<1>5. ASSUME UNCHANGED <<device, child, work, sdn, probed, silenced, lives>>, TypeOK'
      PROVE  Good
  <2>1. CopiesCurrent' /\ WorkStep
    BY <1>5 DEF CopiesCurrent, WorkStep
  <2> QED
    BY <1>5, <2>1, SameDevices, SameChildren, SameSdn DEF Good, AnyStep
<1>6. ASSUME NEW d \in Devices, DeliverReplicaSet(d)
      PROVE  Good
  <2>1. TypeOK'
    BY <1>6 DEF DeliverReplicaSet, TypeOK
  <2> QED
    BY <1>5, <1>6, <2>1 DEF DeliverReplicaSet
<1>7. ASSUME NEW c \in Devices \X Kinds, Collect(c)
      PROVE  Good
  <2>1. child' \in [Devices \X Kinds -> ChildObject \cup {None}]
        /\ \A e \in Devices \X Kinds : child'[e] = IF e = c THEN None ELSE child[e]
    BY <1>7 DEF Collect, TypeOK
  <2>2. TypeOK'
    BY <1>7, <2>1 DEF Collect, TypeOK
  <2>3. CopiesCurrent' /\ WorkStep
    BY <1>7 DEF Collect, CopiesCurrent, WorkStep
  <2>4. \A d \in Devices, kind \in Kinds : ChildStep(d, kind)
    BY <1>7, <2>1 DEF Collect, ChildStep
  <2> QED
    BY <1>7, <2>2, <2>3, <2>4, SameDevices, SameSdn DEF Collect, Good, AnyStep
<1>8. CASE JoinControlPlane \/ Resync
  <2>1. TypeOK'
    BY <1>8 DEF JoinControlPlane, Resync, TypeOK
  <2> QED
    BY <1>5, <1>8, <2>1 DEF JoinControlPlane, Resync
<1> QED
  BY <1>1, <1>2, <1>3, <1>4, <1>6, <1>7, <1>8 DEF Environment

-----------------------------------------------------------------------------
(* Steps of the worker.                                                    *)

LEMMA BeginGood ==
  ASSUME TypeOK, CopiesCurrent, NEW d \in Devices, Begin(d)
  PROVE  Good
<1> USE DEF sdnVars, historyVars
<1>1. PICK t \in Stored(DeviceValue) :
        /\ t = Copied(device[d], Worker) /\ t.obj = device[d].obj
        /\ Honest(device[d]) => Honest(t)
        /\ Current(t, Worker) => Current(device[d], Cache)
  BY StoredFacts, OtherCases
<1>2. /\ DeviceType'
      /\ \A e \in Devices : device'[e] = IF e = d THEN t ELSE device[e]
  BY <1>1, DeviceStored DEF Begin
<1>3. device[d].cache \in DeviceObject
  BY StoredFacts DEF Begin, DeviceValue
<1>4. /\ work' \in Work /\ work' # None /\ work'.at = "default" /\ work'.of = d
      /\ work'.copy = device[d].cache /\ work'.made = 0
  <2>1. work' \in Work
    BY <1>3 DEF Begin, Work
  <2> QED
    BY <2>1, ObjectFacts DEF Begin
<1>5. CopiesCurrent'
  BY <1>1, <1>2, <1>4 DEF CopiesCurrent, Honest
<1>6. TypeOK'
  BY <1>2, <1>4 DEF Begin, TypeOK, DeviceType
<1>7. WorkStep
  BY <1>4 DEF Begin, WorkStep, Begins
<1>8. \A e \in Devices : device'[e].obj = device[e].obj
  BY <1>1, <1>2
<1> QED
  BY <1>5, <1>6, <1>7, <1>8, SameDevices, SameChildren, SameSdn DEF Begin, Good, AnyStep

LEMMA IgnoreGood ==
  ASSUME TypeOK, CopiesCurrent, NEW d \in Devices, Ignore(d)
  PROVE  Good
<1> USE DEF sdnVars, historyVars
<1>1. TypeOK' /\ CopiesCurrent' /\ WorkStep
  BY DEF Ignore, TypeOK, CopiesCurrent, WorkStep
<1> QED
  BY <1>1, SameDevices, SameChildren, SameSdn DEF Ignore, Good, AnyStep

(* The worker writes the device.                                           *)
LEMMA WorkerWrites ==
  ASSUME TypeOK, CopiesCurrent, work # None, work.at \in {"default", "register"},
         NEW v \in DeviceObject, v.placed, v.life = work.copy.life, v.spec = work.copy.spec,
         work.copy.fin => v.fin, v.del = work.copy.del,
         NEW u \in UpdateOutcomes(device[work.of], Worker, v),
         device' = [device EXCEPT ![work.of] = Updated(@, u)],
         faults' = faults + u.cost,
         IF u.ok THEN GoOnWith(v) ELSE Retry,
         UNCHANGED <<child, listed, controlPlane, sdnVars, historyVars>>
  PROVE  Good
<1> USE DEF sdnVars, historyVars
<1>1. PICK d \in Devices : d = work.of
  BY WorkFacts
<1>2. v \in DeviceValue /\ v # None
  BY ObjectFacts DEF DeviceValue
<1>3. PICK t \in Stored(DeviceValue) :
        /\ t = Updated(device[d], u) /\ u.ok \in BOOLEAN /\ u.cost \in {0, 1}
        /\ u.ok => t.obj = v
        /\ t.obj = device[d].obj \/ (t.obj = v /\ device[d].obj = work.copy)
        /\ Honest(device[d]) => Honest(t)
  <2>1. PICK s \in Stored(DeviceValue) : s = device[d]
    BY StoredFacts
  <2>2. u \in UpdateOutcomes(s, Worker, v)
    BY <1>1, <2>1
  <2>3. /\ u.ok \in BOOLEAN /\ u.cost \in {0, 1} /\ (u.ok => Current(s, Worker))
        /\ u.after \in Stored(DeviceValue) /\ Updated(s, u) \in Stored(DeviceValue)
        /\ Updated(s, u).obj = u.after.obj
        /\ u.ok => u.after.obj = v
        /\ u.after.obj = s.obj \/ (Current(s, Worker) /\ u.after.obj = v)
        /\ Honest(s) => Honest(u.after) /\ Honest(Updated(s, u))
    BY <1>2, <2>2, UpdateCases
  <2>4. Current(s, Worker) => s.obj = work.copy
    BY <1>1, <2>1 DEF CopiesCurrent
  <2> QED
    BY <2>1, <2>3, <2>4
<1>4. /\ DeviceType'
      /\ \A e \in Devices : device'[e] = IF e = d THEN t ELSE device[e]
  <2>1. device' = [device EXCEPT ![d] = t]
    BY <1>1, <1>3
  <2> QED
    BY <1>3, <2>1, DeviceStored
<1>5. /\ WorkOK
      /\ \/ work' = None
         \/ /\ u.ok /\ work' # None /\ work'.at = NextStage(v) /\ work'.of = d
            /\ work'.copy = v /\ work'.made = work.made
  <2>1. CASE u.ok
    BY <1>1, <2>1, GoesOnWith
  <2>2. CASE ~ u.ok
    BY <2>2, Stops
  <2> QED
    BY <1>3, <2>1, <2>2
<1>6. CopiesCurrent'
  BY <1>3, <1>4, <1>5 DEF CopiesCurrent
<1>7. TypeOK'
  <2>1. faults' \in Nat
    BY <1>3 DEF TypeOK
  <2> QED
    BY <1>4, <1>5, <2>1 DEF TypeOK, DeviceType, WorkOK
<1>8. WorkStep
  <2>1. CASE work' # None
    <3>1. /\ work'.at \in Stages \ {"default", "ports"} /\ Fits(work'.at, work'.copy)
          /\ work'.at \in {"create", "unfinalize"} => ~ work'.copy.spec.monitored
      <4> HIDE DEF Fits
      <4> QED
        BY <1>5, <2>1, NextStageFits
    <3>2. device'[work.of].obj = work'.copy
      BY <1>1, <1>3, <1>4, <1>5, <2>1
    <3> QED
      BY <1>1, <1>5, <2>1, <3>1, <3>2 DEF WorkStep, Renews
  <2> QED
    BY <2>1 DEF WorkStep
<1>9. \A e \in Devices : DeviceStep(e)
  <2>1. work.copy # None
    BY WorkFacts
  <2> QED
    BY <1>2, <1>3, <1>4, <2>1 DEF DeviceStep, Exists
<1>10. HistoryStep
  BY DEF HistoryStep, TypeOK
<1> QED
  BY <1>6, <1>7, <1>8, <1>9, <1>10, SameChildren, SameSdn DEF Good, AnyStep

LEMMA WrittenGood ==
  ASSUME TypeOK, CopiesCurrent, ApplyDefaults \/ AddFinalizer
  PROVE  Good
<1> USE DEF sdnVars, historyVars
<1>1. work # None /\ work.copy \in DeviceObject /\ (work.at = "default" \/ work.copy.placed)
  BY WorkFacts DEF ApplyDefaults, AddFinalizer, WorkingAt
<1>2. CASE AddFinalizer
  <2> DEFINE v == [work.copy EXCEPT !.fin = TRUE]
  <2>1. v \in DeviceObject
    BY <1>1, ObjectFacts
  <2>2. work.at = "register" /\ v.placed /\ v.life = work.copy.life /\ v.spec = work.copy.spec
        /\ v.fin /\ v.del = work.copy.del
    BY <1>1, <1>2 DEF AddFinalizer, WorkingAt, DeviceObject
  <2> HIDE DEF v
  <2>3. PICK u \in UpdateOutcomes(device[work.of], Worker, v) :
          /\ device' = [device EXCEPT ![work.of] = Updated(@, u)]
          /\ faults' = faults + u.cost
          /\ IF u.ok THEN GoOnWith(v) ELSE Retry
    BY <1>2 DEF AddFinalizer, v
  <2>4. UNCHANGED <<child, listed, controlPlane, sdnVars, historyVars>>
    BY <1>2 DEF AddFinalizer
  <2> QED
    BY <1>1, <2>1, <2>2, <2>3, <2>4, WorkerWrites
<1>3. CASE ApplyDefaults /\ UNCHANGED <<device, faults>> /\ Retry
  <2>1. WorkOK /\ work' = None
    BY <1>1, <1>3, Stops
  <2>2. TypeOK' /\ CopiesCurrent' /\ WorkStep
    BY <1>3, <2>1 DEF ApplyDefaults, TypeOK, WorkOK, CopiesCurrent, WorkStep
  <2> QED
    BY <1>3, <2>2, SameDevices, SameChildren, SameSdn DEF ApplyDefaults, Good, AnyStep
<1>4. CASE ApplyDefaults /\ ~ (UNCHANGED <<device, faults>> /\ Retry)
  <2> DEFINE v == [work.copy EXCEPT !.placed = TRUE]
  <2>1. v \in DeviceObject
    BY <1>1, ObjectFacts
  <2>2. work.at = "default" /\ v.placed /\ v.life = work.copy.life /\ v.spec = work.copy.spec
        /\ v.fin = work.copy.fin /\ v.del = work.copy.del
    BY <1>1, <1>4 DEF ApplyDefaults, WorkingAt, DeviceObject
  <2> HIDE DEF v
  <2>3. PICK u \in UpdateOutcomes(device[work.of], Worker, v) :
          /\ device' = [device EXCEPT ![work.of] = Updated(@, u)]
          /\ faults' = faults + u.cost
          /\ IF u.ok THEN GoOnWith(v) ELSE Retry
    BY <1>4 DEF ApplyDefaults, v
  <2>4. UNCHANGED <<child, listed, controlPlane, sdnVars, historyVars>>
    BY <1>4 DEF ApplyDefaults
  <2> QED
    BY <1>1, <2>1, <2>2, <2>3, <2>4, WorkerWrites
<1> QED
  BY <1>2, <1>3, <1>4

(* The worker leaves the devices, and stops or comes to a later stage.     *)
LEMMA WorkerGoesOn ==
  ASSUME TypeOK, CopiesCurrent, UNCHANGED <<device, listed, controlPlane, silenced, lives>>,
         work # None, WorkOK,
         work' = None \/ (work'.of = work.of /\ work'.copy = work.copy),
         child' \in [Devices \X Kinds -> ChildObject \cup {None}],
         sdn' \subseteq Devices, probed' \subseteq Devices, faults' \in Nat
  PROVE  /\ TypeOK' /\ CopiesCurrent' /\ HistoryStep
         /\ \A d \in Devices : DeviceStep(d)
<1>1. TypeOK'
  BY DEF TypeOK, WorkOK
<1>2. CopiesCurrent'
  BY DEF CopiesCurrent
<1> QED
  BY <1>1, <1>2, SameDevices

LEMMA NetworkGood ==
  ASSUME TypeOK, CopiesCurrent, CreateMonitoringNetwork
  PROVE  Good
<1> USE DEF sdnVars, historyVars
<1>1. work # None /\ work.at = "network" /\ work.of \in Devices
  BY WorkFacts DEF CreateMonitoringNetwork, WorkingAt
<1>2. PICK r \in SdnOutcomes(work.of \in sdn) :
        /\ sdn' = sdn \cup {q \in {work.of} : r.done}
        /\ faults' = faults + r.cost
        /\ IF r.ok THEN GoOn("ports") ELSE Retry
  BY DEF CreateMonitoringNetwork
<1>3. r.ok \in BOOLEAN /\ r.cost \in {0, 1} /\ (r.ok => r.done)
  BY <1>2, SdnCases
<1>4. /\ WorkOK
      /\ \/ work' = None
         \/ /\ work' # None /\ work'.at = "ports" /\ work'.of = work.of /\ r.ok
            /\ work'.copy = work.copy /\ work'.made = work.made
  BY <1>1, <1>2, <1>3, Stops, GoesOn DEF Stages, Launching
<1>5. sdn' \subseteq Devices /\ faults' \in Nat
  BY <1>1, <1>2, <1>3 DEF TypeOK
<1>6. TypeOK' /\ CopiesCurrent' /\ HistoryStep /\ \A d \in Devices : DeviceStep(d)
  BY <1>1, <1>4, <1>5, WorkerGoesOn DEF CreateMonitoringNetwork, TypeOK
<1>7. WorkStep
  BY <1>1, <1>2, <1>3, <1>4 DEF CreateMonitoringNetwork, WorkStep, Advances
<1>8. SdnStep
  BY <1>1, <1>2 DEF CreateMonitoringNetwork, SdnStep, WorkingAt
<1> QED
  BY <1>6, <1>7, <1>8, SameChildren DEF CreateMonitoringNetwork, Good, AnyStep

LEMMA ProbeGood ==
  ASSUME TypeOK, CopiesCurrent, AttachProbe
  PROVE  Good
<1> USE DEF sdnVars, historyVars
<1>1. work # None /\ work.at = "ports" /\ work.of \in Devices
  BY WorkFacts DEF AttachProbe, WorkingAt
<1>2. PICK r \in SdnOutcomes(work.of \in probed) :
        /\ probed' = probed \cup {q \in {work.of} : r.done}
        /\ faults' = faults + r.cost
        /\ IF r.ok THEN GoOn("create") ELSE Retry
  BY DEF AttachProbe
<1>3. r.ok \in BOOLEAN /\ r.cost \in {0, 1} /\ (r.ok => r.done)
  BY <1>2, SdnCases
<1>4. /\ WorkOK
      /\ \/ work' = None
         \/ /\ work' # None /\ work'.at = "create" /\ work'.of = work.of /\ r.ok
            /\ work'.copy = work.copy /\ work'.made = work.made
  BY <1>1, <1>2, <1>3, Stops, GoesOn DEF Stages, Launching
<1>5. probed' \subseteq Devices /\ faults' \in Nat
  BY <1>1, <1>2, <1>3 DEF TypeOK
<1>6. TypeOK' /\ CopiesCurrent' /\ HistoryStep /\ \A d \in Devices : DeviceStep(d)
  BY <1>1, <1>4, <1>5, WorkerGoesOn DEF AttachProbe, TypeOK
<1>7. WorkStep
  BY <1>1, <1>2, <1>3, <1>4 DEF AttachProbe, WorkStep, Advances
<1>8. SdnStep
  BY <1>1, <1>2 DEF AttachProbe, SdnStep, WorkingAt
<1> QED
  BY <1>6, <1>7, <1>8, SameChildren DEF AttachProbe, Good, AnyStep

LEMMA SilenceGood ==
  ASSUME TypeOK, CopiesCurrent, DeleteMonitoringNetwork
  PROVE  Good
<1> USE DEF sdnVars, historyVars
<1>1. work # None /\ work.at = "silence" /\ work.of \in Devices
  BY WorkFacts DEF DeleteMonitoringNetwork, WorkingAt
<1>2. PICK r \in SdnOutcomes(work.of \notin sdn) :
        /\ sdn' = sdn \ {q \in {work.of} : r.done}
        /\ probed' = probed \ {q \in {work.of} : r.done}
        /\ faults' = faults + r.cost
        /\ IF r.ok THEN GoOn("unfinalize") ELSE Retry
  BY DEF DeleteMonitoringNetwork
<1>3. r.ok \in BOOLEAN /\ r.cost \in {0, 1} /\ (r.ok => r.done)
  BY <1>2, SdnCases
<1>4. /\ WorkOK
      /\ \/ work' = None
         \/ /\ work' # None /\ work'.at = "unfinalize" /\ work'.of = work.of /\ r.ok
            /\ work'.copy = work.copy /\ work'.made = work.made
  BY <1>1, <1>2, <1>3, Stops, GoesOn DEF Stages, Deleting
<1>5. sdn' \subseteq Devices /\ probed' \subseteq Devices /\ faults' \in Nat
  BY <1>2, <1>3 DEF TypeOK
<1>6. TypeOK' /\ CopiesCurrent' /\ HistoryStep /\ \A d \in Devices : DeviceStep(d)
  BY <1>1, <1>4, <1>5, WorkerGoesOn DEF DeleteMonitoringNetwork, TypeOK
<1>7. WorkStep
  BY <1>1, <1>2, <1>3, <1>4 DEF DeleteMonitoringNetwork, WorkStep, Advances
<1>8. SdnStep
  BY <1>1, <1>2 DEF DeleteMonitoringNetwork, SdnStep, WorkingAt
<1> QED
  BY <1>6, <1>7, <1>8, SameChildren DEF DeleteMonitoringNetwork, Good, AnyStep

LEMMA ShortSequences ==
  ASSUME NEW S, NEW x \in S, NEW y \in S
  PROVE  /\ <<x, y>> \in Seq(S) /\ Len(<<x, y>>) = 2 /\ <<x, y>>[1] = x
         /\ <<x>> \in Seq(S) /\ << >> \in Seq(S)
  OBVIOUS

LEMMA FirstOfConcatenation ==
  ASSUME NEW s \in Seq(Kinds), NEW t \in Seq(Kinds), Len(s) >= 1
  PROVE  (s \o t)[1] = s[1]
  OBVIOUS

(* Whatever is created first is the configuration.                         *)
LEMMA ConfigFirst ==
  ASSUME NEW spec \in Specs
  PROVE  ExternalResources(spec)[1] = "config"
<1> DEFINE s == <<"config", "ReplicaSet">>
           t == IF spec.monitored THEN <<"CollectorConfig">> ELSE <<>>
<1>1. "config" \in Kinds /\ "ReplicaSet" \in Kinds /\ "CollectorConfig" \in Kinds
  BY DEF Kinds
<1>2. s \in Seq(Kinds) /\ Len(s) = 2 /\ s[1] = "config"
  BY <1>1, ShortSequences
<1>3. t \in Seq(Kinds)
  <2>1. <<"CollectorConfig">> \in Seq(Kinds) /\ << >> \in Seq(Kinds)
    BY <1>1, ShortSequences
  <2> QED
    BY <2>1, Zenon
<1>4. ExternalResources(spec) = s \o t
  BY DEF ExternalResources
<1> HIDE DEF s, t
<1>5. (s \o t)[1] = s[1]
  <2>1. Len(s) >= 1
    BY <1>2
  <2> QED
    BY <1>2, <1>3, <2>1, FirstOfConcatenation
<1> QED
  BY <1>2, <1>4, <1>5

LEMMA CreateGood ==
  ASSUME TypeOK, CopiesCurrent, CreateExternalResource
  PROVE  Good
<1> USE DEF sdnVars, historyVars
<1> DEFINE c == <<work.of, Resources[work.made + 1]>>
<1>1. /\ work # None /\ work.at = "create" /\ work.of \in Devices /\ work.made \in Nat
      /\ work.copy.placed /\ work \in Work
      /\ ChildNow \in ChildObject /\ ChildNow # None
  BY WorkFacts DEF CreateExternalResource, WorkingAt
<1>2. \/ Retry /\ UNCHANGED child
      \/ /\ child[c] = None /\ child' = [child EXCEPT ![c] = ChildNow]
         /\ \/ work' = [work EXCEPT !.made = work.made + 1] /\ UNCHANGED queue
            \/ Retry
      \/ /\ child[c] = None /\ child' = [child EXCEPT ![c] = None] /\ Retry
  BY DEF CreateExternalResource
<1>3. CASE Retry
  <2>1. WorkOK /\ work' = None
    BY <1>1, <1>3, Stops
  <2>2. \/ UNCHANGED child
        \/ child[c] = None /\ child' = [child EXCEPT ![c] = ChildNow]
        \/ child[c] = None /\ child' = [child EXCEPT ![c] = None]
    BY <1>2
  <2>3. child' \in [Devices \X Kinds -> ChildObject \cup {None}]
    BY <1>1, <2>2 DEF TypeOK
  <2>4. faults' \in Nat
    BY DEF CreateExternalResource, Fault, TypeOK
  <2>5. TypeOK' /\ CopiesCurrent' /\ HistoryStep /\ \A d \in Devices : DeviceStep(d)
    BY <1>1, <2>1, <2>3, <2>4, WorkerGoesOn DEF CreateExternalResource, TypeOK
  <2>6. ASSUME NEW d \in Devices, NEW kind \in Kinds
        PROVE  ChildStep(d, kind)
    <3>1. \/ child'[<<d, kind>>] = child[<<d, kind>>]
          \/ c = <<d, kind>> /\ child[c] = None /\ child'[<<d, kind>>] = ChildNow
      BY <2>2 DEF TypeOK
    <3>2. c = <<d, kind>> => work.of = d /\ Resources[work.made + 1] = kind
      OBVIOUS
    <3> HIDE DEF c
    <3> QED
      BY <1>1, <3>1, <3>2 DEF ChildStep, CreateExternalResource, WorkingAt
  <2> QED
    BY <2>1, <2>5, <2>6, SameSdn DEF CreateExternalResource, Good, AnyStep, WorkStep
<1>4. CASE /\ child[c] = None /\ child' = [child EXCEPT ![c] = ChildNow]
           /\ work' = [work EXCEPT !.made = work.made + 1] /\ UNCHANGED queue
  <2>1. /\ WorkOK /\ work' # None /\ work'.at = "create" /\ work'.of = work.of
        /\ work'.copy = work.copy /\ work'.made = work.made + 1
    <3>1. /\ work' \in Work /\ work'.at = "create" /\ work'.of = work.of
          /\ work'.copy = work.copy /\ work'.made = work.made + 1
      BY <1>1, <1>4 DEF Work
    <3> QED
      BY <1>1, <1>4, <3>1, ObjectFacts DEF WorkOK, TypeOK
  <2>2. child' \in [Devices \X Kinds -> ChildObject \cup {None}]
    BY <1>1, <1>4 DEF TypeOK
  <2>3. faults' \in Nat
    BY DEF CreateExternalResource, Fault, TypeOK
  <2>4. TypeOK' /\ CopiesCurrent' /\ HistoryStep /\ \A d \in Devices : DeviceStep(d)
    BY <1>1, <2>1, <2>2, <2>3, WorkerGoesOn DEF CreateExternalResource, TypeOK
  <2>5. ASSUME NEW d \in Devices, NEW kind \in Kinds
        PROVE  ChildStep(d, kind)
    <3>1. \/ child'[<<d, kind>>] = child[<<d, kind>>]
          \/ c = <<d, kind>> /\ child[c] = None /\ child'[<<d, kind>>] = ChildNow
      BY <1>4 DEF TypeOK
    <3>2. c = <<d, kind>> => work.of = d /\ Resources[work.made + 1] = kind
      OBVIOUS
    <3> HIDE DEF c
    <3> QED
      BY <1>1, <3>1, <3>2 DEF ChildStep, CreateExternalResource, WorkingAt
  <2>6. WorkStep
    BY <1>1, <1>4, <2>1 DEF WorkStep, Advances, CreateExternalResource
  <2> QED
    BY <2>4, <2>5, <2>6, SameSdn DEF CreateExternalResource, Good, AnyStep
<1> QED
  BY <1>2, <1>3, <1>4

(* An object that may be applied, and an end of the task.                  *)
LEMMA AppliedGood ==
  ASSUME TypeOK, CopiesCurrent, work # None, work.at \in Applying,
         NEW kind \in {"config", "CollectorConfig"},
         \/ UNCHANGED child
         \/ child' = [child EXCEPT ![<<work.of, kind>>] = Applied(child[<<work.of, kind>>])],
         \/ Retry \/ Done
         \/ \E stage \in {"measure", "panic"} : GoOn(stage),
         UNCHANGED faults \/ faults' = faults + 1,
         UNCHANGED <<device, listed, controlPlane, sdnVars, historyVars>>
  PROVE  Good
<1> USE DEF sdnVars, historyVars
<1>1. PICK d \in Devices : d = work.of
  BY WorkFacts
<1>2. work.at # "default" /\ work.copy.spec \in Specs
  BY WorkFacts DEF Applying
<1>3. /\ WorkOK
      /\ \/ work' = None
         \/ /\ work' # None /\ work'.at \in {"measure", "panic"} /\ work'.of = work.of
            /\ work'.copy = work.copy
  <2>1. {"measure", "panic"} \subseteq Stages
    BY DEF Stages, Applying
  <2> QED
    BY <1>2, <2>1, Stops, GoesOn
<1> DEFINE old == child[<<d, kind>>]
           a == Applied(old)
<1>4. /\ a \in ChildObject /\ a # None
      /\ a.life = IF old = None THEN Nobody ELSE old.life
  <2>1. old = None \/ old \in ChildObject
    BY DEF TypeOK, Kinds
  <2>2. a \in ChildObject
    BY <1>2, <2>1 DEF Applied, ChildObject, Nobody
  <2> QED
    BY <2>2, ObjectFacts DEF Applied
<1>5. \A e \in Devices \X Kinds :
        child'[e] = child[e] \/ (e = <<d, kind>> /\ child'[e] = a)
  BY <1>1 DEF TypeOK
<1>6. child' \in [Devices \X Kinds -> ChildObject \cup {None}]
  <2> HIDE DEF a
  <2>1. UNCHANGED child \/ child' = [child EXCEPT ![<<d, kind>>] = a]
    BY <1>1 DEF a
  <2> QED
    BY <1>4, <2>1 DEF TypeOK
<1>7. TypeOK' /\ CopiesCurrent' /\ HistoryStep /\ \A e \in Devices : DeviceStep(e)
  <2>1. faults' \in Nat
    BY DEF TypeOK
  <2> QED
    BY <1>3, <1>6, <2>1, WorkerGoesOn DEF TypeOK
<1>8. ASSUME NEW e \in Devices, NEW k \in Kinds
      PROVE  ChildStep(e, k)
  <2>1. WorkingAt("apply") \/ WorkingAt("measure")
    BY DEF Applying, WorkingAt
  <2>2. CASE child'[<<e, k>>] = child[<<e, k>>]
    BY <2>2 DEF ChildStep
  <2>3. CASE e = d /\ k = kind /\ child'[<<e, k>>] = a
    <3> HIDE DEF a
    <3> QED
      BY <1>4, <2>1, <2>3 DEF ChildStep
  <2> QED
    BY <1>5, <2>2, <2>3
<1>9. WorkStep
  BY <1>3 DEF WorkStep, Advances
<1> QED
  BY <1>7, <1>8, <1>9, SameSdn DEF Good, AnyStep

LEMMA ApplyGood ==
  ASSUME TypeOK, CopiesCurrent, ApplyConfig \/ ApplyCollectorConfig
  PROVE  Good
<1> USE DEF sdnVars, historyVars
<1>1. CASE ApplyConfig
  <2> DEFINE c == <<work.of, "config">>
  <2>1. /\ work # None /\ work.at \in Applying
        /\ UNCHANGED child \/ child' = [child EXCEPT ![c] = Applied(child[c])]
        /\ UNCHANGED faults \/ faults' = faults + 1
        /\ UNCHANGED <<device, listed, controlPlane, sdnVars, historyVars>>
    BY <1>1 DEF ApplyConfig, WorkingAt, Applying, Fault, TypeOK
  <2>2. Retry \/ Done \/ \E stage \in {"measure", "panic"} : GoOn(stage)
    BY <1>1 DEF ApplyConfig, AfterConfig
  <2> QED
    BY <2>1, <2>2, AppliedGood
<1>2. CASE ApplyCollectorConfig
  <2> DEFINE c == <<work.of, "CollectorConfig">>
  <2>1. /\ work # None /\ work.at \in Applying
        /\ UNCHANGED child \/ child' = [child EXCEPT ![c] = Applied(child[c])]
        /\ UNCHANGED faults \/ faults' = faults + 1
        /\ UNCHANGED <<device, listed, controlPlane, sdnVars, historyVars>>
    BY <1>2 DEF ApplyCollectorConfig, WorkingAt, Applying, Fault, TypeOK
  <2>2. Retry \/ Done \/ \E stage \in {"measure", "panic"} : GoOn(stage)
    BY <1>2 DEF ApplyCollectorConfig
  <2> QED
    BY <2>1, <2>2, AppliedGood
<1> QED
  BY <1>1, <1>2

LEMMA RemoveGood ==
  ASSUME TypeOK, CopiesCurrent, RemoveFinalizer
  PROVE  Good
<1> USE DEF sdnVars, historyVars
<1>1. PICK d \in Devices : work # None /\ d = work.of /\ work.at = "unfinalize"
  BY WorkFacts DEF RemoveFinalizer, WorkingAt
<1>2. PICK u \in UpdateOutcomes(device[d], Worker, None) :
        /\ device' = [device EXCEPT ![d] = u.after]
        /\ faults' = faults + u.cost
        /\ Retry \/ Done
  BY <1>1 DEF RemoveFinalizer
<1>3. /\ u.cost \in {0, 1} /\ u.after \in Stored(DeviceValue)
      /\ u.after.obj = device[d].obj \/ (u.after.obj = None /\ device[d].obj = work.copy)
      /\ Honest(device[d]) => Honest(u.after)
  <2>1. None \in DeviceValue /\ device[d] \in Stored(DeviceValue)
    BY StoredFacts DEF DeviceValue
  <2>2. /\ u.cost \in {0, 1} /\ u.after \in Stored(DeviceValue)
        /\ u.after.obj = device[d].obj \/ (Current(device[d], Worker) /\ u.after.obj = None)
        /\ Honest(device[d]) => Honest(u.after)
    BY <1>2, <2>1, UpdateCases
  <2> QED
    BY <1>1, <2>2 DEF CopiesCurrent
<1>4. /\ DeviceType'
      /\ \A e \in Devices : device'[e] = IF e = d THEN u.after ELSE device[e]
  BY <1>2, <1>3, DeviceStored
<1>5. WorkOK /\ work' = None /\ work.copy # None
  BY <1>1, <1>2, Stops, WorkFacts
<1>6. CopiesCurrent'
  BY <1>3, <1>4, <1>5 DEF CopiesCurrent
<1>7. TypeOK'
  <2>1. faults' \in Nat
    BY <1>2, <1>3 DEF TypeOK
  <2> QED
    BY <1>4, <1>5, <2>1 DEF RemoveFinalizer, TypeOK, DeviceType, WorkOK
<1>8. \A e \in Devices : DeviceStep(e)
  BY <1>1, <1>3, <1>4, <1>5 DEF DeviceStep, Exists, Taken
<1>9. WorkStep /\ HistoryStep
  BY <1>5 DEF RemoveFinalizer, WorkStep, HistoryStep, TypeOK
<1> QED
  BY <1>6, <1>7, <1>8, <1>9, SameChildren, SameSdn DEF RemoveFinalizer, Good, AnyStep

LEMMA StartAgainGood ==
  ASSUME TypeOK, StartAgain, faults' \in Nat
  PROVE  Good
<1> USE DEF sdnVars, historyVars
<1>1. \A d \in Devices :
        /\ device'[d] = New(device[d].obj) /\ device'[d] \in Stored(DeviceValue)
        /\ device'[d].obj = device[d].obj /\ Honest(device'[d])
  BY StoredFacts, OtherCases DEF StartAgain
<1>2. DeviceType'
  <2>1. device' = [d \in Devices |-> New(device[d].obj)]
    BY DEF StartAgain
  <2>2. \A d \in Devices : New(device[d].obj) \in Stored(DeviceValue)
    BY <1>1
  <2> QED
    BY <2>1, <2>2 DEF DeviceType, DeviceValue
<1>3. TypeOK'
  BY <1>2 DEF StartAgain, TypeOK, DeviceType
<1>4. CopiesCurrent' /\ WorkStep
  BY <1>1 DEF StartAgain, CopiesCurrent, WorkStep
<1> QED
  BY <1>1, <1>3, <1>4, SameDevices, SameChildren, SameSdn DEF StartAgain, Good, AnyStep

LEMMA EveryStep ==
  ASSUME TypeOK, CopiesCurrent, [Next]_vars
  PROVE  Good
<1>1. CASE WorkerStep
  BY <1>1, WrittenGood, NetworkGood, ProbeGood, CreateGood, ApplyGood, SilenceGood, RemoveGood
  DEF WorkerStep
<1>2. CASE Panic \/ Restart
  <2>1. faults' \in Nat /\ StartAgain
    BY <1>2 DEF Panic, Restart, Fault, TypeOK
  <2> QED
    BY <2>1, StartAgainGood
<1>3. CASE UNCHANGED vars
  <2>1. TypeOK' /\ CopiesCurrent' /\ WorkStep
    BY <1>3 DEF vars, sdnVars, historyVars, TypeOK, CopiesCurrent, WorkStep
  <2> QED
    BY <1>3, <2>1, SameDevices, SameChildren, SameSdn
    DEF vars, sdnVars, historyVars, Good, AnyStep
<1> QED
  BY <1>1, <1>2, <1>3, EnvironmentGood, IgnoreGood, BeginGood DEF Next

-----------------------------------------------------------------------------
(* The finalizer covers the monitoring network.                            *)

(* What is served stays so, unless the worker takes the device away.       *)
LEMMA ServesKept ==
  ASSUME NEW d \in Devices, DeviceStep(d), HistoryStep, ~ Taken(d),
         NEW c, Serves(d, c)
  PROVE  Serves(d, c)'
  BY DEF Serves, DeviceStep, HistoryStep, Exists

LEMMA WorkerSawKept ==
  ASSUME WorkerSaw, WorkStep
  PROVE  WorkerSaw'
<1>1. CASE work' = None \/ work' = work
  BY <1>1 DEF WorkerSaw
<1>2. CASE Begins
  BY <1>2 DEF WorkerSaw, Begins, Fits, Running, Deleting
<1>3. CASE Renews
  BY <1>3 DEF WorkerSaw, Renews
<1>4. CASE work # None /\ Advances
  BY <1>4 DEF WorkerSaw, Advances, Fits, Running, Applying, Deleting
<1> QED
  BY <1>1, <1>2, <1>3, <1>4 DEF WorkStep

LEMMA DeletedStaysKept ==
  ASSUME TypeOK, TypeOK', DeletedStays, WorkerSaw', AnyStep
  PROVE  DeletedStays'
<1>1. ASSUME NEW d \in Devices, Exists(d)', device'[d].obj.del
      PROVE  device'[d].obj.fin
  BY <1>1 DEF DeletedStays, AnyStep, DeviceStep, Exists
<1>2. ASSUME work' # None, work'.at \in Deleting
      PROVE  device'[work'.of].obj # None /\ device'[work'.of].obj.del
  <2>1. PICK d \in Devices : d = work'.of
    BY <1>2, WorkFacts DEF TypeOK, Work
  <2>2. work'.copy \in DeviceObject /\ work'.copy # None /\ work'.copy.del
    BY <1>2, ObjectFacts DEF TypeOK, Work, WorkerSaw, Fits
  <2>3. DeviceStep(d) /\ ~ Taken(d) /\ WorkStep
    BY <1>2 DEF AnyStep, Taken
  <2>4. CASE work' = work
    <3>1. Exists(d) /\ device[d].obj.del /\ device[d].obj.fin
      BY <1>2, <2>1, <2>4 DEF DeletedStays
    <3> QED
      BY <2>1, <2>3, <3>1 DEF DeviceStep, Exists
  <2>5. CASE Begins
    BY <1>2, <2>5 DEF Begins, Deleting
  <2>6. CASE work # None /\ work'.of = work.of /\ Renews
    BY <2>1, <2>2, <2>6 DEF Renews, Exists
  <2>7. CASE work # None /\ work'.of = work.of /\ Advances
    <3>1. work.at \in Deleting /\ device'[d].obj = device[d].obj
      BY <1>2, <2>7 DEF Advances, Deleting, Applying
    <3>2. Exists(d) /\ device[d].obj.del
      BY <2>1, <2>7, <3>1 DEF DeletedStays
    <3> QED
      BY <2>1, <3>1, <3>2 DEF Exists
  <2> QED
    BY <1>2, <2>3, <2>4, <2>5, <2>6, <2>7 DEF WorkStep
<1> QED
  BY <1>1, <1>2 DEF DeletedStays, Exists

LEMMA WorkerServedKept ==
  ASSUME TypeOK, TypeOK', WorkerServed, WorkerSaw', AnyStep
  PROVE  WorkerServed'
<1> SUFFICES ASSUME work' # None, work'.at \in Running
             PROVE  WorkerServed'
  BY DEF WorkerServed, Running
<1>1. PICK d \in Devices, c \in DeviceObject : d = work'.of /\ c = work'.copy
  BY WorkFacts DEF TypeOK, Work
<1>2. DeviceStep(d) /\ HistoryStep /\ WorkStep /\ ~ Taken(d)
  BY DEF AnyStep, Taken
<1> SUFFICES Serves(d, c)'
  BY <1>1 DEF WorkerServed, Serves, Exists
<1>3. CASE work' = work
  <2>1. Serves(d, c)
    BY <1>1, <1>3 DEF WorkerServed
  <2> QED
    BY <1>2, <2>1, ServesKept
<1>4. CASE Begins
  BY <1>4 DEF Begins, Running
<1>5. CASE work # None /\ work'.of = work.of /\ Renews
  <2>1. c.fin /\ c # None
    BY <1>1, ObjectFacts DEF WorkerSaw, Fits
  <2>2. device'[d].obj = c
    BY <1>1, <1>5 DEF Renews
  <2> QED
    BY <2>1, <2>2 DEF Serves, Exists
<1>6. CASE work # None /\ work'.of = work.of /\ Advances
  <2>1. work.of = d /\ work.copy = c /\ work.at \in Running
    BY <1>1, <1>6 DEF Advances, Running, Applying
  <2>2. Serves(d, c)
    BY <1>6, <2>1 DEF WorkerServed
  <2> QED
    BY <1>2, <2>2, ServesKept
<1> QED
  BY <1>2, <1>3, <1>4, <1>5, <1>6 DEF WorkStep

LEMMA NetworkKeptKept ==
  ASSUME TypeOK, TypeOK', WorkerSaw, WorkerServed, NetworkKept, NetworkFirst, AnyStep
  PROVE  NetworkKept'
<1> SUFFICES ASSUME NEW d \in Devices, d \in sdn', d \notin silenced'
             PROVE  (Exists(d) /\ device[d].obj.fin /\ device[d].obj.spec.monitored)'
  <2>1. sdn' \subseteq Devices
    BY DEF TypeOK
  <2> QED
    BY <2>1 DEF NetworkKept
<1>1. DeviceStep(d) /\ HistoryStep /\ SdnStep
  BY DEF AnyStep
<1>2. d \notin silenced
  BY <1>1 DEF HistoryStep
<1>3. CASE d \in sdn
  <2>1. Exists(d) /\ device[d].obj.fin /\ device[d].obj.spec.monitored
    BY <1>2, <1>3 DEF NetworkKept
  <2>2. ~ Taken(d)
    BY <1>3, <2>1 DEF Taken, NetworkFirst
  <2> QED
    BY <2>1, <2>2, <1>1 DEF DeviceStep, Exists
<1>4. CASE WorkingAt("network") /\ d = work.of /\ UNCHANGED <<device, silenced>>
  <2>1. Serves(d, work.copy) /\ work.copy.spec.monitored
    BY <1>4 DEF WorkerServed, WorkerSaw, Fits, WorkingAt, Running
  <2> QED
    BY <1>2, <1>4, <2>1 DEF Serves, Exists
<1> QED
  BY <1>1, <1>3, <1>4 DEF SdnStep

LEMMA NetworkFirstKept ==
  ASSUME NetworkFirst, AnyStep
  PROVE  NetworkFirst'
<1> SUFFICES ASSUME work' # None, work'.at = "unfinalize", work'.copy.spec.monitored
             PROVE  work'.of \notin sdn'
  BY DEF NetworkFirst
<1>1. WorkStep /\ SdnStep
  BY DEF AnyStep
<1>2. CASE work' = work
  <2>1. work.of \notin sdn /\ ~ WorkingAt("network")
    BY <1>2 DEF NetworkFirst, WorkingAt
  <2> QED
    BY <1>1, <1>2, <2>1 DEF SdnStep
<1>3. CASE Begins
  BY <1>3 DEF Begins
<1>4. CASE work # None /\ work'.of = work.of /\ Renews
  BY <1>4 DEF Renews
<1>5. CASE work # None /\ work'.of = work.of /\ Advances
  BY <1>5 DEF Advances
<1> QED
  BY <1>1, <1>2, <1>3, <1>4, <1>5 DEF WorkStep

LEMMA InitCover ==
  ASSUME Init
  PROVE  CoverInv
<1>1. \A d \in Devices : device[d] = New(None)
  BY DEF Init
<1>2. \A d \in Devices : device[d] \in Stored(DeviceObject \cup {None})
  BY <1>1 DEF New, Stored, Holders
<1>3. TypeOK
  BY <1>2 DEF Init, TypeOK
<1>4. \A d \in Devices : device[d].obj = None /\ device[d].cache = None /\ Honest(device[d])
  BY <1>1 DEF New, Honest
<1> QED
  BY <1>3, <1>4 DEF Init, CoverInv, CopiesCurrent, WorkerSaw, DeletedStays, WorkerServed,
     NetworkKept, NetworkFirst, Exists

LEMMA StepCover ==
  ASSUME CoverInv, [Next]_vars
  PROVE  CoverInv' /\ AnyStep
<1>1. TypeOK' /\ CopiesCurrent' /\ AnyStep
  BY EveryStep DEF CoverInv, Good
<1>2. WorkerSaw'
  BY <1>1, WorkerSawKept DEF CoverInv, AnyStep
<1>3. DeletedStays'
  BY <1>1, <1>2, DeletedStaysKept DEF CoverInv
<1>4. WorkerServed'
  BY <1>1, <1>2, WorkerServedKept DEF CoverInv
<1>5. NetworkKept'
  BY <1>1, NetworkKeptKept DEF CoverInv
<1>6. NetworkFirst'
  BY <1>1, NetworkFirstKept DEF CoverInv
<1> QED
  BY <1>1, <1>2, <1>3, <1>4, <1>5, <1>6 DEF CoverInv

-----------------------------------------------------------------------------
(* A switch has its configuration and its probe.                           *)

(* A device that stays is of the same life.                                *)
LEMMA SameLife ==
  ASSUME NEW d \in Devices, AnyStep, Exists(d), Exists(d)'
  PROVE  device'[d].obj.life = device[d].obj.life
  BY DEF AnyStep, DeviceStep, Exists

(* What is created is of the device as it is now.                          *)
LEMMA NowIsServed ==
  ASSUME TypeOK, WorkerServed, WorkingAt("create")
  PROVE  /\ Exists(work.of) /\ ChildNow # None /\ ChildNow.life = device[work.of].obj.life
         /\ ChildNow.spec = work.copy.spec
  BY WorkFacts DEF WorkerServed, Serves, WorkingAt, Running, ChildNow

LEMMA LivesBegunKept ==
  ASSUME TypeOK, TypeOK', WorkerServed, LivesBegun, AnyStep
  PROVE  LivesBegun'
<1> SUFFICES ASSUME NEW d \in Devices
             PROVE  /\ Exists(d)' => device'[d].obj.life \in 1 .. lives'[d]
                    /\ \A kind \in Kinds : child'[<<d, kind>>] # None =>
                         child'[<<d, kind>>].life =< lives'[d]
  BY DEF LivesBegun, Exists
<1>1. lives[d] \in Nat /\ lives'[d] \in Nat /\ lives'[d] >= lives[d] /\ DeviceStep(d)
  BY DEF TypeOK, AnyStep, HistoryStep
<1>2. Exists(d) => device[d].obj.life \in 1 .. lives[d]
  BY DEF LivesBegun
<1>3. Exists(d)' => device'[d].obj.life \in 1 .. lives'[d]
  <2>1. CASE ~ Exists(d) /\ Exists(d)'
    <3>1. device'[d].obj.life = lives[d] + 1 /\ lives'[d] = lives[d] + 1
      BY <1>1, <2>1 DEF DeviceStep, Exists
    <3> QED
      BY <1>1, <3>1
  <2>2. CASE Exists(d) /\ Exists(d)'
    <3>1. device'[d].obj.life = device[d].obj.life
      BY <2>2, SameLife
    <3> QED
      BY <1>1, <1>2, <2>2, <3>1
  <2> QED
    BY <2>1, <2>2
<1>4. ASSUME NEW kind \in Kinds, child'[<<d, kind>>] # None
      PROVE  child'[<<d, kind>>].life =< lives'[d]
  <2> DEFINE old == child[<<d, kind>>]
             now == child'[<<d, kind>>]
  <2>1. /\ old # None => old.life \in Nat /\ old.life =< lives[d]
        /\ now.life \in Nat
    <3>1. old \in ChildObject \cup {None} /\ now \in ChildObject
      BY <1>4 DEF TypeOK
    <3> QED
      BY <3>1 DEF LivesBegun, ChildObject
  <2>2. \/ now = old
        \/ /\ WorkingAt("create") /\ d = work.of /\ now = ChildNow
        \/ now.life = IF old = None THEN 0 ELSE old.life
    BY <1>4 DEF AnyStep, ChildStep, Nobody
  <2>3. CASE WorkingAt("create") /\ d = work.of /\ now = ChildNow
    <3>1. Exists(d) /\ now.life = device[d].obj.life
      BY <2>3, NowIsServed
    <3> QED
      BY <1>1, <1>2, <3>1
  <2> HIDE DEF now, old
  <2>4. now.life =< lives'[d]
    BY <1>1, <1>4, <2>1, <2>2, <2>3 DEF now
  <2> QED
    BY <2>4 DEF now
<1> QED
  BY <1>3, <1>4

(* The configuration stays while the worker creates the other objects.     *)
LEMMA ConfigStays ==
  ASSUME NEW d \in Devices, AnyStep, Mine(d, "config"), Exists(d)'
  PROVE  Mine(d, "config")'
<1>1. "config" \in Kinds /\ ~ Orphaned(<<d, "config">>)
  BY DEF Kinds, Mine, Orphaned
<1>2. /\ child'[<<d, "config">>] # None
      /\ child'[<<d, "config">>].life = child[<<d, "config">>].life
  BY <1>1 DEF AnyStep, ChildStep, Mine
<1> QED
  BY <1>2, SameLife DEF Mine

LEMMA CreatedInOrderKept ==
  ASSUME CoverInv, CoverInv', CreatedInOrder, AnyStep
  PROVE  CreatedInOrder'
<1>1. TypeOK /\ WorkStep /\ SdnStep
  BY DEF CoverInv, AnyStep
<1>2. CASE work' = None
  BY <1>2 DEF CreatedInOrder, WorkingAt
<1>3. CASE Begins
  BY <1>3 DEF Begins, CreatedInOrder, WorkingAt
<1> SUFFICES ASSUME work # None, work' # None, work'.of = work.of,
                    work' = work \/ Renews \/ Advances
             PROVE  CreatedInOrder'
  BY <1>1, <1>2, <1>3 DEF WorkStep, Begins
<1>4. PICK d \in Devices : d = work.of /\ d = work'.of
  BY <1>1, WorkFacts
<1>5. work.made \in Nat /\ work'.made \in Nat /\ work.copy.spec \in Specs
  BY <1>1, WorkFacts DEF CoverInv, TypeOK, Work
<1>6. work'.at \notin {"create", "panic"} \cup Applying => work'.made = 0
  BY DEF Renews, Advances, CreatedInOrder, Applying
<1>7. ASSUME WorkingAt("create")', work'.made > 0
      PROVE  Mine(d, "config")'
  <2>1. Exists(d)'
    BY <1>4, <1>7 DEF CoverInv, WorkerServed, Serves, WorkingAt, Running, Exists
  <2>2. CASE WorkingAt("create") /\ work.made > 0
    BY <1>4, <2>1, <2>2, ConfigStays DEF CreatedInOrder
  <2>3. CASE WorkingAt("create") /\ work.made = 0
    <3>1. Advances
      BY <1>7, <2>3 DEF Renews, WorkingAt
    <3>2. /\ child' = [child EXCEPT ![<<d, Resources[1]>>] = ChildNow]
          /\ device'[d].obj = device[d].obj
      BY <1>4, <1>7, <2>3, <3>1 DEF Advances, WorkingAt, Applying
    <3>3. Resources[1] = "config"
      BY <1>5, ConfigFirst DEF Resources
    <3>4. child'[<<d, "config">>] = ChildNow
      BY <1>1, <3>2, <3>3 DEF TypeOK, Kinds
    <3>5. ChildNow # None /\ ChildNow.life = device[d].obj.life
      BY <1>1, <1>4, <2>3, NowIsServed DEF CoverInv
    <3> QED
      BY <2>1, <3>2, <3>4, <3>5 DEF Mine
  <2>4. CASE ~ WorkingAt("create")
    BY <1>7, <2>4 DEF Renews, Advances, CreatedInOrder, WorkingAt, Applying
  <2> QED
    BY <1>5, <2>2, <2>3, <2>4
<1>8. WorkingAt("ports")' => d \in sdn'
  <2>1. CASE work' = work
    BY <1>1, <1>4, <2>1 DEF CreatedInOrder, SdnStep, WorkingAt
  <2>2. CASE Renews \/ Advances
    BY <1>4, <2>2 DEF Renews, Advances, WorkingAt
  <2> QED
    BY <2>1, <2>2
<1>9. WorkingAt("create")' /\ work'.copy.spec.monitored => d \in sdn' \cap probed'
  <2>1. CASE work' = work
    BY <1>1, <1>4, <2>1 DEF CreatedInOrder, SdnStep, WorkingAt
  <2>2. CASE Renews
    BY <2>2 DEF Renews, WorkingAt
  <2>3. CASE Advances
    BY <1>4, <2>3 DEF Advances, CreatedInOrder, WorkingAt
  <2> QED
    BY <2>1, <2>2, <2>3
<1> QED
  BY <1>4, <1>6, <1>7, <1>8, <1>9 DEF CreatedInOrder, WorkingAt

LEMMA SwitchHasAllKept ==
  ASSUME CoverInv, LivesBegun, CreatedInOrder, SwitchHasAll, AnyStep
  PROVE  SwitchHasAll'
<1> SUFFICES ASSUME NEW d \in Devices, Live(d)', Mine(d, "ReplicaSet")'
             PROVE  /\ Mine(d, "config")'
                    /\ child'[<<d, "ReplicaSet">>].spec.monitored => d \in sdn' \cap probed'
  BY DEF SwitchHasAll
<1> DEFINE old == child[<<d, "ReplicaSet">>]
           now == child'[<<d, "ReplicaSet">>]
<1>1. /\ TypeOK /\ DeviceStep(d) /\ SdnStep /\ Exists(d)' /\ ~ device'[d].obj.del
      /\ now # None /\ now.life = device'[d].obj.life
      /\ ChildStep(d, "ReplicaSet")
  BY DEF CoverInv, AnyStep, Mine, Live, Exists, Kinds
<1>2. CASE now = old
  <2>1. Exists(d)
    <3>1. old.life =< lives[d] /\ lives[d] \in Nat
      BY <1>1, <1>2 DEF LivesBegun, TypeOK, Kinds
    <3>2. ~ Exists(d) => now.life = lives[d] + 1
      BY <1>1 DEF DeviceStep, Exists
    <3> HIDE DEF old, now
    <3> QED
      BY <1>2, <3>1, <3>2
  <2>2. Live(d) /\ Mine(d, "ReplicaSet")
    BY <1>1, <1>2, <2>1 DEF DeviceStep, Exists, Live, Mine
  <2>3. Mine(d, "config") /\ (old.spec.monitored => d \in sdn \cap probed)
    BY <2>2 DEF SwitchHasAll
  <2>4. (d \in sdn => d \in sdn') /\ (d \in probed => d \in probed')
    BY <1>1, <2>2 DEF SdnStep, CoverInv, DeletedStays, WorkingAt, Deleting, Live
  <2> QED
    BY <1>1, <1>2, <2>3, <2>4, ConfigStays
<1>3. CASE /\ WorkingAt("create") /\ d = work.of /\ Resources[work.made + 1] = "ReplicaSet"
           /\ now = ChildNow /\ UNCHANGED <<device, sdn, probed>>
  <2>1. work.made \in Nat /\ work.copy.spec \in Specs
    BY <1>1, <1>3, WorkFacts DEF WorkingAt
  <2>2. work.made # 0
    BY <1>3, <2>1, ConfigFirst DEF Resources
  <2>3. Mine(d, "config")
    BY <1>3, <2>1, <2>2 DEF CreatedInOrder
  <2>4. now.spec = work.copy.spec
    BY <1>1, <1>3, NowIsServed DEF CoverInv
  <2>5. now.spec.monitored => d \in sdn' \cap probed'
    BY <1>3, <2>4 DEF CreatedInOrder
  <2> QED
    BY <1>1, <2>3, <2>5, ConfigStays
<1> QED
  BY <1>1, <1>2, <1>3 DEF ChildStep

LEMMA InvInit ==
  ASSUME Init
  PROVE  DeviceInv
<1>1. CoverInv
  BY InitCover
<1>2. /\ work = None /\ \A d \in Devices : ~ Exists(d)
      /\ \A d \in Devices, kind \in Kinds : child[<<d, kind>>] = None
  BY DEF Init, New, Exists
<1>3. LivesBegun
  BY <1>2 DEF LivesBegun
<1>4. CreatedInOrder /\ SwitchHasAll
  BY <1>2 DEF CreatedInOrder, SwitchHasAll, WorkingAt, Live
<1> QED
  BY <1>1, <1>3, <1>4 DEF DeviceInv

LEMMA InvStep ==
  ASSUME DeviceInv, [Next]_vars
  PROVE  DeviceInv'
<1>1. CoverInv' /\ AnyStep
  BY StepCover DEF DeviceInv
<1>2. LivesBegun'
  BY <1>1, LivesBegunKept DEF DeviceInv, CoverInv
<1>3. CreatedInOrder'
  BY <1>1, CreatedInOrderKept DEF DeviceInv
<1>4. SwitchHasAll'
  BY <1>1, SwitchHasAllKept DEF DeviceInv
<1> QED
  BY <1>1, <1>2, <1>3, <1>4 DEF DeviceInv

LEMMA InvAlways == Spec => []DeviceInv
<1>1. Init => DeviceInv
  BY InvInit
<1>2. DeviceInv /\ [Next]_vars => DeviceInv'
  BY InvStep
<1> QED
  BY <1>1, <1>2, PTL DEF Spec

(* The devices, the cache, the worker, the SDN controller and the history  *)
(* keep their types; in particular the worker has a node for a device from *)
(* ApplyDefaults on, whatever Update returns.                              *)
THEOREM DeviceTypeCorrect == Spec => []TypeOK
<1>1. DeviceInv => TypeOK
  BY DEF DeviceInv, CoverInv
<1> QED
  BY <1>1, InvAlways, PTL

(* No monitoring network is left without a device that has the finalizer   *)
(* and so deletes it, whatever is edited, lost, refused or restarted,      *)
(* unless the device's monitoring was turned off: Reconcile adds the       *)
(* finalizer before it creates the network, and deletes the network before *)
(* it removes the finalizer, each from the latest version of the device.   *)
THEOREM DeviceNetworkCovered == Spec => []NetworkCovered
<1>1. DeviceInv => NetworkCovered
  BY DEF DeviceInv, CoverInv, NetworkKept, NetworkCovered
<1> QED
  BY <1>1, InvAlways, PTL

(* The switch of a device has its configuration and the network and the    *)
(* port it was made to be probed through until the device is deleted:      *)
(* createExternalResources creates the network, the port, the              *)
(* configuration and the replica set in this order and stops at the first  *)
(* error, and only a deletion takes any of them away.                      *)
THEOREM SwitchHasAllHolds == Spec => []SwitchHasAll
<1>1. DeviceInv => SwitchHasAll
  BY DEF DeviceInv
<1> QED
  BY <1>1, InvAlways, PTL
=============================================================================
