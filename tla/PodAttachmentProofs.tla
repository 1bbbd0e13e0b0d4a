------------------------ MODULE PodAttachmentProofs ------------------------
(***************************************************************************)
(* What PodAttachment guarantees for any number of pods, networks, nodes,  *)
(* attachments and faults, beyond the types: the labels implement          *)
(* PortClaims, a recorded address is given to nobody else, every port in a *)
(* network is covered by a pod whose cleanup is yet to come, and a pod     *)
(* without a finalizer has no labelled attachment.                         *)
(***************************************************************************)
EXTENDS PodAttachmentTypeProofs

USE DEF Cache, Worker, Current, UpToDate

(* No step but an admission gives a handler a latest copy, or a choice.    *)
KeepsNadCopies ==
  \A v \in Nads, p \in Pods :
    p \in nad'[v].fresh => p \in nad[v].fresh /\ nad'[v].obj = nad[v].obj

KeepsNetCopies ==
  \A n \in Networks, p \in Pods :
    p \in net'[n].fresh => p \in net[n].fresh /\ net'[n].obj = net[n].obj

KeepsChoices ==
  \A p \in Pods :
    \/ /\ hook'[p].nads = hook[p].nads /\ hook'[p].node = hook[p].node
       /\ hook'[p].ips = hook[p].ips
    \/ hook'[p].nads = <<>> /\ hook'[p].ips = <<>>

Keeps == KeepsNadCopies /\ KeepsNetCopies /\ KeepsChoices

LEMMA KeepsUnchanged ==
  /\ UNCHANGED nad => KeepsNadCopies
  /\ UNCHANGED net => KeepsNetCopies
  /\ UNCHANGED hook => KeepsChoices
BY DEF KeepsNadCopies, KeepsNetCopies, KeepsChoices

LEMMA EnvironmentKeeps ==
  ASSUME Parts, Environment, UNCHANGED hook
  PROVE  Keeps
<1>1. KeepsNadCopies
  <2>1. ASSUME NEW v \in Nads, DeliverNad(v) PROVE KeepsNadCopies
    <3>1. nad[v] \in Stored(Claims)
      BY DEF Parts, NadPart
    <3>2. /\ Delivered(nad[v]).obj = nad[v].obj
          /\ Delivered(nad[v]).fresh = nad[v].fresh \cup {Cache}
      BY <3>1, DeliveredType
    <3> QED BY <2>1, <3>2, HolderAssumption
            DEF DeliverNad, KeepsNadCopies, Parts, NadPart
  <2>2. ASSUME ~ \E v \in Nads : DeliverNad(v) PROVE UNCHANGED nad
    BY <2>2 DEF Environment, CreateNetwork, TouchNetwork, DeliverNetwork, DeletePod,
                RemovePod, TouchPod, DeliverPod, Resync
  <2> QED BY <2>1, <2>2, KeepsUnchanged
<1>2. KeepsNetCopies
  <2>1. ASSUME NEW n \in Networks, NEW t, net' = [net EXCEPT ![n] = t],
               \A p \in Pods : p \in t.fresh => p \in net[n].fresh /\ t.obj = net[n].obj
        PROVE  KeepsNetCopies
    BY <2>1 DEF KeepsNetCopies, Parts, NetPart
  <2>2. ASSUME NEW n \in Networks
        PROVE  net[n] \in Stored(NetStatus \cup {None}) /\ NewStatus \in NetStatus \cup {None}
    BY DEF Parts, NetPart, NewStatus, NetStatus
  <2>3. ASSUME NEW n \in Networks, CreateNetwork(n) PROVE KeepsNetCopies
    <3>1. \/ Write(net[n], NewStatus) = net[n]
          \/ Write(net[n], NewStatus).fresh = {}
      BY <2>2, WriteType
    <3>2. net' = [net EXCEPT ![n] = Write(net[n], NewStatus)]
      BY <2>3 DEF CreateNetwork
    <3> QED BY <2>1, <3>1, <3>2
  <2>4. ASSUME NEW n \in Networks, TouchNetwork(n) PROVE KeepsNetCopies
    <3>1. Touched(net[n]).fresh = {}
      BY <2>2, TouchedType
    <3>2. net' = [net EXCEPT ![n] = Touched(net[n])]
      BY <2>4 DEF TouchNetwork
    <3> QED BY <2>1, <3>1, <3>2
  <2>5. ASSUME NEW n \in Networks, DeliverNetwork(n) PROVE KeepsNetCopies
    <3>1. /\ Delivered(net[n]).obj = net[n].obj
          /\ Delivered(net[n]).fresh = net[n].fresh \cup {Cache}
      BY <2>2, DeliveredType
    <3>2. net' = [net EXCEPT ![n] = Delivered(net[n])]
      BY <2>5 DEF DeliverNetwork
    <3> QED BY <2>1, <3>1, <3>2, HolderAssumption
  <2>6. ASSUME ~ \E n \in Networks : CreateNetwork(n) \/ TouchNetwork(n) \/ DeliverNetwork(n)
        PROVE  UNCHANGED net
    BY <2>6 DEF Environment, DeliverNad, DeletePod, RemovePod, TouchPod, DeliverPod, Resync
  <2> QED BY <2>3, <2>4, <2>5, <2>6, KeepsUnchanged
<1> QED BY <1>1, <1>2, KeepsUnchanged DEF Keeps

LEMMA ClaimKeeps ==
  ASSUME Parts, NEW p \in Pods, ClaimNetAttachDef(p)
  PROVE  Keeps
<1> DEFINE v == hook[p].nads[hook[p].next]
           claimed == [nad[v].obj EXCEPT ![hook[p].node] = p]
<1> USE PodIsHolder
<1>1. v \in Nads /\ hook[p].node \in Nodes
  BY HandlerAt DEF Parts, ClaimNetAttachDef
<1>2. nad[v] \in Stored(Claims) /\ claimed \in Claims
  BY <1>1 DEF Parts, NadPart, Stored, Claims
<1>3. PICK o \in UpdateOutcomes(nad[v], p, claimed) :
             nad' = [nad EXCEPT ![v] = Forgotten(o.after, p)]
  BY DEF ClaimNetAttachDef
<1> HIDE DEF claimed, v
<1> DEFINE t == Forgotten(o.after, p)
<1>4. (t.obj = nad[v].obj /\ t.fresh = nad[v].fresh \ {p}) \/ t.fresh = {}
  BY <1>2, UpdateForgottenType
<1>5. KeepsNadCopies
  BY <1>1, <1>3, <1>4 DEF KeepsNadCopies, Parts, NadPart
<1>6. KeepsChoices
  BY DEF ClaimNetAttachDef, KeepsChoices, Parts, HookPart, HookTypeOK, Handler
<1> QED BY <1>5, <1>6, KeepsUnchanged DEF Keeps, ClaimNetAttachDef

LEMMA RecordKeeps ==
  ASSUME Parts, NEW p \in Pods, RecordInNetwork(p)
  PROVE  Keeps
<1> DEFINE i == hook[p].next
           n == Requested[p][i].net
           written == IF Current(net[n], p)
                      THEN StatusWith(net[n].obj, p, i, hook[p].ips[i]) ELSE net[n].obj
<1> USE PodIsHolder
<1>1. n \in Networks
  BY HandlerAt DEF Parts, RecordInNetwork
<1>2. /\ net[n] \in Stored(NetStatus \cup {None})
      /\ \A q \in Pods : q \in net[n].fresh => net[n].obj # None
  BY <1>1 DEF Parts, NetPart, HandlerSeesNetwork
<1>3. written \in NetStatus \cup {None}
  <2>1. CASE p \in net[n].fresh
    <3>1. net[n].obj \in NetStatus
      BY <1>2, <2>1 DEF Stored
    <3>2. StatusWith(net[n].obj, p, i, hook[p].ips[i]) \in NetStatus
      BY <3>1, StatusWithType
    <3> QED BY <2>1, <3>2
  <2>2. CASE p \notin net[n].fresh
    BY <1>2, <2>2 DEF Stored
  <2> QED BY <2>1, <2>2
<1>4. PICK o \in UpdateOutcomes(net[n], p, written) :
             net' = [net EXCEPT ![n] = Forgotten(o.after, p)]
  BY DEF RecordInNetwork
<1> HIDE DEF written, n, i
<1> DEFINE t == Forgotten(o.after, p)
<1>5. (t.obj = net[n].obj /\ t.fresh = net[n].fresh \ {p}) \/ t.fresh = {}
  BY <1>2, <1>3, UpdateForgottenType
<1>6. KeepsNetCopies
  BY <1>1, <1>4, <1>5 DEF KeepsNetCopies, Parts, NetPart
<1>7. KeepsChoices
  <2>1. ASSUME NEW q \in Pods
        PROVE  /\ hook'[q].nads = hook[q].nads /\ hook'[q].node = hook[q].node
               /\ hook'[q].ips = hook[q].ips
    BY DEF RecordInNetwork, Parts, HookPart, HookTypeOK, Handler
  <2> QED BY <2>1 DEF KeepsChoices
<1> QED BY <1>6, <1>7, KeepsUnchanged DEF Keeps, RecordInNetwork

LEMMA RefuseKeeps ==
  ASSUME Parts, NEW p \in Pods, RefusePod(p)
  PROVE  Keeps
<1>1. KeepsNadCopies
  BY DEF RefusePod, KeepsNadCopies, Parts, NadPart, Stored, Forgotten
<1>2. KeepsNetCopies
  BY DEF RefusePod, KeepsNetCopies, Parts, NetPart, Stored, Forgotten
<1>3. KeepsChoices
  BY DEF RefusePod, KeepsChoices, NoHandler, Parts, HookPart, HookTypeOK
<1> QED BY <1>1, <1>2, <1>3 DEF Keeps

LEMMA ReleaseKeeps ==
  ASSUME Parts, ReleaseNetAttachDef, UNCHANGED hook
  PROVE  Keeps
<1> DEFINE v == work.copy.nads[work.next]
           released == [nad[v].cache EXCEPT ![work.copy.node] = None]
<1>1. v \in Nads /\ work.copy.node \in Nodes
  BY WorkType DEF Parts, ReleaseNetAttachDef, WorkingAt
<1>2. nad[v] \in Stored(Claims)
  BY <1>1 DEF Parts, NadPart
<1>3. released \in Claims
  BY <1>1, <1>2 DEF Stored, Claims
<1>4. PICK o \in UpdateOutcomes(nad[v], Cache, released) :
             nad' = [nad EXCEPT ![v] = o.after]
  BY DEF ReleaseNetAttachDef
<1> HIDE DEF released, v
<1>5. o.after \in Stored(Claims) /\ (o.after = nad[v] \/ o.after.fresh = {})
  BY <1>2, <1>3, UpdateType DEF Holders
<1>6. KeepsNadCopies
  BY <1>1, <1>4, <1>5 DEF KeepsNadCopies, Parts, NadPart
<1> QED BY <1>6, KeepsUnchanged DEF Keeps, ReleaseNetAttachDef

LEMMA RestartKeeps ==
  ASSUME Parts, Restart
  PROVE  Keeps
<1>1. KeepsNadCopies
  BY HolderAssumption DEF Restart, KeepsNadCopies, Parts, NadPart, Stored, New
<1>2. KeepsNetCopies
  BY HolderAssumption DEF Restart, KeepsNetCopies, Parts, NetPart, Stored, New
<1>3. KeepsChoices
  BY DEF Restart, KeepsChoices, NoHandler, Parts, HookPart, HookTypeOK
<1> QED BY <1>1, <1>2, <1>3 DEF Keeps

LEMMA NextKeeps ==
  ASSUME Parts, [Next]_vars
  PROVE  \/ Keeps
         \/ \E p \in Pods, m \in Nodes : \E nads \in [Slots(p) -> Nads] :
              Admit(p, m, nads) /\ UNCHANGED controllerVars
<1>1. CASE UNCHANGED vars
  BY <1>1, KeepsUnchanged DEF vars, clusterVars, Keeps
<1>2. CASE Environment /\ UNCHANGED <<hook, controllerVars>>
  BY <1>2, EnvironmentKeeps
<1>3. CASE Controller /\ UNCHANGED hook
  <2>1. CASE ReleaseNetAttachDef
    BY <1>3, <2>1, ReleaseKeeps
  <2>2. CASE ~ ReleaseNetAttachDef
    <3>1. UNCHANGED <<nad, net>>
      BY <1>3, <2>2 DEF Controller, WorkerStep, Ignore, BeginAttach, BeginCleanup, Start,
                   AddFinalizer, AttachPod, DetachPod, RemoveFinalizer
    <3> QED BY <1>3, <3>1, KeepsUnchanged DEF Keeps
  <2> QED BY <2>1, <2>2
<1>4. ASSUME NEW p \in Pods, NEW m \in Nodes, AdmitErrored(p, m) PROVE Keeps
  BY <1>4, KeepsUnchanged
     DEF AdmitErrored, Keeps, KeepsChoices, NoHandler, Parts, HookPart, HookTypeOK
<1>5. ASSUME NEW p \in Pods, PersistPod(p) PROVE Keeps
  BY <1>5, KeepsUnchanged
     DEF PersistPod, Keeps, KeepsChoices, NoHandler, Parts, HookPart, HookTypeOK
<1> QED BY <1>1, <1>2, <1>3, <1>4, <1>5, ClaimKeeps, RecordKeeps, RefuseKeeps,
           RestartKeeps DEF Next, Webhook
-----------------------------------------------------------------------------
(* An admission copies objects without changing them.                      *)

LEMMA AdmitCopies ==
  ASSUME Parts, NEW p \in Pods, NEW m \in Nodes, NEW nads \in [Slots(p) -> Nads],
         Admit(p, m, nads)
  PROVE  /\ \A v \in Nads :
              /\ nad'[v].obj = nad[v].obj
              /\ nad'[v].fresh \subseteq nad[v].fresh \cup {p}
         /\ \A n \in Networks :
              /\ net'[n].obj = net[n].obj
              /\ net'[n].fresh \subseteq net[n].fresh \cup {p}
         /\ \A i \in Slots(p) :
              p \in nad'[nads[i]].fresh => nad[nads[i]].cache = nad[nads[i]].obj
         /\ \A i \in Slots(p) :
              LET n == Requested[p][i].net
              IN  Known(p, i) /\ p \in net'[n].fresh => net[n].cache = net[n].obj
<1> USE PodIsHolder
<1>1. ASSUME NEW v \in Nads
      PROVE  /\ nad'[v].obj = nad[v].obj
             /\ nad'[v].fresh \subseteq nad[v].fresh \cup {p}
             /\ (\E i \in Slots(p) : nads[i] = v) /\ p \in nad'[v].fresh
                  => nad[v].cache = nad[v].obj
  <2>1. nad[v] \in Stored(Claims) /\ UpToDate(nad[v])
    BY DEF Parts, NadPart
  <2>2. /\ Copied(nad[v], p).obj = nad[v].obj
        /\ Copied(nad[v], p).fresh \subseteq nad[v].fresh \cup {p}
        /\ p \in Copied(nad[v], p).fresh => nad[v].cache = nad[v].obj
    BY <2>1, CopiedType
  <2>3. nad'[v] = IF \E i \in Slots(p) : nads[i] = v THEN Copied(nad[v], p) ELSE nad[v]
    BY DEF Admit
  <2> QED BY <2>2, <2>3
<1>2. ASSUME NEW n \in Networks
      PROVE  /\ net'[n].obj = net[n].obj
             /\ net'[n].fresh \subseteq net[n].fresh \cup {p}
             /\ (\E i \in Slots(p) : Requested[p][i].net = n /\ Known(p, i))
                   /\ p \in net'[n].fresh
                  => net[n].cache = net[n].obj
  <2>1. net[n] \in Stored(NetStatus \cup {None}) /\ UpToDate(net[n])
    BY DEF Parts, NetPart
  <2>2. /\ Copied(net[n], p).obj = net[n].obj
        /\ Copied(net[n], p).fresh \subseteq net[n].fresh \cup {p}
        /\ p \in Copied(net[n], p).fresh => net[n].cache = net[n].obj
    BY <2>1, CopiedType
  <2>3. net'[n] = IF \E i \in Slots(p) : Requested[p][i].net = n /\ Known(p, i)
                  THEN Copied(net[n], p) ELSE net[n]
    BY DEF Admit
  <2> QED BY <2>2, <2>3
<1>3. \A i \in Slots(p) : nads[i] \in Nads /\ Requested[p][i].net \in Networks
  BY SlotsType
<1> QED BY <1>1, <1>2, <1>3

(* The handler that an admission starts; the others stay as they are.      *)
LEMMA AdmitHandlers ==
  ASSUME Parts, NEW p \in Pods, NEW m \in Nodes, NEW nads \in [Slots(p) -> Nads],
         Admit(p, m, nads)
  PROVE  /\ hook'[p].nads = nads /\ hook'[p].node = m
         /\ hook'[p].ips = [i \in Slots(p) |-> AddressFor(p, i)]
         /\ \A q \in Pods : q # p => hook'[q] = hook[q]
<1> DEFINE h == [at |-> "claim", node |-> m, nads |-> nads,
                 ips |-> [i \in Slots(p) |-> AddressFor(p, i)], next |-> 1]
<1>1. hook' = [hook EXCEPT ![p] = h]
  BY DEF Admit
<1>2. hook \in [Pods -> Handler]
  BY DEF Parts, HookPart, HookTypeOK
<1> QED BY <1>1, <1>2

(* The attachments a handler chose.                                        *)
LEMMA ChosenNad ==
  ASSUME Parts, NEW p \in Pods, NEW i \in DOMAIN hook[p].nads
  PROVE  hook[p].nads[i] \in Nads
BY HandlerType, ElementOfSeq, LenProperties DEF Parts, Handler

-----------------------------------------------------------------------------
(* The attachment a handler chose is still free when its label is written. *)

LEMMA SeesFreeStep ==
  ASSUME Parts, HandlerSeesFree, [Next]_vars
  PROVE  HandlerSeesFree'
<1>1. CASE Keeps
  <2>1. ASSUME NEW p \in Pods, NEW i \in DOMAIN hook'[p].nads,
               p \in nad'[hook'[p].nads[i]].fresh
        PROVE  nad'[hook'[p].nads[i]].obj[hook'[p].node] = None
    <3>1. hook'[p].nads = hook[p].nads /\ hook'[p].node = hook[p].node
      BY <1>1, <2>1 DEF Keeps, KeepsChoices
    <3>2. hook[p].nads[i] \in Nads
      BY <3>1, ChosenNad
    <3>3. /\ p \in nad[hook[p].nads[i]].fresh
          /\ nad'[hook[p].nads[i]].obj = nad[hook[p].nads[i]].obj
      BY <1>1, <2>1, <3>1, <3>2 DEF Keeps, KeepsNadCopies
    <3> QED BY <3>1, <3>3 DEF HandlerSeesFree
  <2> QED BY <2>1 DEF HandlerSeesFree
<1>2. ASSUME NEW q \in Pods, NEW m \in Nodes, NEW nads \in [Slots(q) -> Nads],
             Admit(q, m, nads)
      PROVE  HandlerSeesFree'
  <2>1. ASSUME NEW p \in Pods, NEW i \in DOMAIN hook'[p].nads,
               p \in nad'[hook'[p].nads[i]].fresh
        PROVE  nad'[hook'[p].nads[i]].obj[hook'[p].node] = None
    <3>1. CASE p = q
      <4>1. i \in Slots(q) /\ hook'[p].nads[i] = nads[i] /\ hook'[p].node = m
        BY <1>2, <3>1, AdmitHandlers
      <4>2. nads[i] \in Nads /\ nad[nads[i]].cache[m] = None
        BY <1>2, <4>1 DEF Admit, FreeNetAttachDefs
      <4>3. /\ nad'[nads[i]].obj = nad[nads[i]].obj
            /\ nad[nads[i]].cache = nad[nads[i]].obj
        BY <1>2, <2>1, <3>1, <4>1, <4>2, AdmitCopies
      <4> QED BY <4>1, <4>2, <4>3
    <3>2. CASE p # q
      <4>1. hook'[p] = hook[p]
        BY <1>2, <3>2, AdmitHandlers
      <4>2. hook[p].nads[i] \in Nads
        BY <4>1, ChosenNad
      <4>3. /\ p \in nad[hook[p].nads[i]].fresh
            /\ nad'[hook[p].nads[i]].obj = nad[hook[p].nads[i]].obj
        BY <1>2, <2>1, <3>2, <4>1, <4>2, AdmitCopies
      <4> QED BY <4>1, <4>3 DEF HandlerSeesFree
    <3> QED BY <3>1, <3>2
  <2> QED BY <2>1 DEF HandlerSeesFree
<1> QED BY <1>1, <1>2, NextKeeps

(* The inductive invariant: types, and every handler whose copy of the     *)
(* attachment it chose is the latest one still sees it free.               *)
THEOREM SeesFreeHolds == Spec => [](TypeInv /\ HandlerSeesFree)
<1>1. Init => TypeInv /\ HandlerSeesFree
  <2>1. ASSUME Init PROVE HandlerSeesFree
    BY <2>1 DEF Init, HookInit, NoHandler, HandlerSeesFree
  <2> QED BY <2>1, InitType, TypeInvParts
<1>2. TypeInv /\ HandlerSeesFree /\ [Next]_vars => TypeInv' /\ HandlerSeesFree'
  BY NextType, SeesFreeStep, TypeInvParts, TypeInvPartsPrime
<1> QED BY <1>1, <1>2, PTL DEF Spec
-----------------------------------------------------------------------------
(* The refinement of PortClaims. Nobody but a claiming handler and the     *)
(* cleanup of the controller changes a label.                              *)

SameLabels == \A v \in Nads : nad'[v].obj = nad[v].obj

LEMMA LabelsChange ==
  ASSUME Parts, [Next]_vars
  PROVE  \/ SameLabels
         \/ \E p \in Pods : ClaimNetAttachDef(p)
         \/ ReleaseNetAttachDef
<1>1. UNCHANGED nad => SameLabels
  BY DEF SameLabels
<1>2. CASE UNCHANGED vars
  BY <1>1, <1>2 DEF vars, clusterVars
<1>3. CASE Environment
  <2>1. ASSUME NEW v \in Nads, DeliverNad(v) PROVE SameLabels
    <3>1. nad[v] \in Stored(Claims)
      BY DEF Parts, NadPart
    <3>2. Delivered(nad[v]).obj = nad[v].obj
      BY <3>1, DeliveredType
    <3> QED BY <2>1, <3>2 DEF DeliverNad, SameLabels, Parts, NadPart
  <2>2. ASSUME ~ \E v \in Nads : DeliverNad(v) PROVE UNCHANGED nad
    BY <1>3, <2>2 DEF Environment, CreateNetwork, TouchNetwork, DeliverNetwork, DeletePod,
                      RemovePod, TouchPod, DeliverPod, Resync
  <2> QED BY <1>1, <2>1, <2>2
<1>4. CASE Webhook
  <2>1. ASSUME NEW p \in Pods, NEW m \in Nodes, NEW nads \in [Slots(p) -> Nads],
               Admit(p, m, nads)
        PROVE  SameLabels
    BY <2>1, AdmitCopies DEF SameLabels
  <2>2. ASSUME NEW p \in Pods, RefusePod(p) PROVE SameLabels
    BY <2>2 DEF RefusePod, SameLabels, Parts, NadPart, Stored, Forgotten
  <2>3. ASSUME NEW p \in Pods,
               RecordInNetwork(p) \/ PersistPod(p) \/ \E m \in Nodes : AdmitErrored(p, m)
        PROVE  UNCHANGED nad
    BY <2>3 DEF RecordInNetwork, PersistPod, AdmitErrored
  <2> QED BY <1>1, <1>4, <2>1, <2>2, <2>3 DEF Webhook
<1>5. CASE Controller /\ ~ ReleaseNetAttachDef
  <2>1. UNCHANGED nad
    BY <1>5 DEF Controller, WorkerStep, Ignore, BeginAttach, BeginCleanup, Start,
                AddFinalizer, AttachPod, DetachPod, RemoveFinalizer
  <2> QED BY <1>1, <2>1
<1>6. CASE Restart
  BY <1>6 DEF Restart, SameLabels, New
<1> QED BY <1>2, <1>3, <1>4, <1>5, <1>6 DEF Next

(* What the two steps do to the labels.                                    *)
LEMMA ClaimStep ==
  ASSUME Parts, HandlerSeesFree, NEW p \in Pods, ClaimNetAttachDef(p)
  PROVE  LET v == hook[p].nads[hook[p].next]
             m == hook[p].node
         IN  \/ SameLabels
             \/ /\ v \in Nads /\ m \in Nodes
                /\ nad[v].obj[m] = None
                /\ nad'[v].obj = [nad[v].obj EXCEPT ![m] = p]
                /\ \A w \in Nads \ {v} : nad'[w].obj = nad[w].obj
<1> DEFINE v == hook[p].nads[hook[p].next]
           m == hook[p].node
           claimed == [nad[v].obj EXCEPT ![m] = p]
<1> USE PodIsHolder
<1>1. v \in Nads /\ m \in Nodes
  BY HandlerAt DEF Parts, ClaimNetAttachDef
<1>2. nad \in [Nads -> Stored(Claims)] /\ nad[v] \in Stored(Claims)
  BY <1>1 DEF Parts, NadPart
<1>3. claimed \in Claims
  BY <1>1, <1>2 DEF Stored, Claims
<1>4. p \in nad[v].fresh => nad[v].obj[m] = None
  <2>1. hook[p].next \in Slots(p) /\ Lists(p, hook[p].nads)
    BY HandlerType DEF Parts, ClaimNetAttachDef, WellFormed
  <2>2. hook[p].next \in DOMAIN hook[p].nads
    BY <2>1 DEF Lists
  <2> QED BY <2>2 DEF HandlerSeesFree
<1>5. PICK o \in UpdateOutcomes(nad[v], p, claimed) :
             nad' = [nad EXCEPT ![v] = Forgotten(o.after, p)]
  BY DEF ClaimNetAttachDef
<1>6. claimed = [nad[v].obj EXCEPT ![m] = p]
  OBVIOUS
<1> HIDE DEF claimed, v, m
<1> DEFINE t == Forgotten(o.after, p)
<1>7. t.obj = nad[v].obj \/ (p \in nad[v].fresh /\ t.obj = claimed)
  BY <1>2, <1>3, UpdateForgottenType
<1>8. nad'[v] = t /\ \A w \in Nads \ {v} : nad'[w] = nad[w]
  BY <1>1, <1>2, <1>5
<1>9. CASE t.obj = nad[v].obj
  BY <1>8, <1>9 DEF SameLabels
<1>10. CASE p \in nad[v].fresh /\ t.obj = claimed
  <2>1. /\ v \in Nads /\ m \in Nodes
        /\ nad[v].obj[m] = None
        /\ nad'[v].obj = [nad[v].obj EXCEPT ![m] = p]
        /\ \A w \in Nads \ {v} : nad'[w].obj = nad[w].obj
    BY <1>1, <1>4, <1>6, <1>8, <1>10
  <2> QED BY <2>1 DEF v, m
<1> QED BY <1>7, <1>9, <1>10

LEMMA ReleaseStep ==
  ASSUME Parts, ReleaseNetAttachDef
  PROVE  \/ SameLabels
         \/ \E v \in Nads, m \in Nodes :
              /\ nad'[v].obj = [nad[v].obj EXCEPT ![m] = None]
              /\ \A w \in Nads \ {v} : nad'[w].obj = nad[w].obj
<1> DEFINE v == work.copy.nads[work.next]
           m == work.copy.node
           released == [nad[v].cache EXCEPT ![m] = None]
<1>1. v \in Nads /\ m \in Nodes
  BY WorkType DEF Parts, ReleaseNetAttachDef, WorkingAt
<1>2. /\ nad \in [Nads -> Stored(Claims)] /\ nad[v] \in Stored(Claims)
      /\ UpToDate(nad[v])
  BY <1>1 DEF Parts, NadPart
<1>3. released \in Claims
  BY <1>1, <1>2 DEF Stored, Claims
<1>4. PICK o \in UpdateOutcomes(nad[v], Cache, released) :
             nad' = [nad EXCEPT ![v] = o.after]
  BY DEF ReleaseNetAttachDef
<1>5. Cache \in nad[v].fresh => released = [nad[v].obj EXCEPT ![m] = None]
  BY <1>2
<1> HIDE DEF released, v, m
<1>6. /\ o.after \in Stored(Claims)
      /\ o.after = nad[v] \/ (Cache \in nad[v].fresh /\ o.after.obj = released)
  BY <1>2, <1>3, UpdateType DEF Holders
<1>7. nad'[v] = o.after /\ \A w \in Nads \ {v} : nad'[w] = nad[w]
  BY <1>1, <1>2, <1>4
<1>8. CASE o.after = nad[v]
  BY <1>7, <1>8 DEF SameLabels
<1>9. CASE Cache \in nad[v].fresh /\ o.after.obj = released
  BY <1>1, <1>5, <1>7, <1>9
<1> QED BY <1>6, <1>8, <1>9

(* Who a port is labelled for, as PortClaims sees it.                      *)
Owner == [s \in Nads \X Nodes |-> nad[s[1]].obj[s[2]]]

LEMMA OwnerStep ==
  ASSUME Parts, NEW v \in Nads, NEW m \in Nodes, NEW x \in Pods \cup {None},
         nad'[v].obj = [nad[v].obj EXCEPT ![m] = x],
         \A w \in Nads \ {v} : nad'[w].obj = nad[w].obj
  PROVE  Owner' = [Owner EXCEPT ![<<v, m>>] = x]
<1>1. nad[v].obj \in [Nodes -> Pods \cup {None}]
  BY DEF Parts, NadPart, Stored, Claims
<1>2. ASSUME NEW s \in Nads \X Nodes
      PROVE  nad'[s[1]].obj[s[2]] = [Owner EXCEPT ![<<v, m>>] = x][s]
  <2>1. PICK w \in Nads, k \in Nodes : s = <<w, k>>
    OBVIOUS
  <2>2. CASE w = v
    BY <1>1, <2>1, <2>2 DEF Owner
  <2>3. CASE w # v
    BY <2>1, <2>3 DEF Owner
  <2> QED BY <2>2, <2>3
<1> QED BY <1>2 DEF Owner

LEMMA ClaimsStep ==
  ASSUME Parts, HandlerSeesFree, [Next]_vars
  PROVE  [Claimed!Next]_Owner
<1>1. CASE SameLabels
  BY <1>1 DEF SameLabels, Owner
<1>2. ASSUME NEW v \in Nads, NEW m \in Nodes, NEW p \in Pods,
             nad[v].obj[m] = None,
             nad'[v].obj = [nad[v].obj EXCEPT ![m] = p],
             \A w \in Nads \ {v} : nad'[w].obj = nad[w].obj
      PROVE  Claimed!Next
  <2>1. Owner' = [Owner EXCEPT ![<<v, m>>] = p]
    BY <1>2, OwnerStep
  <2>2. <<v, m>> \in Nads \X Nodes
    OBVIOUS
  <2>3. Owner[<<v, m>>] = None
    BY <1>2, <2>2 DEF Owner
  <2>4. Claimed!Acquire(<<v, m>>, p)
    BY <2>1, <2>3 DEF Claimed!Acquire, Owner
  <2> QED BY <2>2, <2>4 DEF Claimed!Next
<1>3. ASSUME NEW v \in Nads, NEW m \in Nodes,
             nad'[v].obj = [nad[v].obj EXCEPT ![m] = None],
             \A w \in Nads \ {v} : nad'[w].obj = nad[w].obj
      PROVE  [Claimed!Next]_Owner
  <2>1. Owner' = [Owner EXCEPT ![<<v, m>>] = None]
    BY <1>3, OwnerStep
  <2>2. <<v, m>> \in Nads \X Nodes
    OBVIOUS
  <2>3. CASE Owner[<<v, m>>] = None
    BY <2>1, <2>2, <2>3 DEF Owner
  <2>4. CASE Owner[<<v, m>>] # None
    <3>1. Claimed!Free(<<v, m>>)
      BY <2>1, <2>4 DEF Claimed!Free, Owner
    <3> QED BY <2>2, <3>1 DEF Claimed!Next
  <2> QED BY <2>3, <2>4
<1>4. ASSUME NEW p \in Pods, ClaimNetAttachDef(p), ~ SameLabels
      PROVE  [Claimed!Next]_Owner
  <2> DEFINE v == hook[p].nads[hook[p].next]
             m == hook[p].node
  <2>1. /\ v \in Nads /\ m \in Nodes
        /\ nad[v].obj[m] = None
        /\ nad'[v].obj = [nad[v].obj EXCEPT ![m] = p]
        /\ \A w \in Nads \ {v} : nad'[w].obj = nad[w].obj
    BY <1>4, ClaimStep
  <2> HIDE DEF v, m
  <2> QED BY <2>1, <1>2
<1>5. ASSUME ReleaseNetAttachDef, ~ SameLabels
      PROVE  [Claimed!Next]_Owner
  <2>1. PICK v \in Nads, m \in Nodes :
               /\ nad'[v].obj = [nad[v].obj EXCEPT ![m] = None]
               /\ \A w \in Nads \ {v} : nad'[w].obj = nad[w].obj
    BY <1>5, ReleaseStep
  <2> QED BY <2>1, <1>3
<1> QED BY <1>1, <1>4, <1>5, LabelsChange

(* The labels implement PortClaims: however admissions, cleanups, failed   *)
(* requests and restarts interleave, a port that is labelled for one pod   *)
(* is never labelled for another one without being freed in between.       *)
THEOREM ClaimsImplemented == Spec => ClaimSpec
<1>1. Init => Claimed!Init
  BY DEF Init, ClusterInit, New, Claimed!Init
<1>2. TypeInv /\ HandlerSeesFree /\ [Next]_vars => [Claimed!Next]_Owner
  BY ClaimsStep, TypeInvParts
<1> QED BY <1>1, <1>2, SeesFreeHolds, PTL DEF Spec, ClaimSpec, Claimed!Spec, Owner
-----------------------------------------------------------------------------
(* The address a handler computed is still free when it is recorded.       *)

AddressesInv == HandlerSeesUnassigned /\ HandlerKeepsRequest

(* The address ip of p in its i-th network, whose object is s.             *)
GoodAddress(p, i, ip, s) ==
  /\ IsDynamic(p, i) /\ p \in s.fresh /\ ip \in Ips /\ s.obj # None
       => s.obj.assigned[ip] = None
  /\ ~ IsDynamic(p, i) => ip = Requested[p][i].ip

AddressesGood ==
  \A p \in Pods : \A i \in Slots(p) :
    i \in DOMAIN hook[p].ips => GoodAddress(p, i, hook[p].ips[i], net[Requested[p][i].net])

LEMMA AddressesInvGood ==
  (AddressesInv <=> AddressesGood) /\ (AddressesInv' <=> AddressesGood')
<1>1. AddressesInv <=> AddressesGood
  BY DEF AddressesInv, AddressesGood, GoodAddress, HandlerSeesUnassigned,
         HandlerKeepsRequest
<1>2. AddressesInv' <=> AddressesGood'
  BY DEF AddressesInv, AddressesGood, GoodAddress, HandlerSeesUnassigned,
         HandlerKeepsRequest, IsDynamic
<1> QED BY <1>1, <1>2

LEMMA AddressesStep ==
  ASSUME Parts, AddressesGood, [Next]_vars
  PROVE  AddressesGood'
<1>1. \A p \in Pods : \A i \in Slots(p) : Requested[p][i].net \in Networks
  BY SlotsType
(* A handler that goes on with the same choices.                           *)
<1>2. ASSUME NEW p \in Pods, NEW i \in Slots(p), i \in DOMAIN hook'[p].ips,
             hook'[p].ips = hook[p].ips,
             LET n == Requested[p][i].net
             IN  (net'[n].obj = net[n].obj /\ p \in net[n].fresh) \/ p \notin net'[n].fresh
      PROVE  GoodAddress(p, i, hook'[p].ips[i], net'[Requested[p][i].net])
  BY <1>2 DEF AddressesGood, GoodAddress
<1>3. CASE Keeps
  <2>1. ASSUME NEW p \in Pods, NEW i \in Slots(p), i \in DOMAIN hook'[p].ips
        PROVE  GoodAddress(p, i, hook'[p].ips[i], net'[Requested[p][i].net])
    <3>1. hook'[p].ips = hook[p].ips
      BY <1>3, <2>1 DEF Keeps, KeepsChoices
    <3>2. LET n == Requested[p][i].net
          IN  (net'[n].obj = net[n].obj /\ p \in net[n].fresh) \/ p \notin net'[n].fresh
      BY <1>1, <1>3 DEF Keeps, KeepsNetCopies
    <3> QED BY <1>2, <2>1, <3>1, <3>2
  <2> QED BY <2>1 DEF AddressesGood
<1>4. ASSUME NEW q \in Pods, NEW m \in Nodes, NEW nads \in [Slots(q) -> Nads],
             Admit(q, m, nads)
      PROVE  AddressesGood'
  <2>1. ASSUME NEW p \in Pods, NEW i \in Slots(p), i \in DOMAIN hook'[p].ips
        PROVE  GoodAddress(p, i, hook'[p].ips[i], net'[Requested[p][i].net])
    <3>1. CASE p # q
      <4>1. hook'[p].ips = hook[p].ips
        BY <1>4, <3>1, AdmitHandlers
      <4>2. LET n == Requested[p][i].net
            IN  (net'[n].obj = net[n].obj /\ p \in net[n].fresh) \/ p \notin net'[n].fresh
        BY <1>1, <1>4, <3>1, AdmitCopies
      <4> QED BY <1>2, <2>1, <4>1, <4>2
    <3>2. CASE p = q
      <4> DEFINE n == Requested[p][i].net
                 taken == {a \in Ips : net[n].cache.assigned[a] # None}
      <4> DEFINE ips == [j \in Slots(p) |-> AddressFor(p, j)]
      <4>1. hook'[p].ips = ips
        BY <1>4, <3>2, AdmitHandlers
      <4>2. hook'[p].ips[i] = AddressFor(p, i)
        BY <4>1
      <4>3. n \in Networks /\ Requested[p][i].ip \in Ips \cup {None}
        BY SlotsType
      <4>4. CASE ~ (IsDynamic(p, i) /\ Known(p, i))
        <5>1. hook'[p].ips[i] = Requested[p][i].ip
          BY <4>2, <4>4 DEF AddressFor
        <5>2. IsDynamic(p, i) => hook'[p].ips[i] \notin Ips
          BY <5>1, ClusterAssumption DEF IsDynamic
        <5> QED BY <5>1, <5>2 DEF GoodAddress
      <4>5. CASE IsDynamic(p, i) /\ Known(p, i)
        <5>1. i \in 1 .. i
          BY SlotsType
        <5>2. net[n].cache # None
          BY <4>5, <5>1 DEF Known
        <5>3. net[n].cache \in NetStatus
          BY <4>3, <5>2 DEF Parts, NetPart, Stored
        <5>4. net[n].cache.last \in Octets \cup {NoAddress}
          BY <5>3, WebhookAssumption DEF NetStatus
        <5>5. hook'[p].ips[i] = GetNextAvailableIP(net[n].cache.last, taken)
          BY <4>2, <4>5 DEF AddressFor
        <5>6. hook'[p].ips[i] \in Ips => net[n].cache.assigned[hook'[p].ips[i]] = None
          BY <5>4, <5>5, AnswerIsFree, WebhookAssumption
        <5>7. /\ net'[n].obj = net[n].obj
              /\ p \in net'[n].fresh => net[n].cache = net[n].obj
          BY <1>4, <3>2, <4>3, <4>5, AdmitCopies
        <5> QED BY <4>5, <5>6, <5>7 DEF GoodAddress
      <4> QED BY <4>4, <4>5
    <3> QED BY <3>1, <3>2
  <2> QED BY <2>1 DEF AddressesGood
<1> QED BY <1>3, <1>4, NextKeeps

(* The inductive invariant of the addresses: a handler whose copy of a     *)
(* network is the latest one still sees the address it computed unassigned.*)
THEOREM SeesUnassignedHolds == Spec => [](TypeInv /\ AddressesInv)
<1>1. Init => TypeInv /\ AddressesInv
  <2>1. ASSUME Init PROVE AddressesInv
    BY <2>1 DEF Init, HookInit, NoHandler, AddressesInv, HandlerSeesUnassigned,
                HandlerKeepsRequest
  <2> QED BY <2>1, InitType, TypeInvParts
<1>2. TypeInv /\ AddressesInv /\ [Next]_vars => TypeInv' /\ AddressesInv'
  BY NextType, AddressesStep, AddressesInvGood, TypeInvParts, TypeInvPartsPrime
<1> QED BY <1>1, <1>2, PTL DEF Spec

(* Who changes what is recorded in a network that exists.                  *)
SameRecords == \A n \in Networks : net[n].obj # None => net'[n].obj = net[n].obj

LEMMA RecordsChange ==
  ASSUME Parts, [Next]_vars
  PROVE  SameRecords \/ \E p \in Pods : RecordInNetwork(p)
<1>1. UNCHANGED net => SameRecords
  BY DEF SameRecords
<1>2. CASE UNCHANGED vars
  BY <1>1, <1>2 DEF vars, clusterVars
<1>3. CASE Environment
  <2>1. ASSUME NEW n \in Networks, NEW t, net' = [net EXCEPT ![n] = t],
               t.obj = net[n].obj \/ net[n].obj = None
        PROVE  SameRecords
    BY <2>1 DEF SameRecords, Parts, NetPart
  <2>2. ASSUME NEW n \in Networks, CreateNetwork(n) PROVE SameRecords
    <3>1. net' = [net EXCEPT ![n] = Write(net[n], NewStatus)] /\ net[n].obj = None
      BY <2>2 DEF CreateNetwork
    <3> QED BY <2>1, <3>1
  <2>3. ASSUME NEW n \in Networks PROVE net[n] \in Stored(NetStatus \cup {None})
    BY DEF Parts, NetPart
  <2>4. ASSUME NEW n \in Networks, TouchNetwork(n) PROVE SameRecords
    <3>1. net' = [net EXCEPT ![n] = Touched(net[n])]
      BY <2>4 DEF TouchNetwork
    <3>2. Touched(net[n]).obj = net[n].obj
      BY <2>3, TouchedType
    <3> QED BY <2>1, <3>1, <3>2
  <2>5. ASSUME NEW n \in Networks, DeliverNetwork(n) PROVE SameRecords
    <3>1. net' = [net EXCEPT ![n] = Delivered(net[n])]
      BY <2>5 DEF DeliverNetwork
    <3>2. Delivered(net[n]).obj = net[n].obj
      BY <2>3, DeliveredType
    <3> QED BY <2>1, <3>1, <3>2
  <2>6. ASSUME ~ \E n \in Networks : CreateNetwork(n) \/ TouchNetwork(n) \/ DeliverNetwork(n)
        PROVE  UNCHANGED net
    BY <1>3, <2>6 DEF Environment, DeliverNad, DeletePod, RemovePod, TouchPod, DeliverPod,
                      Resync
  <2> QED BY <1>1, <2>2, <2>4, <2>5, <2>6
<1>4. CASE Webhook
  <2>1. ASSUME NEW p \in Pods, NEW m \in Nodes, NEW nads \in [Slots(p) -> Nads],
               Admit(p, m, nads)
        PROVE  SameRecords
    BY <2>1, AdmitCopies DEF SameRecords
  <2>2. ASSUME NEW p \in Pods, RefusePod(p) PROVE SameRecords
    BY <2>2 DEF RefusePod, SameRecords, Parts, NetPart, Stored, Forgotten
  <2>3. ASSUME NEW p \in Pods,
               ClaimNetAttachDef(p) \/ PersistPod(p) \/ \E m \in Nodes : AdmitErrored(p, m)
        PROVE  UNCHANGED net
    BY <2>3 DEF ClaimNetAttachDef, PersistPod, AdmitErrored
  <2> QED BY <1>1, <1>4, <2>1, <2>2, <2>3 DEF Webhook
<1>5. CASE Controller
  <2>1. UNCHANGED net
    BY <1>5 DEF Controller, WorkerStep, Ignore, BeginAttach, BeginCleanup, Start,
                AddFinalizer, AttachPod, DetachPod, ReleaseNetAttachDef, RemoveFinalizer
  <2> QED BY <1>1, <2>1
<1>6. CASE Restart
  BY <1>6 DEF Restart, SameRecords, New
<1> QED BY <1>2, <1>3, <1>4, <1>5, <1>6 DEF Next

(* What a handler writes is the status it saw with one address more.       *)
LEMMA RecordStep ==
  ASSUME Parts, AddressesGood, NEW p \in Pods, RecordInNetwork(p),
         NEW n \in Networks, NEW a \in Ips,
         net[n].obj # None, net[n].obj.assigned[a] # None
  PROVE  \/ net'[n].obj.assigned[a] = net[n].obj.assigned[a]
         \/ /\ net'[n].obj.assigned[a] = p
            /\ \E i \in Slots(p) : Requested[p][i] = [net |-> n, ip |-> a]
<1> DEFINE i == hook[p].next
           k == Requested[p][i].net
           ip == hook[p].ips[i]
           status == net[k].obj
           written == IF Current(net[k], p) THEN StatusWith(status, p, i, ip) ELSE status
<1> USE PodIsHolder
<1>1. /\ k \in Networks /\ i \in Slots(p) /\ i \in DOMAIN hook[p].ips
  BY HandlerAt, HandlerType DEF Parts, RecordInNetwork, WellFormed
<1>2. /\ net \in [Networks -> Stored(NetStatus \cup {None})]
      /\ net[k] \in Stored(NetStatus \cup {None})
      /\ p \in net[k].fresh => net[k].obj # None
  BY <1>1 DEF Parts, NetPart, HandlerSeesNetwork
<1>3. p \in net[k].fresh => status \in NetStatus /\ StatusWith(status, p, i, ip) \in NetStatus
  <2>1. p \in net[k].fresh => status \in NetStatus
    BY <1>2 DEF Stored
  <2> QED BY <2>1, StatusWithType
<1>4. written \in NetStatus \cup {None}
  BY <1>2, <1>3 DEF Stored
<1>5. GoodAddress(p, i, ip, net[k])
  BY <1>1 DEF AddressesGood
<1>6. PICK o \in UpdateOutcomes(net[k], p, written) :
             net' = [net EXCEPT ![k] = Forgotten(o.after, p)]
  BY DEF RecordInNetwork
<1>7. p \in net[k].fresh => written = StatusWith(status, p, i, ip)
  OBVIOUS
<1> HIDE DEF written
<1> DEFINE t == Forgotten(o.after, p)
<1>8. t.obj = net[k].obj \/ (p \in net[k].fresh /\ t.obj = written)
  BY <1>2, <1>4, UpdateForgottenType
<1>9. net'[n] = IF n = k THEN t ELSE net[n]
  BY <1>1, <1>2, <1>6
<1>10. CASE n # k \/ t.obj = net[k].obj
  BY <1>9, <1>10
<1>11. CASE n = k /\ p \in net[k].fresh /\ t.obj = StatusWith(status, p, i, ip)
  <2> DEFINE after == IF Requested[p][i].ip # None \/ IsDynamic(p, i)
                      THEN [status.assigned EXCEPT ![Recordable(ip)] = p]
                      ELSE status.assigned
  <2>1. StatusWith(status, p, i, ip).assigned = after
    BY DEF StatusWith
  <2>2. net'[n] = t
    BY <1>9, <1>11
  <2>3. net'[n].obj.assigned = after
    BY <1>11, <2>1, <2>2
  <2>4. status.assigned \in [Ips \cup {None} -> Pods \cup {None}]
    BY <1>3, <1>11 DEF NetStatus
  <2>5. CASE a # Recordable(ip) \/ ~ (Requested[p][i].ip # None \/ IsDynamic(p, i))
    BY <1>11, <2>3, <2>4, <2>5
  <2>6. CASE a = Recordable(ip) /\ (Requested[p][i].ip # None \/ IsDynamic(p, i))
    <3>1. ip = a /\ ip \in Ips
      BY <2>6, ClusterAssumption DEF Recordable
    <3>2. ~ IsDynamic(p, i)
      BY <1>5, <1>11, <3>1 DEF GoodAddress
    <3>3. Requested[p][i].ip = a /\ Requested[p][i].net = n
      BY <1>5, <1>11, <3>1, <3>2 DEF GoodAddress
    <3>4. Requested[p][i] \in Request
      BY <1>1, SlotsType, ElementOfSeq
    <3>5. Requested[p][i] = [net |-> n, ip |-> a]
      BY <3>3, <3>4 DEF Request
    <3>6. net'[n].obj.assigned[a] = p
      BY <2>3, <2>4, <2>6
    <3> QED BY <1>1, <3>5, <3>6
  <2> QED BY <2>5, <2>6
<1> QED BY <1>7, <1>8, <1>10, <1>11

(* An address recorded for a pod in a network's AssignedIPs is given to    *)
(* nobody else who did not ask for that very address, although concurrent  *)
(* admissions compute their addresses from copies that may be stale.       *)
THEOREM RecordedAddressKeptHolds == Spec => RecordedAddressKept
<1> DEFINE Kept ==
      \A n \in Networks, a \in Ips :
       net[n].obj # None /\ net[n].obj.assigned[a] # None
         => LET p == net'[n].obj.assigned[a]
            IN  \/ p = net[n].obj.assigned[a]
                \/ \E i \in Slots(p) : Requested[p][i] = [net |-> n, ip |-> a]
<1>1. ASSUME TypeInv, AddressesInv, [Next]_vars PROVE Kept
  <2>1. Parts /\ AddressesGood
    BY <1>1, TypeInvParts, AddressesInvGood
  <2>2. CASE SameRecords
    BY <2>2 DEF SameRecords
  <2>3. ASSUME NEW p \in Pods, RecordInNetwork(p) PROVE Kept
    BY <2>1, <2>3, RecordStep
  <2> QED BY <1>1, <2>1, <2>2, <2>3, RecordsChange
<1>2. TypeInv /\ AddressesInv /\ [Next]_vars => [Kept]_vars
  BY <1>1
<1> QED BY <1>2, SeesUnassignedHolds, PTL DEF Spec, RecordedAddressKept
-----------------------------------------------------------------------------
(* What a step does to one pod.                                            *)

Edited(p) ==
  /\ Exists(p) /\ pod'[p].obj # None
  /\ SamePorts(pod[p].obj, pod'[p].obj)
  /\ pod[p].obj.fin => pod'[p].obj.fin

Removed(p) == Exists(p) /\ ~ pod[p].obj.fin /\ pod'[p].obj = None

Unfinalized(p) ==
  /\ RemoveFinalizer /\ p = work.pod
  /\ pod[p].obj = work.copy /\ Exists(p) /\ pod'[p].obj # None
  /\ SamePorts(pod[p].obj, pod'[p].obj)

Persisted(p) ==
  /\ hook[p].at = "reply" /\ hook'[p].at = "done"
  /\ pod'[p].obj = Created(p)

PodStep(p) ==
  /\ pod'[p].obj = pod[p].obj \/ Edited(p) \/ Removed(p) \/ Unfinalized(p) \/ Persisted(p)
  /\ \/ pod'[p].cache = pod[p].cache
     \/ pod'[p].obj = pod[p].obj /\ pod'[p].cache = pod[p].obj

(* A step that changes one pod, or none.                                   *)
LEMMA OnePodStep ==
  ASSUME Parts, NEW p \in Pods, NEW t \in Stored(PodObject \cup {None}),
         pod' = [pod EXCEPT ![p] = t], pod'[p] = t => PodStep(p)
  PROVE  \A q \in Pods : PodStep(q)
<1>1. pod'[p] = t /\ \A q \in Pods : q # p => pod'[q] = pod[q]
  BY DEF Parts, PodPart
<1> QED BY <1>1 DEF PodStep

LEMMA NoPodStep == UNCHANGED pod => \A q \in Pods : PodStep(q)
BY DEF PodStep

LEMMA EnvironmentPodStep ==
  ASSUME Parts, Environment
  PROVE  \A q \in Pods : PodStep(q)
<1>1. \A p \in Pods : pod[p] \in Stored(PodObject \cup {None})
  BY DEF Parts, PodPart
<1>2. ASSUME NEW p \in Pods, DeletePod(p) PROVE \A q \in Pods : PodStep(q)
  <2> DEFINE new == [pod[p].obj EXCEPT !.del = TRUE]
             t == Write(pod[p], new)
  <2>1. pod[p].obj \in PodObject /\ Exists(p)
    BY <1>2, PodObjectType DEF DeletePod, Exists
  <2>2. /\ new \in PodObject \cup {None} /\ new # None
        /\ new.node = pod[p].obj.node /\ new.nads = pod[p].obj.nads
        /\ new.fin = pod[p].obj.fin
    BY <2>1, ObjectAssumption DEF PodObject
  <2>3. pod' = [pod EXCEPT ![p] = t]
    BY <1>2 DEF DeletePod
  <2> HIDE DEF new
  <2>4. t \in Stored(PodObject \cup {None}) /\ t.obj = new /\ t.cache = pod[p].cache
    <3>1. pod[p] \in Stored(PodObject \cup {None})
      BY <1>1
    <3> QED BY <2>2, <3>1, WriteType
  <2>5. pod'[p] = t => PodStep(p)
    BY <2>1, <2>2, <2>4 DEF PodStep, Edited, SamePorts
  <2> QED BY <2>3, <2>4, <2>5, OnePodStep
<1>3. ASSUME NEW p \in Pods, RemovePod(p) PROVE \A q \in Pods : PodStep(q)
  <2> DEFINE t == Write(pod[p], None)
  <2>1. t \in Stored(PodObject \cup {None}) /\ t.obj = None /\ t.cache = pod[p].cache
    <3>1. pod[p] \in Stored(PodObject \cup {None})
      BY <1>1
    <3> QED BY <3>1, WriteType
  <2>2. pod' = [pod EXCEPT ![p] = t] /\ Exists(p) /\ ~ pod[p].obj.fin
    BY <1>3 DEF RemovePod, Exists
  <2> HIDE DEF t
  <2>3. pod'[p] = t => PodStep(p)
    BY <2>1, <2>2 DEF PodStep, Removed
  <2> QED BY <2>1, <2>2, <2>3, OnePodStep
<1>4. ASSUME NEW p \in Pods, TouchPod(p) PROVE \A q \in Pods : PodStep(q)
  <2> DEFINE t == Touched(pod[p])
  <2>1. /\ t \in Stored(PodObject \cup {None})
        /\ t.obj = pod[p].obj /\ t.cache = pod[p].cache
        /\ pod' = [pod EXCEPT ![p] = t]
    BY <1>1, <1>4, TouchedType DEF TouchPod
  <2> HIDE DEF t
  <2> QED BY <2>1, OnePodStep DEF PodStep
<1>5. ASSUME NEW p \in Pods, DeliverPod(p) PROVE \A q \in Pods : PodStep(q)
  <2> DEFINE t == Delivered(pod[p])
  <2>1. /\ t \in Stored(PodObject \cup {None})
        /\ t.obj = pod[p].obj /\ t.cache = pod[p].obj
        /\ pod' = [pod EXCEPT ![p] = t]
    BY <1>1, <1>5, DeliveredType DEF DeliverPod
  <2> HIDE DEF t
  <2> QED BY <2>1, OnePodStep DEF PodStep
<1>6. ASSUME ~ \E p \in Pods : DeletePod(p) \/ RemovePod(p) \/ TouchPod(p) \/ DeliverPod(p)
      PROVE  UNCHANGED pod
  BY <1>6 DEF Environment, CreateNetwork, TouchNetwork, DeliverNetwork, DeliverNad, Resync
<1> QED BY <1>2, <1>3, <1>4, <1>5, <1>6, NoPodStep

LEMMA ControllerPodStep ==
  ASSUME Parts, Controller
  PROVE  \A q \in Pods : PodStep(q)
<1>1. \A p \in Pods : pod[p] \in Stored(PodObject \cup {None}) /\ UpToDate(pod[p])
  BY DEF Parts, PodPart
<1>2. ASSUME NEW p \in Pods, NEW stage, Start(p, stage) PROVE \A q \in Pods : PodStep(q)
  <2> DEFINE t == Copied(pod[p], Worker)
  <2>1. /\ t \in Stored(PodObject \cup {None})
        /\ t.obj = pod[p].obj /\ t.cache = pod[p].cache
        /\ pod' = [pod EXCEPT ![p] = t]
    <3>1. pod[p] \in Stored(PodObject \cup {None}) /\ Worker \in Holders
      BY <1>1 DEF Holders
    <3>2. pod' = [pod EXCEPT ![p] = t]
      BY <1>2 DEF Start
    <3> HIDE DEF Worker
    <3> QED BY <3>1, <3>2, CopiedType
  <2> HIDE DEF t
  <2> QED BY <2>1, OnePodStep DEF PodStep
<1>3. ASSUME NEW new, work # None, new \in PodObject,
             SamePorts(work.copy, new),
             new.fin \/ RemoveFinalizer,
             NEW o \in UpdateOutcomes(pod[work.pod], Worker, new),
             pod' = [pod EXCEPT ![work.pod] = Forgotten(o.after, Worker)]
      PROVE  \A q \in Pods : PodStep(q)
  <2> DEFINE p == work.pod
             t == Forgotten(o.after, Worker)
  <2>1. p \in Pods /\ work.copy \in PodObject
    BY <1>3, WorkType DEF Parts
  <2>2. new \in PodObject \cup {None} /\ pod[p] \in Stored(PodObject \cup {None})
    BY <1>1, <1>3, <2>1
  <2>3. /\ t \in Stored(PodObject \cup {None}) /\ t.cache = pod[p].cache
        /\ t.obj = pod[p].obj \/ (Worker \in pod[p].fresh /\ t.obj = new)
    BY <2>2, UpdateForgottenType DEF Holders
  <2> HIDE DEF t
  <2>4. ASSUME pod'[p] = t PROVE PodStep(p)
    <3>1. CASE t.obj = pod[p].obj
      BY <2>3, <2>4, <3>1 DEF PodStep
    <3>2. CASE Worker \in pod[p].fresh /\ t.obj = new
      <4>1. pod[p].obj = work.copy
        BY <1>3, <3>2 DEF Parts, CopyPart
      <4>2. Exists(p) /\ pod'[p].obj # None
        BY <1>3, <2>1, <2>4, <3>2, <4>1, ObjectAssumption DEF Exists
      <4> QED BY <1>3, <2>3, <2>4, <3>2, <4>1, <4>2
              DEF PodStep, Edited, Unfinalized
    <3> QED BY <2>3, <3>1, <3>2
  <2> QED BY <1>3, <2>1, <2>3, <2>4, OnePodStep DEF t
<1>4. CASE AddFinalizer
  <2> DEFINE new == [work.copy EXCEPT !.fin = TRUE]
  <2>1. work # None /\ work.copy \in PodObject
    BY <1>4, WorkType DEF Parts, AddFinalizer, WorkingAt
  <2>2. new \in PodObject /\ SamePorts(work.copy, new) /\ new.fin
    BY <2>1 DEF PodObject, SamePorts
  <2>3. PICK o \in UpdateOutcomes(pod[work.pod], Worker, new) :
               pod' = [pod EXCEPT ![work.pod] = Forgotten(o.after, Worker)]
    BY <1>4 DEF AddFinalizer
  <2> HIDE DEF new
  <2> QED BY <1>3, <2>1, <2>2, <2>3
<1>5. CASE RemoveFinalizer
  <2> DEFINE new == [work.copy EXCEPT !.fin = FALSE]
  <2>1. work # None /\ work.copy \in PodObject
    BY <1>5, WorkType DEF Parts, RemoveFinalizer, WorkingAt
  <2>2. new \in PodObject /\ SamePorts(work.copy, new)
    BY <2>1 DEF PodObject, SamePorts
  <2>3. PICK o \in UpdateOutcomes(pod[work.pod], Worker, new) :
               pod' = [pod EXCEPT ![work.pod] = Forgotten(o.after, Worker)]
    BY <1>5 DEF RemoveFinalizer
  <2> HIDE DEF new
  <2> QED BY <1>3, <1>5, <2>1, <2>2, <2>3
<1>6. CASE AttachPod \/ DetachPod \/ ReleaseNetAttachDef \/ \E p \in Pods : Ignore(p)
  BY <1>6, NoPodStep DEF AttachPod, DetachPod, ReleaseNetAttachDef, Ignore
<1>7. CASE \E p \in Pods : BeginAttach(p) \/ BeginCleanup(p)
  BY <1>2, <1>7 DEF BeginAttach, BeginCleanup
<1> QED BY <1>4, <1>5, <1>6, <1>7 DEF Controller, WorkerStep

LEMMA NextPodStep ==
  ASSUME Parts, [Next]_vars
  PROVE  \A q \in Pods : PodStep(q)
<1>1. CASE UNCHANGED vars
  BY <1>1, NoPodStep DEF vars, clusterVars
<1>2. ASSUME NEW p \in Pods, PersistPod(p) PROVE \A q \in Pods : PodStep(q)
  <2>1. pod[p] \in Stored(PodObject \cup {None}) /\ Created(p) \in PodObject \cup {None}
    BY <1>2, CreatedType DEF Parts, PodPart, PersistPod
  <2> DEFINE t == Write(pod[p], Created(p))
  <2>2. t \in Stored(PodObject \cup {None}) /\ t.obj = Created(p) /\ t.cache = pod[p].cache
    BY <2>1, WriteType
  <2>3. pod' = [pod EXCEPT ![p] = t]
    BY <1>2 DEF PersistPod, Created
  <2>4. hook[p].at = "reply" /\ hook'[p].at = "done"
    BY <1>2 DEF PersistPod, NoHandler, Parts, HookPart, HookTypeOK
  <2> HIDE DEF t
  <2> QED BY <2>2, <2>3, <2>4, OnePodStep DEF PodStep, Persisted
<1>3. CASE Webhook /\ ~ \E p \in Pods : PersistPod(p)
  <2>1. UNCHANGED pod
    BY <1>3 DEF Webhook, Admit, AdmitErrored, ClaimNetAttachDef, RecordInNetwork, RefusePod
  <2> QED BY <2>1, NoPodStep
<1>4. CASE Restart
  BY <1>4 DEF Restart, New, PodStep
<1> QED BY <1>1, <1>2, <1>3, <1>4, EnvironmentPodStep, ControllerPodStep DEF Next
-----------------------------------------------------------------------------
(* What a step does to one handler.                                        *)

HookStep(p) ==
  /\ hook[p].at = "done" => hook'[p].at = "done"
  /\ hook'[p].at = "idle" => hook[p].at = "idle"
  /\ hook[p].at # "idle" /\ hook'[p].at # "done"
       => hook'[p].node = hook[p].node /\ hook'[p].nads = hook[p].nads

LEMMA OneHookStep ==
  ASSUME Parts, NEW p \in Pods, NEW h,
         hook' = [hook EXCEPT ![p] = h], hook'[p] = h => HookStep(p)
  PROVE  \A q \in Pods : HookStep(q)
<1>1. hook'[p] = h /\ \A q \in Pods : q # p => hook'[q] = hook[q]
  BY DEF Parts, HookPart, HookTypeOK
<1> QED BY <1>1 DEF HookStep

LEMMA NextHookStep ==
  ASSUME Parts, [Next]_vars
  PROVE  \A q \in Pods : HookStep(q)
<1>1. CASE UNCHANGED hook
  BY <1>1 DEF HookStep
<1>2. CASE Restart
  BY <1>2 DEF Restart, HookStep, NoHandler
<1>3. ASSUME NEW p \in Pods, NEW m \in Nodes, NEW nads, Admit(p, m, nads)
      PROVE  \A q \in Pods : HookStep(q)
  <2> DEFINE h == [at |-> "claim", node |-> m, nads |-> nads,
                   ips |-> [i \in Slots(p) |-> AddressFor(p, i)], next |-> 1]
  <2>1. hook' = [hook EXCEPT ![p] = h] /\ hook[p].at = "idle"
    BY <1>3 DEF Admit
  <2>2. h.at = "claim"
    OBVIOUS
  <2> HIDE DEF h
  <2> QED BY <2>1, <2>2, OneHookStep DEF HookStep
<1>4. ASSUME NEW p \in Pods, NEW m \in Nodes, AdmitErrored(p, m)
      PROVE  \A q \in Pods : HookStep(q)
  <2> DEFINE h == [NoHandler("reply") EXCEPT !.node = m]
  <2>1. hook' = [hook EXCEPT ![p] = h] /\ hook[p].at = "idle"
    BY <1>4 DEF AdmitErrored
  <2>2. h.at = "reply"
    BY DEF NoHandler
  <2> HIDE DEF h
  <2> QED BY <2>1, <2>2, OneHookStep DEF HookStep
<1>5. ASSUME NEW p \in Pods, PersistPod(p) \/ RefusePod(p)
      PROVE  \A q \in Pods : HookStep(q)
  <2>1. hook' = [hook EXCEPT ![p] = NoHandler("done")]
    BY <1>5 DEF PersistPod, RefusePod
  <2>2. NoHandler("done").at = "done"
    BY DEF NoHandler
  <2> QED BY <2>1, <2>2, OneHookStep DEF HookStep
<1>6. ASSUME NEW p \in Pods, ClaimNetAttachDef(p)
      PROVE  \A q \in Pods : HookStep(q)
  <2> DEFINE h == [hook[p] EXCEPT !.at = "record"]
  <2>1. hook' = [hook EXCEPT ![p] = h] /\ hook[p].at = "claim"
    BY <1>6 DEF ClaimNetAttachDef
  <2>2. h.at = "record" /\ h.node = hook[p].node /\ h.nads = hook[p].nads
    BY HandlerType DEF Parts, Handler
  <2> HIDE DEF h
  <2> QED BY <2>1, <2>2, OneHookStep DEF HookStep
<1>7. ASSUME NEW p \in Pods, RecordInNetwork(p)
      PROVE  \A q \in Pods : HookStep(q)
  <2> DEFINE last == hook[p].next = Len(Requested[p])
             h == [hook[p] EXCEPT !.at = IF last THEN "reply" ELSE "claim",
                                  !.next = IF last THEN hook[p].next ELSE hook[p].next + 1]
  <2>1. hook' = [hook EXCEPT ![p] = h] /\ hook[p].at = "record"
    BY <1>7 DEF RecordInNetwork, Parts, HookPart, HookTypeOK, Handler
  <2>2. h.at \in {"reply", "claim"} /\ h.node = hook[p].node /\ h.nads = hook[p].nads
    BY HandlerType DEF Parts, Handler
  <2> HIDE DEF h
  <2> QED BY <2>1, <2>2, OneHookStep DEF HookStep
<1> QED BY <1>1, <1>2, <1>3, <1>4, <1>5, <1>6, <1>7 DEF Next, Webhook, vars

-----------------------------------------------------------------------------
(* What a step does to the label of an attachment on a node.               *)

Taken(v, m, p) ==
  /\ ClaimNetAttachDef(p)
  /\ hook[p].node = m /\ \E i \in DOMAIN hook[p].nads : hook[p].nads[i] = v
  /\ nad'[v].obj[m] = p

LabelStep(v, m) ==
  \/ nad'[v].obj[m] \in {nad[v].obj[m], None}
  \/ \E p \in Pods : Taken(v, m, p)

LEMMA NextLabelStep ==
  ASSUME Parts, HandlerSeesFree, [Next]_vars, NEW v \in Nads, NEW m \in Nodes
  PROVE  LabelStep(v, m)
<1>1. nad[v].obj \in [Nodes -> Pods \cup {None}]
  BY DEF Parts, NadPart, Stored, Claims
<1>2. CASE SameLabels
  BY <1>2 DEF SameLabels, LabelStep
<1>3. ASSUME NEW p \in Pods, ClaimNetAttachDef(p), ~ SameLabels PROVE LabelStep(v, m)
  <2> DEFINE w == hook[p].nads[hook[p].next]
  <2>1. /\ nad'[w].obj = [nad[w].obj EXCEPT ![hook[p].node] = p]
        /\ \A x \in Nads \ {w} : nad'[x].obj = nad[x].obj
    BY <1>3, ClaimStep
  <2>2. hook[p].next \in DOMAIN hook[p].nads
    BY <1>3, HandlerType DEF Parts, ClaimNetAttachDef, WellFormed, Lists
  <2>3. CASE v # w \/ m # hook[p].node
    BY <1>1, <2>1, <2>3 DEF LabelStep
  <2>4. CASE v = w /\ m = hook[p].node
    BY <1>1, <1>3, <2>1, <2>2, <2>4 DEF LabelStep, Taken
  <2> QED BY <2>3, <2>4
<1>4. ASSUME ReleaseNetAttachDef, ~ SameLabels PROVE LabelStep(v, m)
  <2>1. PICK w \in Nads, k \in Nodes :
               /\ nad'[w].obj = [nad[w].obj EXCEPT ![k] = None]
               /\ \A x \in Nads \ {w} : nad'[x].obj = nad[x].obj
    BY <1>4, ReleaseStep
  <2> QED BY <1>1, <2>1 DEF LabelStep
<1> QED BY <1>2, <1>3, <1>4, LabelsChange
-----------------------------------------------------------------------------
(* What a step does to the worker,                                         *)

Started ==
  /\ work = None
  /\ work'.pod \in Pods /\ work'.copy = pod[work'.pod].cache /\ work'.copy # None
  /\ work'.next = 1 /\ work'.at \in {"finalize", "detach"}

Finalized ==
  /\ work.at = "finalize" /\ work'.at = "attach"
  /\ pod'[work.pod].obj # None /\ pod'[work.pod].obj.fin

Attaching == work.at = "attach" /\ work'.at = "attach"

Detaching ==
  /\ work.at = "detach" /\ work'.at = "release" /\ work'.next = work.next
  /\ PortOf(work.pod, work.copy, work.next) \notin attached' \ lost'

Releasing ==
  /\ work.at = "release"
  /\ nad'[work.copy.nads[work.next]].obj[work.copy.node] = None
  /\ \/ work'.at = "detach" /\ work'.next = work.next + 1
     \/ work'.at = "unfinalize" /\ work.next = Len(Requested[work.pod])

Continued ==
  /\ work # None
  /\ work'.pod = work.pod /\ work'.copy = work.copy
  /\ Finalized \/ Attaching \/ Detaching \/ Releasing

WorkStep == work' = work \/ work' = None \/ Started \/ Continued

(* and to the ports in the networks.                                       *)
PortStep ==
  \/ attached' \ lost' \subseteq attached \ lost
  \/ /\ WorkingAt("attach") /\ UNCHANGED pod
     /\ attached' \ lost'
          \subseteq (attached \ lost) \cup {PortOf(work.pod, work.copy, work.next)}

LEMMA NextWorkStep ==
  ASSUME Parts, [Next]_vars
  PROVE  WorkStep /\ PortStep
<1>1. CASE UNCHANGED controllerVars
  BY <1>1 DEF controllerVars, WorkStep, PortStep
<1>2. CASE Restart
  BY <1>2 DEF Restart, WorkStep, PortStep
<1>3. ASSUME NEW p \in Pods, Ignore(p) PROVE WorkStep /\ PortStep
  BY <1>3 DEF Ignore, controllerVars, WorkStep, PortStep
<1>4. ASSUME NEW p \in Pods, BeginAttach(p) \/ BeginCleanup(p) PROVE WorkStep /\ PortStep
  <2>1. PICK stage \in {"finalize", "detach"} : Start(p, stage)
    BY <1>4 DEF BeginAttach, BeginCleanup
  <2> DEFINE w == [at |-> stage, pod |-> p, copy |-> pod[p].cache, next |-> 1]
  <2>2. work = None /\ pod[p].cache # None
    BY <1>4 DEF BeginAttach, BeginCleanup
  <2>3. work' = w /\ UNCHANGED <<attached, lost>>
    BY <2>1 DEF Start
  <2>4. w.pod = p /\ w.copy = pod[p].cache /\ w.next = 1 /\ w.at = stage
    OBVIOUS
  <2> HIDE DEF w
  <2> QED BY <2>2, <2>3, <2>4 DEF WorkStep, Started, PortStep
<1>5. CASE AddFinalizer
  <2> DEFINE new == [work.copy EXCEPT !.fin = TRUE]
  <2>1. /\ work # None /\ work \in Work /\ work.pod \in Pods /\ work.copy \in PodObject
        /\ work.at = "finalize"
    BY <1>5, WorkType DEF Parts, AddFinalizer, WorkingAt
  <2>2. new \in PodObject \cup {None} /\ new.fin /\ new # None
    <3>1. new \in PodObject /\ new.fin
      BY <2>1 DEF PodObject
    <3> QED BY <3>1, ObjectAssumption
  <2>3. pod[work.pod] \in Stored(PodObject \cup {None})
    BY <2>1 DEF Parts, PodPart
  <2>4. PICK o \in UpdateOutcomes(pod[work.pod], Worker, new) :
               /\ pod' = [pod EXCEPT ![work.pod] = Forgotten(o.after, Worker)]
               /\ (o.ok /\ work' = [work EXCEPT !.at = "attach"]) \/ work' = None
    BY <1>5 DEF AddFinalizer
  <2>5. UNCHANGED <<attached, lost>>
    BY <1>5 DEF AddFinalizer
  <2> HIDE DEF new
  <2>6. o.ok => Forgotten(o.after, Worker).obj = new
    <3> Worker \in Holders
      BY DEF Holders
    <3> HIDE DEF Worker
    <3> QED BY <2>2, <2>3, UpdateForgottenType
  <2>7. pod'[work.pod] = Forgotten(o.after, Worker)
    BY <2>1, <2>4 DEF Parts, PodPart
  <2>8. CASE o.ok /\ work' = [work EXCEPT !.at = "attach"]
    <3>1. work'.pod = work.pod /\ work'.copy = work.copy /\ work'.at = "attach"
      BY <2>1, <2>8 DEF Work
    <3> QED BY <2>1, <2>2, <2>5, <2>6, <2>7, <2>8, <3>1
            DEF WorkStep, Continued, Finalized, PortStep
  <2> QED BY <2>4, <2>5, <2>8 DEF WorkStep, PortStep
<1>6. CASE AttachPod
  <2> DEFINE port == PortOf(work.pod, work.copy, work.next)
  <2>1. work # None /\ work \in Work /\ work.at = "attach"
    BY <1>6, WorkType DEF Parts, AttachPod, WorkingAt
  <2>2. PICK o \in CallOutcomes :
          /\ attached' = attached \cup {q \in {port} : o.done}
          /\ lost' = lost \ {q \in {port} : o.done}
          /\ work' = IF o.ok /\ work.next < Len(Requested[work.pod])
                     THEN [work EXCEPT !.next = work.next + 1] ELSE None
    BY <1>6 DEF AttachPod
  <2>3. WorkStep
    <3>1. CASE work' = [work EXCEPT !.next = work.next + 1]
      BY <2>1, <3>1 DEF Work, WorkStep, Continued, Attaching
    <3> QED BY <2>2, <3>1 DEF WorkStep
  <2>4. PortStep
    BY <1>6, <2>1, <2>2 DEF AttachPod, PortStep, WorkingAt
  <2> QED BY <2>3, <2>4
<1>7. CASE DetachPod
  <2> DEFINE port == PortOf(work.pod, work.copy, work.next)
  <2>1. work # None /\ work \in Work /\ work.at = "detach"
    BY <1>7, WorkType DEF Parts, DetachPod, WorkingAt
  <2>2. PICK o \in CallOutcomes :
          /\ attached' = attached \ {q \in {port} : o.done}
          /\ lost' = IF o.done THEN lost \ {port} ELSE lost \cup {port}
    BY <1>7 DEF DetachPod
  <2>3. attached' \ lost' \subseteq attached \ lost /\ port \notin attached' \ lost'
    BY <2>2, CallOutcomesType
  <2>4. work' = [work EXCEPT !.at = "release"]
    BY <1>7 DEF DetachPod
  <2> HIDE DEF port
  <2>5. /\ work'.pod = work.pod /\ work'.copy = work.copy
        /\ work'.at = "release" /\ work'.next = work.next
    BY <2>1, <2>4 DEF Work
  <2> QED BY <2>1, <2>3, <2>5 DEF WorkStep, Continued, Detaching, PortStep, port
<1>8. CASE ReleaseNetAttachDef
  <2> DEFINE v == work.copy.nads[work.next]
             m == work.copy.node
             released == [nad[v].cache EXCEPT ![m] = None]
  <2>1. /\ work # None /\ work \in Work /\ work.at = "release"
        /\ work.pod \in Pods /\ v \in Nads /\ m \in Nodes
        /\ work.next \in Slots(work.pod)
    BY <1>8, WorkType DEF Parts, ReleaseNetAttachDef, WorkingAt
  <2>2. nad[v] \in Stored(Claims) /\ nad \in [Nads -> Stored(Claims)]
    BY <2>1 DEF Parts, NadPart
  <2>3. released \in Claims /\ released[m] = None
    BY <2>1, <2>2 DEF Stored, Claims
  <2>4. PICK o \in UpdateOutcomes(nad[v], Cache, released) :
          /\ nad' = [nad EXCEPT ![v] = o.after]
          /\ work' = IF ~ o.ok THEN None
                     ELSE IF work.next < Len(Requested[work.pod])
                          THEN [work EXCEPT !.at = "detach", !.next = work.next + 1]
                          ELSE [work EXCEPT !.at = "unfinalize"]
    BY <1>8 DEF ReleaseNetAttachDef
  <2>5. UNCHANGED <<attached, lost>>
    BY <1>8 DEF ReleaseNetAttachDef
  <2> HIDE DEF released, v, m
  <2>6. o.ok \in BOOLEAN /\ (o.ok => o.after.obj = released)
    BY <2>2, <2>3, UpdateType DEF Holders
  <2>7. o.ok => nad'[v].obj[m] = None
    BY <2>1, <2>2, <2>3, <2>4, <2>6
  <2>8. Slots(work.pod) = 1 .. Len(Requested[work.pod]) /\ Len(Requested[work.pod]) \in Nat
    BY <2>1, SlotsType
  <2>9. CASE o.ok /\ work.next < Len(Requested[work.pod])
    <3>1. work' = [work EXCEPT !.at = "detach", !.next = work.next + 1]
      BY <2>4, <2>9
    <3>2. /\ work'.pod = work.pod /\ work'.copy = work.copy
          /\ work'.at = "detach" /\ work'.next = work.next + 1
      BY <2>1, <3>1 DEF Work
    <3> QED BY <2>1, <2>5, <2>7, <2>9, <3>2
            DEF WorkStep, Continued, Releasing, PortStep, v, m
  <2>10. CASE o.ok /\ ~ (work.next < Len(Requested[work.pod]))
    <3>1. work' = [work EXCEPT !.at = "unfinalize"]
      BY <2>4, <2>10
    <3>2. /\ work'.pod = work.pod /\ work'.copy = work.copy
          /\ work'.at = "unfinalize" /\ work.next = Len(Requested[work.pod])
      BY <2>1, <2>8, <2>10, <3>1 DEF Work
    <3> QED BY <2>1, <2>5, <2>7, <2>10, <3>2
            DEF WorkStep, Continued, Releasing, PortStep, v, m
  <2>11. CASE ~ o.ok
    BY <2>4, <2>5, <2>11 DEF WorkStep, PortStep
  <2> QED BY <2>6, <2>9, <2>10, <2>11
<1>9. CASE RemoveFinalizer
  BY <1>9 DEF RemoveFinalizer, WorkStep, PortStep
<1>10. CASE UNCHANGED vars
  BY <1>10 DEF vars, controllerVars, WorkStep, PortStep
<1> QED BY <1>1, <1>2, <1>3, <1>4, <1>5, <1>6, <1>7, <1>8, <1>9, <1>10
        DEF Next, Controller, WorkerStep
-----------------------------------------------------------------------------
(* The invariant, conjunct by conjunct.                                    *)

Steps ==
  /\ \A p \in Pods : PodStep(p) /\ HookStep(p)
  /\ WorkStep /\ PortStep

LEMMA NextSteps == ASSUME Parts, [Next]_vars PROVE Steps
BY NextPodStep, NextHookStep, NextWorkStep DEF Steps

LEMMA PodLifeStep ==
  ASSUME Parts, Steps, PodLife
  PROVE  PodLife'
<1>1. ASSUME NEW p \in Pods, hook'[p].at # "done"
      PROVE  pod'[p].obj = None /\ pod'[p].cache = None /\ (work' # None => work'.pod # p)
  <2>1. pod[p].obj = None /\ pod[p].cache = None /\ (work # None => work.pod # p)
    BY <1>1 DEF Steps, HookStep, PodLife
  <2>2. pod'[p].obj = None /\ pod'[p].cache = None
    BY <1>1, <2>1 DEF Steps, PodStep, Edited, Removed, Unfinalized, Persisted, Exists
  <2>3. work' # None => work'.pod # p
    BY <2>1 DEF Steps, WorkStep, Started, Continued
  <2> QED BY <2>2, <2>3
<1>2. ASSUME NEW p \in Pods, pod'[p].obj # None, pod'[p].cache # None
      PROVE  SamePorts(pod'[p].obj, pod'[p].cache)
  <2>1. PodStep(p)
    BY DEF Steps
  <2> QED BY <1>2, <2>1
          DEF PodLife, PodStep, Edited, Removed, Unfinalized, Persisted, Exists, SamePorts
<1>3. ASSUME NEW p \in Pods, pod'[p].obj # None, work' # None, work'.pod = p
      PROVE  SamePorts(pod'[p].obj, work'.copy)
  <2>1. PodStep(p) /\ WorkStep
    BY DEF Steps
  <2>2. CASE Started
    BY <1>3, <2>1, <2>2
       DEF Started, PodLife, PodStep, Edited, Removed, Unfinalized, Persisted, Exists,
           SamePorts
  <2>3. CASE work # None /\ work.pod = p /\ work'.copy = work.copy
    BY <1>3, <2>1, <2>3
       DEF PodLife, PodStep, Edited, Removed, Unfinalized, Persisted, Exists, SamePorts
  <2> QED BY <1>3, <2>1, <2>2, <2>3 DEF WorkStep, Continued
<1> QED BY <1>1, <1>2, <1>3 DEF PodLife, Exists

LEMMA AttachesFinalizedStep ==
  ASSUME Parts, Steps, PodLife, AttachesFinalized
  PROVE  AttachesFinalized'
<1> SUFFICES ASSUME work' # None, work'.at = "attach"
             PROVE  pod'[work'.pod].obj # None /\ pod'[work'.pod].obj.fin
  BY DEF AttachesFinalized, WorkingAt, Exists
<1>1. WorkStep
  BY DEF Steps
<1>2. CASE Continued /\ Finalized
  BY <1>2 DEF Continued, Finalized
<1>3. CASE work # None /\ work.at = "attach" /\ work'.pod = work.pod
  <2>1. work.pod \in Pods /\ Exists(work.pod) /\ pod[work.pod].obj.fin
    BY <1>3, WorkType DEF Parts, AttachesFinalized, WorkingAt
  <2>2. PodStep(work.pod)
    BY <2>1 DEF Steps
  <2>3. ~ Unfinalized(work.pod) /\ ~ Persisted(work.pod)
    BY <1>3, <2>1 DEF Unfinalized, RemoveFinalizer, WorkingAt, Persisted, PodLife
  <2> QED BY <1>3, <2>1, <2>2, <2>3 DEF PodStep, Edited, Removed, Exists
<1> QED BY <1>1, <1>2, <1>3 DEF WorkStep, Started, Continued, Attaching, Detaching, Releasing

LEMMA DetachedStayStep ==
  ASSUME Parts, Steps, DetachedStay
  PROVE  DetachedStay'
<1> SUFFICES ASSUME work' # None, NEW i \in Slots(work'.pod),
                    \/ work'.at = "unfinalize"
                    \/ work'.at = "detach" /\ i < work'.next
                    \/ work'.at = "release" /\ i =< work'.next
             PROVE  PortOf(work'.pod, work'.copy, i) \notin attached' \ lost'
  BY DEF DetachedStay, Detached, PortOf
<1>1. WorkStep /\ PortStep
  BY DEF Steps
<1>2. ~ Started
  <2>1. ASSUME Started PROVE work'.pod \in Pods /\ work'.next = 1
    BY <2>1 DEF Started
  <2>2. Started => i \in Nat \ {0}
    BY <2>1, SlotsType
  <2> QED BY <2>1, <2>2 DEF Started
<1>3. work # None /\ work'.pod = work.pod /\ work'.copy = work.copy
  BY <1>1, <1>2 DEF WorkStep, Continued
<1>4. work.at # "attach"
  BY <1>1, <1>2, <1>3 DEF WorkStep, Continued, Finalized, Attaching, Detaching, Releasing
<1>5. attached' \ lost' \subseteq attached \ lost
  BY <1>1, <1>4 DEF PortStep, WorkingAt
<1>6. /\ i \in Nat /\ i =< Len(Requested[work.pod])
      /\ work.next \in Nat /\ Len(Requested[work.pod]) \in Nat
  <2>1. work.pod \in Pods /\ work.next \in Slots(work.pod)
    BY <1>3, WorkType DEF Parts
  <2> QED BY <1>3, <2>1, SlotsType
<1>7. CASE Detached(i)
  BY <1>3, <1>5, <1>7 DEF DetachedStay
<1>8. CASE i = work.next /\ Continued /\ Detaching
  BY <1>3, <1>8 DEF Detaching
<1>9. Detached(i) \/ (i = work.next /\ Continued /\ Detaching)
  BY <1>1, <1>2, <1>3, <1>6
     DEF Detached, WorkStep, Continued, Finalized, Attaching, Detaching, Releasing
<1> QED BY <1>7, <1>8, <1>9

LEMMA AttachmentsCoveredStep ==
  ASSUME Parts, Steps, PodLife, AttachesFinalized, DetachedStay, AttachmentsCovered
  PROVE  AttachmentsCovered'
<1> SUFFICES ASSUME NEW port \in attached' \ lost'
             PROVE  \E p \in Pods : Covers(p, port)'
  BY DEF AttachmentsCovered
<1>1. CASE port \in attached \ lost
  <2>1. PICK p \in Pods : Covers(p, port)
    BY <1>1 DEF AttachmentsCovered
  <2>2. PodStep(p)
    BY DEF Steps
  <2>3. ~ Removed(p) /\ ~ Persisted(p)
    BY <2>1 DEF Covers, Removed, Persisted, PodLife, Exists
  <2>4. ~ Unfinalized(p)
    <3>1. SUFFICES ASSUME Unfinalized(p) PROVE FALSE
      OBVIOUS
    <3>2. /\ work # None /\ work.at = "unfinalize" /\ p = work.pod
          /\ pod[p].obj = work.copy
      BY <3>1 DEF Unfinalized, RemoveFinalizer, WorkingAt
    <3>3. \A i \in Slots(p) : PortOf(p, pod[p].obj, i) \notin attached \ lost
      BY <3>2 DEF DetachedStay, Detached
    <3> QED BY <1>1, <2>1, <3>3 DEF Covers
  <2>5. CASE pod'[p].obj = pod[p].obj
    BY <2>1, <2>5 DEF Covers, Exists, PortOf, HasMultus
  <2>6. CASE Edited(p)
    BY <2>1, <2>6 DEF Covers, Exists, PortOf, HasMultus, Edited, SamePorts
  <2> QED BY <2>2, <2>3, <2>4, <2>5, <2>6 DEF PodStep
<1>2. CASE port \notin attached \ lost
  <2>1. /\ WorkingAt("attach") /\ UNCHANGED pod
        /\ port = PortOf(work.pod, work.copy, work.next)
    BY <1>2 DEF Steps, PortStep
  <2>2. PICK p \in Pods : p = work.pod
    BY <2>1, WorkType DEF Parts, WorkingAt
  <2>3. /\ work.next \in Slots(p) /\ Lists(p, work.copy.nads)
        /\ Exists(p) /\ pod[p].obj.fin
    BY <2>1, <2>2, WorkType DEF Parts, AttachesFinalized, WorkingAt
  <2>4. SamePorts(pod[p].obj, work.copy)
    BY <2>1, <2>3, <2>2 DEF PodLife, WorkingAt
  <2>5. port = PortOf(p, pod[p].obj, work.next)
    BY <2>1, <2>4, <2>2 DEF SamePorts, PortOf
  <2>6. HasMultus(pod[p].obj)
    BY <2>3, <2>4 DEF SamePorts, HasMultus, Lists
  <2>7. Covers(p, port)'
    BY <2>1, <2>3, <2>5, <2>6 DEF Covers, Exists, HasMultus, PortOf
  <2> QED BY <2>7
<1> QED BY <1>1, <1>2

LEMMA ClaimsListedStep ==
  ASSUME Parts, Steps, PodLife, ClaimsListed,
         \A v \in Nads, m \in Nodes : LabelStep(v, m)
  PROVE  ClaimsListed'
<1> SUFFICES ASSUME NEW v \in Nads, NEW m \in Nodes, NEW p \in Pods, nad'[v].obj[m] = p
             PROVE  /\ hook'[p].at # "idle"
                    /\ hook'[p].at # "done" =>
                         /\ hook'[p].node = m
                         /\ \E i \in DOMAIN hook'[p].nads : hook'[p].nads[i] = v
                    /\ pod'[p].obj # None =>
                         /\ pod'[p].obj.node = m
                         /\ \E i \in DOMAIN pod'[p].obj.nads : pod'[p].obj.nads[i] = v
  BY DEF ClaimsListed, Exists
<1>1. PodStep(p) /\ HookStep(p) /\ LabelStep(v, m)
  BY DEF Steps
<1>2. nad'[v].obj[m] # None
  BY ClusterAssumption
<1>3. CASE nad[v].obj[m] = p
  <2>1. /\ hook[p].at # "idle"
        /\ hook[p].at # "done" =>
             hook[p].node = m /\ \E i \in DOMAIN hook[p].nads : hook[p].nads[i] = v
        /\ Exists(p) =>
             pod[p].obj.node = m /\ \E i \in DOMAIN pod[p].obj.nads : pod[p].obj.nads[i] = v
    BY <1>3 DEF ClaimsListed
  <2>2. /\ hook'[p].at # "idle"
        /\ hook'[p].at # "done" =>
             hook'[p].node = m /\ \E i \in DOMAIN hook'[p].nads : hook'[p].nads[i] = v
    BY <1>1, <2>1 DEF HookStep
  <2>3. ASSUME pod'[p].obj # None
        PROVE  /\ pod'[p].obj.node = m
               /\ \E i \in DOMAIN pod'[p].obj.nads : pod'[p].obj.nads[i] = v
    <3>1. CASE Persisted(p)
      <4>1. hook[p].at = "reply" /\ pod'[p].obj.node = hook[p].node
            /\ pod'[p].obj.nads = hook[p].nads
        BY <3>1 DEF Persisted, Created
      <4> QED BY <2>1, <4>1
    <3>2. CASE pod'[p].obj = pod[p].obj \/ Edited(p) \/ Unfinalized(p)
      BY <2>1, <2>3, <3>2 DEF Edited, Unfinalized, SamePorts, Exists
    <3> QED BY <1>1, <2>3, <3>1, <3>2 DEF PodStep, Removed
  <2> QED BY <2>2, <2>3
<1>4. CASE Taken(v, m, p)
  <2>1. /\ hook[p].at = "claim" /\ hook[p].node = m
        /\ \E i \in DOMAIN hook[p].nads : hook[p].nads[i] = v
        /\ UNCHANGED pod
    BY <1>4 DEF Taken, ClaimNetAttachDef
  <2>2. pod'[p].obj = None
    BY <2>1 DEF PodLife
  <2> QED BY <1>1, <2>1, <2>2 DEF HookStep
<1>5. nad[v].obj[m] = p \/ Taken(v, m, p)
  BY <1>1, <1>2 DEF LabelStep, Taken
<1> QED BY <1>3, <1>4, <1>5

LEMMA ReleasedStayStep ==
  ASSUME Parts, Steps, PodLife, ReleasedStay,
         \A v \in Nads, m \in Nodes : LabelStep(v, m)
  PROVE  ReleasedStay'
<1> SUFFICES ASSUME work' # None, NEW i \in Slots(work'.pod),
                    \/ work'.at = "unfinalize"
                    \/ work'.at \in {"detach", "release"} /\ i < work'.next
             PROVE  nad'[work'.copy.nads[i]].obj[work'.copy.node] # work'.pod
  BY DEF ReleasedStay, Released
<1>1. WorkStep
  BY DEF Steps
<1>2. ~ Started
  <2>1. ASSUME Started PROVE work'.pod \in Pods /\ work'.next = 1
    BY <2>1 DEF Started
  <2>2. Started => i \in Nat \ {0}
    BY <2>1, SlotsType
  <2> QED BY <2>1, <2>2 DEF Started
<1>3. work # None /\ work'.pod = work.pod /\ work'.copy = work.copy
  BY <1>1, <1>2 DEF WorkStep, Continued
<1>4. /\ work.pod \in Pods /\ work.next \in Slots(work.pod)
      /\ work.copy.node \in Nodes /\ work.copy.nads[i] \in Nads
  BY <1>3, WorkType DEF Parts
<1>5. /\ i \in Nat /\ i =< Len(Requested[work.pod])
      /\ work.next \in Nat /\ Len(Requested[work.pod]) \in Nat
  BY <1>3, <1>4, SlotsType
<1>6. Released(i) \/ (i = work.next /\ Continued /\ Releasing)
  BY <1>1, <1>2, <1>3, <1>5
     DEF Released, WorkStep, Continued, Finalized, Attaching, Detaching, Releasing
<1>7. CASE i = work.next /\ Continued /\ Releasing
  BY <1>3, <1>4, <1>7, ClusterAssumption DEF Releasing
<1>8. CASE Released(i)
  <2>1. nad[work.copy.nads[i]].obj[work.copy.node] # work.pod
    BY <1>3, <1>8 DEF ReleasedStay
  <2>2. LabelStep(work.copy.nads[i], work.copy.node)
    BY <1>4
  <2>3. \A p \in Pods :
          Taken(work.copy.nads[i], work.copy.node, p)
            => nad'[work.copy.nads[i]].obj[work.copy.node] # work.pod
    BY <1>3 DEF Taken, ClaimNetAttachDef, PodLife
  <2>4. None # work.pod
    BY <1>4, ClusterAssumption
  <2>5. nad'[work.copy.nads[i]].obj[work.copy.node] # work.pod
    BY <2>1, <2>2, <2>3, <2>4 DEF LabelStep
  <2> QED BY <1>3, <2>5
<1> QED BY <1>6, <1>7, <1>8

(* The invariant of the pods' lives, and what follows from it.             *)
CleanupInv ==
  /\ PodLife /\ AttachesFinalized /\ DetachedStay /\ AttachmentsCovered
  /\ ClaimsListed /\ ReleasedStay

LEMMA CleanupInit == Init => CleanupInv
<1> SUFFICES ASSUME Init PROVE CleanupInv
  OBVIOUS
<1>1. work = None /\ attached = {}
  BY DEF Init, ControllerInit
<1>2. \A p \in Pods : pod[p].obj = None /\ pod[p].cache = None
  BY DEF Init, ClusterInit, New
<1>3. \A v \in Nads, m \in Nodes : nad[v].obj[m] = None
  BY DEF Init, ClusterInit, New
<1>4. PodLife
  BY <1>1, <1>2 DEF PodLife, Exists
<1>5. AttachesFinalized /\ DetachedStay /\ ReleasedStay /\ AttachmentsCovered
  BY <1>1 DEF AttachesFinalized, WorkingAt, DetachedStay, ReleasedStay, AttachmentsCovered
<1>6. ClaimsListed
  BY <1>3, ClusterAssumption DEF ClaimsListed
<1> QED BY <1>4, <1>6, <1>5 DEF CleanupInv

LEMMA CleanupStep ==
  ASSUME Parts, HandlerSeesFree, CleanupInv, [Next]_vars
  PROVE  CleanupInv'
<1>1. Steps /\ \A v \in Nads, m \in Nodes : LabelStep(v, m)
  BY NextSteps, NextLabelStep
<1> QED BY <1>1, PodLifeStep, AttachesFinalizedStep, DetachedStayStep,
           AttachmentsCoveredStep, ClaimsListedStep, ReleasedStayStep DEF CleanupInv

(* The inductive invariant of the cleanup: a pod lives once and keeps its  *)
(* ports, the worker attaches only while there is a finalizer, and what it *)
(* has detached and released stays so until the finalizer goes.            *)
THEOREM CleanupInvHolds == Spec => [](TypeInv /\ HandlerSeesFree /\ CleanupInv)
<1>1. Init => CleanupInv
  BY CleanupInit
<1>2. TypeInv /\ HandlerSeesFree /\ CleanupInv /\ [Next]_vars => CleanupInv'
  BY CleanupStep, TypeInvParts
<1> QED BY <1>1, <1>2, SeesFreeHolds, PTL DEF Spec

(* Every port in a network of the SDN controller belongs to a pod whose    *)
(* cleanup is yet to come, unless detaching it failed: the finalizer is    *)
(* there before the first attach and goes after the last detach.           *)
THEOREM AttachmentsCoveredHolds == Spec => []AttachmentsCovered
<1>1. CleanupInv => AttachmentsCovered
  BY DEF CleanupInv
<1> QED BY <1>1, CleanupInvHolds, PTL

(* A pod loses its finalizer only when no attachment is labelled for it,   *)
(* however many times its cleanup was given up and started again.          *)
THEOREM CleanupReleasesClaimsHolds == Spec => CleanupReleasesClaims
<1> DEFINE Freed ==
      \A p \in Pods :
       Exists(p) /\ pod[p].obj.fin /\ (pod'[p].obj = None \/ ~ pod'[p].obj.fin)
       => \A v \in Nads, m \in Nodes : nad'[v].obj[m] # p
<1>1. ASSUME TypeInv, CleanupInv, [Next]_vars PROVE Freed
  <2>1. Parts
    BY <1>1, TypeInvParts
  <2>2. Steps
    BY <1>1, <2>1, NextSteps
  <2>3. SUFFICES ASSUME NEW p \in Pods, Exists(p), pod[p].obj.fin,
                        pod'[p].obj = None \/ ~ pod'[p].obj.fin,
                        NEW v \in Nads, NEW m \in Nodes, nad'[v].obj[m] = p
                 PROVE  FALSE
    OBVIOUS
  <2>4. PodStep(p)
    BY <2>2 DEF Steps
  <2>5. ~ Persisted(p)
    BY <1>1, <2>3 DEF CleanupInv, PodLife, Persisted, Exists
  <2>6. Unfinalized(p)
    BY <2>3, <2>4, <2>5 DEF PodStep, Edited, Removed, Exists
  <2>7. /\ work # None /\ work.at = "unfinalize" /\ p = work.pod
        /\ pod[p].obj = work.copy /\ UNCHANGED nad
    BY <2>6 DEF Unfinalized, RemoveFinalizer, WorkingAt
  <2>8. PICK i \in DOMAIN pod[p].obj.nads : pod[p].obj.nads[i] = v
    BY <1>1, <2>3, <2>7 DEF CleanupInv, ClaimsListed
  <2>9. pod[p].obj.node = m
    BY <1>1, <2>3, <2>7 DEF CleanupInv, ClaimsListed
  <2>10. i \in Slots(p)
    BY <2>1, <2>7, WorkType DEF Parts, Lists
  <2>11. nad[work.copy.nads[i]].obj[work.copy.node] # p
    BY <1>1, <2>7, <2>10 DEF CleanupInv, ReleasedStay, Released
  <2> QED BY <2>3, <2>7, <2>8, <2>9, <2>11
<1>2. TypeInv /\ CleanupInv /\ [Next]_vars => [Freed]_vars
  BY <1>1
<1> QED BY <1>2, CleanupInvHolds, PTL DEF Spec, CleanupReleasesClaims
=============================================================================
