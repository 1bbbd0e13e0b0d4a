---------------------------- MODULE OverlayProofs ----------------------------
(***************************************************************************)
(* Proofs about the overlay controller: its type invariant, that a         *)
(* monitoring network is covered by a finalizer, that the objects of an    *)
(* overlay are of one version and a switch has what it mounts, and that    *)
(* the collectors agree about their addresses.                             *)
(***************************************************************************)
EXTENDS Overlay, FiniteSetTheorems, TLAPS

USE DEF Cache, Worker, Current

OverlayValue == OverlayObject \cup {None}

-----------------------------------------------------------------------------
(* The inductive invariant.                                                *)

(* A copy with the latest resourceVersion says what the object says; and   *)
(* as long as the worker has one, the cache does not know more than it.    *)
CopiesCurrent ==
  /\ \A o \in Overlays : Current(overlay[o], Cache) => overlay[o].cache = overlay[o].obj
  /\ work # None /\ Current(overlay[work.of], Worker) =>
       overlay[work.of].obj = work.copy /\ overlay[work.of].cache = work.copy

(* What the worker saw when it began.                                      *)
WorkerSaw ==
  work # None =>
    /\ work.at = "register" => ~ work.copy.fin /\ ~ work.copy.del
    /\ work.at \in {"network", "ports", "silence"} => work.copy.spec.monitored
    /\ work.at \in Deleting => work.copy.del

(* A version c of an overlay that is still served: the object is there, of *)
(* the same life, with the finalizer, and has not lost its monitoring      *)
(* unnoticed.                                                              *)
Serves(o, c) ==
  /\ Exists(o) /\ overlay[o].obj.fin /\ overlay[o].obj.life = c.life
  /\ c.spec.monitored => overlay[o].obj.spec.monitored \/ o \in silenced

(* What the cache shows as finalized, and what the worker launches, is     *)
(* served: only the worker removes a finalizer, and it has seen the        *)
(* deletion first, as has the cache.                                       *)
Running == {"create", "network", "ports"}

CacheServed ==
  \A o \in Overlays :
    LET c == overlay[o].cache IN c # None /\ c.fin /\ ~ c.del => Serves(o, c)

WorkerServed == work # None /\ work.at \in Running => Serves(work.of, work.copy)

(* A monitoring network has its overlay, which will delete it.             *)
NetworkKept ==
  \A o \in sdn :
    \/ Exists(o) /\ overlay[o].obj.fin /\ overlay[o].obj.spec.monitored
    \/ o \in silenced

(* It is deleted before the finalizer.                                     *)
NetworkFirst ==
  work # None /\ work.at = "unfinalize" /\ work.copy.spec.monitored => work.of \notin sdn

CoverInv ==
  /\ TypeOK /\ CopiesCurrent /\ WorkerSaw
  /\ CacheServed /\ WorkerServed /\ NetworkKept /\ NetworkFirst

-----------------------------------------------------------------------------

(* Nothing is from a life that has not begun.                              *)
LivesBegun ==
  /\ \A o \in Overlays : Exists(o) => overlay[o].obj.life =< lives[o]
  /\ \A c \in Children : child[c] # None => child[c].life =< lives[child[c].owner]

Bare(o) == \A c \in Children : ~ Mine(c, o)

(* An overlay that is not deleted, although the cache or the worker takes  *)
(* it for deleted, is a new one and has nothing yet.                       *)
DeletedBare ==
  \A o \in Overlays : Live(o) =>
    /\ overlay[o].cache # None /\ overlay[o].cache.del => Bare(o)
    /\ work # None /\ work.of = o /\ work.at \in Deleting => Bare(o)
    /\ work # None /\ work.of = o /\ work.at \in Running =>
         ~ (overlay[o].cache # None /\ overlay[o].cache.del)

(* Creation begins with the topology, which stands for its version.        *)
BuiltFromTopology ==
  \A o \in Overlays : \A c \in Children :
    Mine(c, o) =>
      LET t == Child("topology", o, None)
      IN  t \in Children /\ Mine(t, o) /\ child[c].spec = child[t].spec

(* The objects the worker has created are there.                           *)
CreatedInOrder ==
  /\ WorkingAt("register") => work.made = 0
  /\ WorkingAt("create") =>
       /\ work.made < Len(Resources)
       /\ \A i \in 1 .. work.made : child[Resources[i]] = ChildNow

BuildInv ==
  /\ LivesBegun /\ DeletedBare /\ BuiltFromTopology /\ CreatedInOrder
  /\ SwitchesHaveConfig

-----------------------------------------------------------------------------
(* The operators of the store.                                             *)

(* An update succeeds only from the latest copy.                           *)
LEMMA UpdateCases ==
  ASSUME NEW s, NEW v, NEW u \in UpdateOutcomes(s, Worker, v)
  PROVE  /\ u.ok \in BOOLEAN /\ u.cost \in {0, 1}
         /\ u.ok => Current(s, Worker) /\ u.after = Write(s, v)
         /\ u.after = s \/ (Current(s, Worker) /\ u.after = Write(s, v))
<1>1. CASE ~ Current(s, Worker)
  <2>1. u = [after |-> s, ok |-> FALSE, cost |-> 0]
    BY <1>1 DEF UpdateOutcomes
  <2> QED
    BY <2>1
<1>2. CASE Current(s, Worker)
  <2>1. u \in {[after |-> Write(s, v), ok |-> TRUE, cost |-> 0],
               [after |-> s, ok |-> FALSE, cost |-> 1],
               [after |-> Write(s, v), ok |-> FALSE, cost |-> 1]}
    BY <1>2 DEF UpdateOutcomes
  <2>2. CASE u = [after |-> Write(s, v), ok |-> TRUE, cost |-> 0]
    BY <1>2, <2>2
  <2>3. CASE u = [after |-> s, ok |-> FALSE, cost |-> 1]
    BY <2>3
  <2>4. CASE u = [after |-> Write(s, v), ok |-> FALSE, cost |-> 1]
    BY <1>2, <2>4
  <2> QED
    BY <2>1, <2>2, <2>3, <2>4
<1> QED
  BY <1>1, <1>2

(* A request that is answered well was executed.                           *)
LEMMA SdnCases ==
  ASSUME NEW repeated, NEW r \in SdnOutcomes(repeated)
  PROVE  r.ok \in BOOLEAN /\ r.done \in BOOLEAN /\ r.cost \in {0, 1} /\ (r.ok => r.done)
<1>1. r \in {[done |-> TRUE, ok |-> TRUE, cost |-> 0],
             [done |-> FALSE, ok |-> FALSE, cost |-> 1],
             [done |-> TRUE, ok |-> FALSE, cost |-> 1],
             [done |-> TRUE, ok |-> FALSE, cost |-> 0]}
  BY DEF SdnOutcomes, CallOutcomes
<1>2. CASE r = [done |-> TRUE, ok |-> TRUE, cost |-> 0]
  BY <1>2
<1>3. CASE r = [done |-> FALSE, ok |-> FALSE, cost |-> 1]
  BY <1>3
<1>4. CASE r = [done |-> TRUE, ok |-> FALSE, cost |-> 1]
  BY <1>4
<1>5. CASE r = [done |-> TRUE, ok |-> FALSE, cost |-> 0]
  BY <1>5
<1> QED
  BY <1>1, <1>2, <1>3, <1>4, <1>5

LEMMA WriteCases ==
  ASSUME NEW s \in Stored(OverlayValue), NEW v \in OverlayValue
  PROVE  /\ Write(s, v) \in Stored(OverlayValue)
         /\ Write(s, v).obj = v /\ Write(s, v).cache = s.cache
         /\ Write(s, v) = s \/ Write(s, v).fresh = {}
         /\ v = s.obj => Write(s, v) = s
  BY DEF Stored, Write, Holders

LEMMA OtherCases ==
  ASSUME NEW s \in Stored(OverlayValue)
  PROVE  /\ Delivered(s) \in Stored(OverlayValue) /\ Delivered(s).obj = s.obj
         /\ Delivered(s).cache = s.obj
         /\ Current(Delivered(s), Worker) => Current(s, Worker)
         /\ Copied(s, Worker) \in Stored(OverlayValue) /\ Copied(s, Worker).obj = s.obj
         /\ Copied(s, Worker).cache = s.cache
         /\ Current(Copied(s, Worker), Cache) => Current(s, Cache)
         /\ Current(Copied(s, Worker), Worker) => Current(s, Cache)
         /\ New(s.obj) \in Stored(OverlayValue)
         /\ New(s.obj).obj = s.obj /\ New(s.obj).cache = s.obj
  BY DEF Delivered, Copied, New, Stored, Holders

-----------------------------------------------------------------------------
(* The objects an overlay consists of.                                     *)

Kinds == {"topology", "attachment", "ReplicaSet", "service", "exporter", "CollectorConfig"}
ChildName == [kind : Kinds, of : Overlays \cup {None}, at : Nodes \cup Nat \cup {None}]

LEMMA Concatenated ==
  ASSUME NEW S, NEW s \in Seq(S), NEW t \in Seq(S)
  PROVE  /\ s \o t \in Seq(S) /\ Len(s \o t) = Len(s) + Len(t)
         /\ \A i \in 1 .. Len(s) : (s \o t)[i] = s[i]
         /\ \A i \in 1 .. Len(t) : (s \o t)[Len(s) + i] = t[i]
  OBVIOUS

(* What comes after the replica sets.                                      *)
NoSwitches(s) == s \in Seq(ChildName) /\ \A i \in 1 .. Len(s) : s[i].kind # "ReplicaSet"

LEMMA Appended ==
  ASSUME NEW s \in Seq(ChildName), NEW t, NoSwitches(t)
  PROVE  /\ s \o t \in Seq(ChildName) /\ Len(s \o t) >= Len(s)
         /\ \A j \in 1 .. Len(s) : (s \o t)[j] = s[j]
         /\ \A j \in Len(s) + 1 .. Len(s \o t) : (s \o t)[j].kind # "ReplicaSet"
<1>1. /\ t \in Seq(ChildName) /\ Len(s) \in Nat /\ Len(t) \in Nat
      /\ \A i \in 1 .. Len(t) : t[i].kind # "ReplicaSet"
  BY DEF NoSwitches
<1>2. /\ s \o t \in Seq(ChildName) /\ Len(s \o t) = Len(s) + Len(t)
      /\ \A j \in 1 .. Len(s) : (s \o t)[j] = s[j]
      /\ \A i \in 1 .. Len(t) : (s \o t)[Len(s) + i] = t[i]
  BY <1>1, Concatenated
<1>3. ASSUME NEW j \in Len(s) + 1 .. Len(s \o t)
      PROVE  (s \o t)[j].kind # "ReplicaSet"
  <2>1. j - Len(s) \in 1 .. Len(t) /\ Len(s) + (j - Len(s)) = j
    BY <1>1, <1>2
  <2>2. (s \o t)[j] = t[j - Len(s)]
    BY <1>2, <2>1
  <2> QED
    BY <1>1, <2>1, <2>2
<1> QED
  BY <1>1, <1>2, <1>3

(* The order of creation: the topology is the first, the attachments come  *)
(* next, and the replica sets after them.                                  *)
LEMMA ResourceOrder ==
  ASSUME NEW o \in Overlays, NEW spec \in Specifications
  PROVE  LET r == ExternalResources(o, spec)
             t == Child("topology", o, None)
         IN  /\ r \in Seq(ChildName) /\ Len(r) >= 1 /\ r[1] = t
             /\ \A i \in 1 .. spec.interfaces :
                  i + 1 \in 1 .. Len(r) /\ r[i + 1] = Child("attachment", o, i)
             /\ \A j \in 1 .. Len(r) :
                  r[j].kind = "ReplicaSet" => j > spec.interfaces + 1 /\ r[j].of = o
<1> DEFINE nads == NetworkAttachmentDefinitions(o, spec)
           rs == PerNode("ReplicaSet", o, spec)
           sv == PerNode("service", o, spec)
           ex == When(spec.monitored /\ spec.exported, Exporter)
           cc == When(spec.monitored, PerNode("CollectorConfig", o, spec))
           r1 == Topology(o) \o nads
           r2 == r1 \o rs
           r3 == r2 \o sv
           r4 == r3 \o ex
           r5 == r4 \o cc
<1>1. spec.nodes \in Seq(Nodes) /\ spec.interfaces \in Nat
  BY DEF Specifications
<1>2. /\ Topology(o) \in Seq(ChildName) /\ Len(Topology(o)) = 1
      /\ Topology(o)[1] = Child("topology", o, None)
      /\ Child("topology", o, None).kind # "ReplicaSet"
  <2>1. Child("topology", o, None) \in ChildName /\ Child("topology", o, None).kind = "topology"
    BY DEF Child, ChildName, Kinds
  <2> QED
    BY <2>1 DEF Topology
<1>3. /\ nads \in Seq(ChildName) /\ Len(nads) = spec.interfaces
      /\ \A i \in 1 .. spec.interfaces :
           nads[i] = Child("attachment", o, i) /\ nads[i].kind # "ReplicaSet"
  <2>1. \A i \in 1 .. spec.interfaces :
          /\ Child("attachment", o, i) \in ChildName
          /\ Child("attachment", o, i).kind = "attachment"
    BY <1>1 DEF Child, ChildName, Kinds
  <2>2. /\ nads \in [1 .. spec.interfaces -> ChildName]
        /\ \A i \in 1 .. spec.interfaces : nads[i] = Child("attachment", o, i)
    BY <2>1 DEF NetworkAttachmentDefinitions
  <2>3. nads \in Seq(ChildName) /\ Len(nads) = spec.interfaces
    BY <1>1, <2>2
  <2> QED
    BY <2>1, <2>2, <2>3
<1>4. ASSUME NEW kind \in Kinds
      PROVE  /\ PerNode(kind, o, spec) \in Seq(ChildName)
             /\ \A i \in 1 .. Len(PerNode(kind, o, spec)) :
                  PerNode(kind, o, spec)[i].kind = kind /\ PerNode(kind, o, spec)[i].of = o
  <2> DEFINE n == Len(spec.nodes)
  <2>1. n \in Nat /\ DOMAIN spec.nodes = 1 .. n /\ \A i \in 1 .. n : spec.nodes[i] \in Nodes
    BY <1>1
  <2>2. \A i \in 1 .. n :
          /\ Child(kind, o, spec.nodes[i]) \in ChildName
          /\ Child(kind, o, spec.nodes[i]).kind = kind
          /\ Child(kind, o, spec.nodes[i]).of = o
    BY <2>1 DEF Child, ChildName
  <2>3. PerNode(kind, o, spec) = [i \in 1 .. n |-> Child(kind, o, spec.nodes[i])]
    BY <2>1 DEF PerNode
  <2> HIDE DEF n
  <2>4. PerNode(kind, o, spec) \in [1 .. n -> ChildName]
    BY <2>2, <2>3
  <2>5. PerNode(kind, o, spec) \in Seq(ChildName) /\ Len(PerNode(kind, o, spec)) = n
    BY <2>1, <2>3, <2>4
  <2> QED
    BY <2>2, <2>3, <2>5
<1>5. /\ rs \in Seq(ChildName) /\ \A i \in 1 .. Len(rs) : rs[i].of = o
      /\ NoSwitches(sv)
  <2>1. "ReplicaSet" \in Kinds /\ "service" \in Kinds /\ "service" # "ReplicaSet"
    BY DEF Kinds
  <2>2. rs \in Seq(ChildName) /\ \A i \in 1 .. Len(rs) : rs[i].of = o
    BY <1>4, <2>1
  <2>3. sv \in Seq(ChildName) /\ \A i \in 1 .. Len(sv) : sv[i].kind = "service"
    BY <1>4, <2>1
  <2> QED
    BY <2>1, <2>2, <2>3 DEF NoSwitches
<1>6. NoSwitches(ex)
  <2>1. Child("exporter", None, None) \in ChildName /\ Child("exporter", None, None).kind = "exporter"
    BY DEF Child, ChildName, Kinds
  <2> QED
    BY <2>1 DEF NoSwitches, When, Exporter
<1>7. NoSwitches(cc)
  <2>1. NoSwitches(PerNode("CollectorConfig", o, spec))
    <3>1. "CollectorConfig" \in Kinds /\ "CollectorConfig" # "ReplicaSet"
      BY DEF Kinds
    <3> DEFINE pn == PerNode("CollectorConfig", o, spec)
    <3>2. pn \in Seq(ChildName) /\ \A i \in 1 .. Len(pn) : pn[i].kind = "CollectorConfig"
      BY <1>4, <3>1
    <3> HIDE DEF pn
    <3>3. NoSwitches(pn)
      BY <3>1, <3>2 DEF NoSwitches
    <3> QED
      BY <3>3 DEF pn
  <2>2. NoSwitches(<<>>)
    BY DEF NoSwitches
  <2> QED
    BY <2>1, <2>2 DEF When
<1>8. ExternalResources(o, spec) = r5
  BY DEF ExternalResources
<1> HIDE DEF nads, rs, sv, ex, cc
<1>9. /\ r1 \in Seq(ChildName) /\ Len(r1) = spec.interfaces + 1
      /\ r1[1] = Child("topology", o, None)
      /\ \A i \in 1 .. spec.interfaces : r1[i + 1] = Child("attachment", o, i)
      /\ \A j \in 1 .. Len(r1) : r1[j].kind # "ReplicaSet"
  <2> HIDE DEF Topology
  <2>1. /\ r1 \in Seq(ChildName) /\ Len(r1) = 1 + spec.interfaces
        /\ r1[1] = Topology(o)[1]
        /\ \A i \in 1 .. spec.interfaces : r1[1 + i] = nads[i]
    <3> DEFINE top == Topology(o)
    <3> HIDE DEF top
    <3>1. top \in Seq(ChildName) /\ Len(top) = 1
      BY <1>2 DEF top
    <3>2. /\ top \o nads \in Seq(ChildName) /\ Len(top \o nads) = Len(top) + Len(nads)
          /\ \A i \in 1 .. Len(top) : (top \o nads)[i] = top[i]
          /\ \A i \in 1 .. Len(nads) : (top \o nads)[Len(top) + i] = nads[i]
      BY <1>3, <3>1, Concatenated
    <3> QED
      BY <1>1, <1>3, <3>1, <3>2 DEF top
  <2>2. \A i \in 1 .. spec.interfaces : r1[i + 1] = Child("attachment", o, i)
    BY <1>1, <1>3, <2>1
  <2>3. ASSUME NEW j \in 2 .. Len(r1)
        PROVE  r1[j].kind # "ReplicaSet"
    <3>1. j - 1 \in 1 .. spec.interfaces /\ 1 + (j - 1) = j
      BY <1>1, <2>1
    <3> QED
      BY <1>3, <2>1, <3>1
  <2>4. r1[1].kind # "ReplicaSet"
    BY <1>2, <2>1
  <2> QED
    BY <1>1, <1>2, <2>1, <2>2, <2>3, <2>4
<1> HIDE DEF r1
<1>10. /\ r2 \in Seq(ChildName) /\ Len(r2) >= Len(r1)
       /\ \A j \in 1 .. Len(r1) : r2[j] = r1[j]
       /\ \A j \in Len(r1) + 1 .. Len(r2) : r2[j].of = o
  <2>1. /\ r2 \in Seq(ChildName) /\ Len(r2) = Len(r1) + Len(rs)
        /\ \A j \in 1 .. Len(r1) : r2[j] = r1[j]
        /\ \A i \in 1 .. Len(rs) : r2[Len(r1) + i] = rs[i]
    BY <1>5, <1>9, Concatenated
  <2>2. ASSUME NEW j \in Len(r1) + 1 .. Len(r2)
        PROVE  r2[j].of = o
    <3>1. Len(r1) \in Nat /\ Len(rs) \in Nat
      BY <1>5, <1>9
    <3>2. j - Len(r1) \in 1 .. Len(rs) /\ Len(r1) + (j - Len(r1)) = j
      BY <2>1, <3>1
    <3> QED
      BY <1>5, <2>1, <3>2
  <2>3. Len(r2) >= Len(r1)
    BY <1>5, <1>9, <2>1
  <2> QED
    BY <2>1, <2>2, <2>3
<1> HIDE DEF r2
<1>11. /\ r3 \in Seq(ChildName) /\ Len(r3) >= Len(r2)
       /\ \A j \in 1 .. Len(r2) : r3[j] = r2[j]
       /\ \A j \in Len(r2) + 1 .. Len(r3) : r3[j].kind # "ReplicaSet"
  BY <1>5, <1>10, Appended
<1> HIDE DEF r3
<1>12. /\ r4 \in Seq(ChildName) /\ Len(r4) >= Len(r3)
       /\ \A j \in 1 .. Len(r3) : r4[j] = r3[j]
       /\ \A j \in Len(r3) + 1 .. Len(r4) : r4[j].kind # "ReplicaSet"
  BY <1>6, <1>11, Appended
<1> HIDE DEF r4
<1>13. /\ r5 \in Seq(ChildName) /\ Len(r5) >= Len(r4)
       /\ \A j \in 1 .. Len(r4) : r5[j] = r4[j]
       /\ \A j \in Len(r4) + 1 .. Len(r5) : r5[j].kind # "ReplicaSet"
  BY <1>7, <1>12, Appended
<1> HIDE DEF r5
<1>14. /\ Len(r1) \in Nat /\ Len(r2) \in Nat /\ Len(r3) \in Nat
       /\ Len(r4) \in Nat /\ Len(r5) \in Nat
  BY <1>9, <1>10, <1>11, <1>12, <1>13
<1>15. \A j \in 1 .. Len(r2) : j \in 1 .. Len(r5) /\ r5[j] = r2[j]
  BY <1>11, <1>12, <1>13, <1>14
<1>16. \A j \in 1 .. Len(r1) : j \in 1 .. Len(r5) /\ r5[j] = r1[j]
  BY <1>10, <1>14, <1>15
<1>17. ASSUME NEW j \in 1 .. Len(r5), r5[j].kind = "ReplicaSet"
       PROVE  j > spec.interfaces + 1 /\ r5[j].of = o
  <2>1. j \in 1 .. Len(r2)
    BY <1>11, <1>12, <1>13, <1>14, <1>17
  <2>2. j \notin 1 .. Len(r1)
    BY <1>9, <1>16, <1>17
  <2>3. j \in Len(r1) + 1 .. Len(r2)
    BY <1>14, <2>1, <2>2
  <2> QED
    BY <1>1, <1>9, <1>10, <1>15, <2>1, <2>3
<1>18. /\ Len(r5) >= 1 /\ r5[1] = Child("topology", o, None)
       /\ \A i \in 1 .. spec.interfaces :
            i + 1 \in 1 .. Len(r5) /\ r5[i + 1] = Child("attachment", o, i)
  <2>1. 1 \in 1 .. Len(r1) /\ \A i \in 1 .. spec.interfaces : i + 1 \in 1 .. Len(r1)
    BY <1>1, <1>9
  <2>2. Len(r5) >= 1
    BY <1>14, <1>16, <2>1
  <2> QED
    BY <1>9, <1>16, <2>1, <2>2
<1> QED
  BY <1>8, <1>13, <1>17, <1>18

(* Whatever has a place in the order is one of the children.               *)
LEMMA ChildrenOf ==
  /\ \A c \in ReplicaSets :
       c \in Children /\ c.of \in Overlays
         /\ \E s \in Specs : \E j \in 1 .. Len(ExternalResources(c.of, s)) :
              c = ExternalResources(c.of, s)[j]
  /\ \A o \in Overlays, s \in Specs : \A j \in 1 .. Len(ExternalResources(o, s)) :
       ExternalResources(o, s)[j] \in Children
<1>1. ASSUME NEW o \in Overlays, NEW s \in Specs
      PROVE  DOMAIN ExternalResources(o, s) = 1 .. Len(ExternalResources(o, s))
  BY ResourceOrder, OverlayAssumption
<1>2. ASSUME NEW c \in ReplicaSets
      PROVE  /\ c \in Children /\ c.of \in Overlays
             /\ \E s \in Specs : \E j \in 1 .. Len(ExternalResources(c.of, s)) :
                  c = ExternalResources(c.of, s)[j]
  <2>1. c \in Children /\ c.kind = "ReplicaSet"
    BY DEF ReplicaSets
  <2>2. PICK o \in Overlays, s \in Specs : c \in Members(ExternalResources(o, s))
    BY <2>1 DEF Children
  <2>3. PICK j \in 1 .. Len(ExternalResources(o, s)) : c = ExternalResources(o, s)[j]
    BY <1>1, <2>2 DEF Members
  <2>4. s \in Specifications
    BY OverlayAssumption
  <2>5. c.of = o
    BY <2>1, <2>3, <2>4, ResourceOrder
  <2> QED
    BY <2>1, <2>3, <2>5
<1>3. ASSUME NEW o \in Overlays, NEW s \in Specs,
             NEW j \in 1 .. Len(ExternalResources(o, s))
      PROVE  ExternalResources(o, s)[j] \in Children
  <2>1. ExternalResources(o, s)[j] \in Members(ExternalResources(o, s))
    BY <1>1 DEF Members
  <2>2. Members(ExternalResources(o, s))
          \in {Members(ExternalResources(q, v)) : q \in Overlays, v \in Specs}
    OBVIOUS
  <2> QED
    BY <2>1, <2>2 DEF Children
<1> QED
  BY <1>2, <1>3

-----------------------------------------------------------------------------
(* Type correctness.                                                       *)

(* A step that changes one overlay.                                        *)
LEMMA OverlayStored ==
  ASSUME TypeOK, NEW o \in Overlays, NEW t \in Stored(OverlayValue),
         overlay' = [overlay EXCEPT ![o] = t]
  PROVE  /\ overlay' \in [Overlays -> Stored(OverlayObject \cup {None})]
         /\ \A q \in Overlays : overlay'[q] = IF q = o THEN t ELSE overlay[q]
  BY DEF TypeOK, OverlayValue

LEMMA StoredFacts ==
  ASSUME TypeOK, NEW o \in Overlays
  PROVE  /\ overlay[o] \in Stored(OverlayValue)
         /\ overlay[o].obj \in OverlayValue /\ overlay[o].cache \in OverlayValue
  BY DEF TypeOK, OverlayValue, Stored

LEMMA ObjectFacts ==
  /\ None \notin OverlayObject /\ None \notin ChildObject
  /\ \A v \in OverlayObject :
       /\ v.life \in Nat /\ v.spec \in Specs /\ v.spec \in Specifications
       /\ v.fin \in BOOLEAN /\ v.del \in BOOLEAN
       /\ \A f \in BOOLEAN : [v EXCEPT !.fin = f] \in OverlayObject
                              /\ [v EXCEPT !.del = f] \in OverlayObject
       /\ \A s \in Specs : [v EXCEPT !.spec = s] \in OverlayObject
  BY OverlayObjects, OverlayAssumption DEF OverlayObject

LEMMA WorkFacts ==
  ASSUME TypeOK, work # None
  PROVE  /\ work \in Work /\ work.of \in Overlays /\ work.copy \in OverlayObject
         /\ work.made \in Nat /\ work.at \in Launching \cup Deleting
         /\ work.copy.spec \in Specs /\ work.copy.spec \in Specifications
         /\ Resources \in Seq(ChildName) /\ ChildNow \in ChildObject
<1>1. /\ work \in Work /\ work.of \in Overlays /\ work.copy \in OverlayObject
      /\ work.made \in Nat /\ work.at \in Launching \cup Deleting
  BY DEF TypeOK, Work
<1>2. work.copy.life \in Nat /\ work.copy.spec \in Specs /\ work.copy.spec \in Specifications
  BY <1>1, ObjectFacts
<1>3. Resources \in Seq(ChildName)
  BY <1>1, <1>2, ResourceOrder DEF Resources
<1>4. ChildNow \in ChildObject
  BY <1>1, <1>2 DEF ChildNow, ChildObject
<1> QED
  BY <1>1, <1>2, <1>3, <1>4

(* Every way to go on keeps the type of worker and queue.                  *)
WorkOK == work' \in Work \cup {None} /\ queue' \subseteq Overlays

LEMMA GoOnType ==
  ASSUME TypeOK, work # None,
         \/ \E stage \in Launching \cup Deleting : GoOn(stage)
         \/ Retry \/ Done
         \/ \E made \in Nat : Proceed(made)
  PROVE  WorkOK
<1>1. work \in Work /\ work.of \in Overlays /\ queue \subseteq Overlays
  BY WorkFacts DEF TypeOK
<1>2. ASSUME NEW stage \in Launching \cup Deleting, GoOn(stage)
      PROVE  WorkOK
  BY <1>1, <1>2 DEF GoOn, WorkOK, Work
<1>3. CASE Retry \/ Done
  BY <1>1, <1>3 DEF Retry, Done, WorkOK
<1>4. ASSUME NEW made \in Nat, Proceed(made)
      PROVE  WorkOK
  <2>1. CASE made < Len(Resources)
    BY <1>1, <1>4, <2>1 DEF Proceed, WorkOK, Work
  <2>2. CASE ~ (made < Len(Resources)) /\ work.copy.spec.monitored
    <3>1. GoOn("network") /\ "network" \in Launching \cup Deleting
      BY <1>4, <2>2 DEF Proceed, Launching
    <3> QED
      BY <1>2, <3>1
  <2>3. CASE ~ (made < Len(Resources)) /\ ~ work.copy.spec.monitored
    BY <1>3, <1>4, <2>3 DEF Proceed
  <2> QED
    BY <2>1, <2>2, <2>3
<1> QED
  BY <1>2, <1>3, <1>4

LEMMA EnvironmentType ==
  ASSUME TypeOK, Environment
  PROVE  TypeOK'
<1> USE DEF sdnVars, historyVars
<1>1. ASSUME NEW o \in Overlays, CreateOverlay(o)
      PROVE  TypeOK'
  <2>1. PICK s \in Specs :
          overlay' = [overlay EXCEPT ![o] =
             Write(overlay[o], [life |-> lives[o] + 1, spec |-> s,
                                fin |-> FALSE, del |-> FALSE])]
    BY <1>1 DEF CreateOverlay
  <2>2. [life |-> lives[o] + 1, spec |-> s, fin |-> FALSE, del |-> FALSE] \in OverlayValue
    BY DEF TypeOK, OverlayValue, OverlayObject
  <2>3. overlay' \in [Overlays -> Stored(OverlayObject \cup {None})]
    BY <2>1, <2>2, StoredFacts, WriteCases, OverlayStored
  <2>4. lives' \in [Overlays -> Nat]
    BY <1>1 DEF CreateOverlay, TypeOK
  <2> QED
    BY <1>1, <2>3, <2>4 DEF CreateOverlay, TypeOK
<1>2. ASSUME NEW o \in Overlays, EditOverlay(o)
      PROVE  TypeOK'
  <2>1. PICK s \in Specs :
          overlay' = [overlay EXCEPT ![o] =
                        Write(overlay[o], [overlay[o].obj EXCEPT !.spec = s])]
    BY <1>2 DEF EditOverlay
  <2>2. [overlay[o].obj EXCEPT !.spec = s] \in OverlayValue
    BY <1>2, StoredFacts, ObjectFacts DEF EditOverlay, Live, Exists, OverlayValue
  <2>3. overlay' \in [Overlays -> Stored(OverlayObject \cup {None})]
    BY <2>1, <2>2, StoredFacts, WriteCases, OverlayStored
  <2>4. silenced' \subseteq Overlays /\ faults' \in Nat
    BY <1>2 DEF EditOverlay, Fault, TypeOK
  <2> QED
    BY <1>2, <2>3, <2>4 DEF EditOverlay, TypeOK
<1>3. ASSUME NEW o \in Overlays, DeleteOverlay(o)
      PROVE  TypeOK'
  <2>1. PICK v : /\ overlay' = [overlay EXCEPT ![o] = Write(overlay[o], v)]
                 /\ v \in {[overlay[o].obj EXCEPT !.del = TRUE], None}
    BY <1>3 DEF DeleteOverlay
  <2>2. v \in OverlayValue
    BY <1>3, <2>1, StoredFacts, ObjectFacts DEF DeleteOverlay, Live, Exists, OverlayValue
  <2>3. overlay' \in [Overlays -> Stored(OverlayObject \cup {None})]
    BY <2>1, <2>2, StoredFacts, WriteCases, OverlayStored
  <2> QED
    BY <1>3, <2>3 DEF DeleteOverlay, TypeOK
<1>4. ASSUME NEW o \in Overlays, DeliverOverlay(o)
      PROVE  TypeOK'
  <2>1. overlay' \in [Overlays -> Stored(OverlayObject \cup {None})]
    BY <1>4, StoredFacts, OtherCases, OverlayStored DEF DeliverOverlay
  <2> QED
    BY <1>4, <2>1 DEF DeliverOverlay, TypeOK
<1>5. ASSUME NEW c \in ReplicaSets, DeliverReplicaSet(c)
      PROVE  TypeOK'
  BY <1>5, ChildrenOf DEF DeliverReplicaSet, TypeOK
<1>6. ASSUME NEW c \in Children, Collect(c)
      PROVE  TypeOK'
  BY <1>6 DEF Collect, TypeOK
<1>7. CASE Resync
  BY <1>7 DEF Resync, TypeOK
<1> QED
  BY <1>1, <1>2, <1>3, <1>4, <1>5, <1>6, <1>7 DEF Environment

LEMMA BeginType ==
  ASSUME TypeOK, NEW o \in Overlays, Ignore(o) \/ Begin(o)
  PROVE  TypeOK'
<1> USE DEF sdnVars, historyVars
<1>1. CASE Ignore(o)
  BY <1>1 DEF Ignore, TypeOK
<1>2. ASSUME NEW stage \in Launching \cup Deleting, Start(o, stage), overlay[o].cache # None
      PROVE  TypeOK'
  <2>1. overlay' \in [Overlays -> Stored(OverlayObject \cup {None})]
    BY <1>2, StoredFacts, OtherCases, OverlayStored DEF Start
  <2>2. overlay[o].cache \in OverlayObject
    BY <1>2, StoredFacts DEF OverlayValue
  <2>3. work' \in Work
    BY <1>2, <2>2 DEF Start, Work
  <2> QED
    BY <1>2, <2>1, <2>3 DEF Start, TypeOK
<1>3. CASE Begin(o)
  <2>1. {"register", "create", "prune"} \subseteq Launching \cup Deleting
    BY DEF Launching, Deleting
  <2> QED
    BY <1>2, <1>3, <2>1 DEF Begin
<1> QED
  BY <1>1, <1>3

LEMMA WorkerType ==
  ASSUME TypeOK, WorkerStep
  PROVE  TypeOK'
<1> USE DEF sdnVars, historyVars
<1>1. CASE AddFinalizer
  <2>1. work # None /\ work.of \in Overlays
    BY <1>1, WorkFacts DEF AddFinalizer, WorkingAt
  <2>2. PICK u \in UpdateOutcomes(overlay[work.of], Worker, [work.copy EXCEPT !.fin = TRUE]) :
          /\ overlay' = [overlay EXCEPT ![work.of] = u.after]
          /\ faults' = faults + u.cost
          /\ IF ~ u.ok THEN Retry ELSE IF HasReplicaSet(work.of) THEN Done ELSE GoOn("create")
    BY <1>1 DEF AddFinalizer
  <2>3. [work.copy EXCEPT !.fin = TRUE] \in OverlayValue
    BY <2>1, WorkFacts, ObjectFacts DEF OverlayValue
  <2>4. u.after \in Stored(OverlayValue) /\ u.cost \in {0, 1}
    BY <2>1, <2>3, UpdateCases, StoredFacts, WriteCases
  <2>5. overlay' \in [Overlays -> Stored(OverlayObject \cup {None})]
    BY <2>1, <2>2, <2>4, OverlayStored
  <2>6. WorkOK
    BY <2>1, <2>2, GoOnType DEF Launching
  <2>7. faults' \in Nat
    BY <2>2, <2>4 DEF TypeOK
  <2> QED
    BY <1>1, <2>5, <2>6, <2>7 DEF AddFinalizer, WorkOK, TypeOK
<1>2. CASE CreateExternalResource
  <2> DEFINE c == Resources[work.made + 1]
  <2>1. work # None /\ work.made + 1 \in Nat
    BY <1>2, WorkFacts DEF CreateExternalResource, WorkingAt
  <2>2. /\ \/ UNCHANGED child
           \/ \E v \in {None, ChildNow} : child' = [child EXCEPT ![c] = v]
        /\ Retry \/ Proceed(work.made + 1)
        /\ UNCHANGED faults \/ faults' = faults + 1
    BY <1>2 DEF CreateExternalResource, Fault
  <2>3. child' \in [Children -> ChildObject \cup {None}]
    BY <2>1, <2>2, WorkFacts DEF TypeOK
  <2>4. WorkOK
    BY <2>1, <2>2, GoOnType
  <2>5. faults' \in Nat
    BY <2>2 DEF TypeOK
  <2> QED
    BY <1>2, <2>3, <2>4, <2>5 DEF CreateExternalResource, WorkOK, TypeOK
<1>3. CASE CreateMonitoringNetwork
  <2>1. work # None /\ work.of \in Overlays
    BY <1>3, WorkFacts DEF CreateMonitoringNetwork, WorkingAt
  <2>2. PICK r \in SdnOutcomes(work.of \in sdn) :
          /\ sdn' = sdn \cup {q \in {work.of} : r.done}
          /\ faults' = faults + r.cost
          /\ IF r.ok THEN GoOn("ports") ELSE Retry
    BY <1>3 DEF CreateMonitoringNetwork
  <2>3. sdn' \subseteq Overlays /\ faults' \in Nat
    BY <2>1, <2>2, SdnCases DEF TypeOK
  <2>4. WorkOK
    BY <2>1, <2>2, GoOnType DEF Launching
  <2> QED
    BY <1>3, <2>3, <2>4 DEF CreateMonitoringNetwork, WorkOK, TypeOK
<1>4. CASE AttachProbes
  <2> DEFINE ports == LPMPorts(work.of, Members(work.copy.spec.nodes))
  <2>1. work # None /\ work.of \in Overlays /\ work.copy.spec \in Specifications
    BY <1>4, WorkFacts DEF AttachProbes, WorkingAt
  <2>2. PICK r \in SdnOutcomes(ports \subseteq probed) :
          /\ probed' = probed \cup {q \in ports : r.done}
          /\ faults' = faults + r.cost
    BY <1>4 DEF AttachProbes
  <2>3. Members(work.copy.spec.nodes) \subseteq Nodes
    <3>1. work.copy.spec.nodes \in Seq(Nodes)
      BY <2>1 DEF Specifications
    <3> QED
      BY <3>1 DEF Members
  <2>4. ports \subseteq Overlays \X Nodes
    BY <2>1, <2>3 DEF LPMPorts
  <2>5. probed' \subseteq Overlays \X Nodes /\ faults' \in Nat
    BY <2>2, <2>4, SdnCases DEF TypeOK
  <2>6. WorkOK
    BY <1>4, <2>1, GoOnType DEF AttachProbes
  <2> QED
    BY <1>4, <2>5, <2>6 DEF AttachProbes, WorkOK, TypeOK
<1>5. CASE DeleteAttachments
  <2>1. work # None
    BY <1>5 DEF DeleteAttachments, WorkingAt
  <2>2. child' \in [Children -> ChildObject \cup {None}]
    BY <1>5 DEF DeleteAttachments, TypeOK
  <2>3. faults' \in Nat
    BY <1>5 DEF DeleteAttachments, Fault, TypeOK
  <2>4. WorkOK
    BY <1>5, <2>1, GoOnType DEF DeleteAttachments, Deleting
  <2> QED
    BY <1>5, <2>2, <2>3, <2>4 DEF DeleteAttachments, WorkOK, TypeOK
<1>6. CASE DeleteMonitoringNetwork
  <2>1. work # None
    BY <1>6 DEF DeleteMonitoringNetwork, WorkingAt
  <2>2. PICK r \in SdnOutcomes(work.of \notin sdn) :
          /\ sdn' = sdn \ {q \in {work.of} : r.done}
          /\ probed' = {q \in probed : r.done => q[1] # work.of}
          /\ faults' = faults + r.cost
          /\ IF r.ok THEN GoOn("unfinalize") ELSE Retry
    BY <1>6 DEF DeleteMonitoringNetwork
  <2>3. sdn' \subseteq Overlays /\ probed' \subseteq Overlays \X Nodes /\ faults' \in Nat
    BY <2>2, SdnCases DEF TypeOK
  <2>4. WorkOK
    BY <2>1, <2>2, GoOnType DEF Deleting
  <2> QED
    BY <1>6, <2>3, <2>4 DEF DeleteMonitoringNetwork, WorkOK, TypeOK
<1>7. CASE RemoveFinalizer
  <2>1. work # None /\ work.of \in Overlays
    BY <1>7, WorkFacts DEF RemoveFinalizer, WorkingAt
  <2>2. PICK u \in UpdateOutcomes(overlay[work.of], Worker, None) :
          /\ overlay' = [overlay EXCEPT ![work.of] = u.after]
          /\ faults' = faults + u.cost
          /\ IF u.ok THEN Done ELSE Retry
    BY <1>7 DEF RemoveFinalizer
  <2>3. u.after \in Stored(OverlayValue) /\ u.cost \in {0, 1}
    <3>1. None \in OverlayValue /\ overlay[work.of] \in Stored(OverlayValue)
      BY <2>1, StoredFacts DEF OverlayValue
    <3>2. Write(overlay[work.of], None) \in Stored(OverlayValue)
      BY <3>1, WriteCases
    <3> QED
      BY <2>2, <3>1, <3>2, UpdateCases
  <2>4. overlay' \in [Overlays -> Stored(OverlayObject \cup {None})]
    BY <2>1, <2>2, <2>3, OverlayStored
  <2>5. WorkOK
    BY <2>1, <2>2, GoOnType
  <2>6. faults' \in Nat
    BY <2>2, <2>3 DEF TypeOK
  <2> QED
    BY <1>7, <2>4, <2>5, <2>6 DEF RemoveFinalizer, WorkOK, TypeOK
<1> QED
  BY <1>1, <1>2, <1>3, <1>4, <1>5, <1>6, <1>7 DEF WorkerStep

LEMMA RestartType ==
  ASSUME TypeOK, Restart
  PROVE  TypeOK'
<1>1. overlay' \in [Overlays -> Stored(OverlayObject \cup {None})]
  <2>1. \A o \in Overlays : New(overlay[o].obj) \in Stored(OverlayValue)
    BY StoredFacts, OtherCases
  <2> QED
    BY <2>1 DEF Restart, OverlayValue
<1>2. /\ listed' \subseteq ReplicaSets /\ queue' \subseteq Overlays
      /\ work' = None /\ faults' \in Nat
  BY DEF Restart, Fault, TypeOK
<1> QED
  BY <1>1, <1>2 DEF Restart, TypeOK, sdnVars, historyVars

LEMMA StepType ==
  ASSUME TypeOK, [Next]_vars
  PROVE  TypeOK'
<1>1. CASE Next
  BY <1>1, EnvironmentType, BeginType, WorkerType, RestartType DEF Next
<1>2. CASE UNCHANGED vars
  BY <1>2 DEF vars, sdnVars, historyVars, TypeOK
<1> QED
  BY <1>1, <1>2

LEMMA InitType ==
  ASSUME Init
  PROVE  TypeOK
<1>1. New(None) \in Stored(OverlayValue)
  BY DEF New, Stored, Holders, OverlayValue
<1> QED
  BY <1>1 DEF Init, TypeOK, OverlayValue

(* The variables keep their types, for any number of overlays, nodes and   *)
(* faults, and any specifications: in particular every probe port is one   *)
(* of a node of an overlay, and every request of a replica set is for an   *)
(* overlay of its name.                                                    *)
THEOREM OverlayTypeCorrect == Spec => []TypeOK
<1>1. Init => TypeOK
  BY InitType
<1>2. TypeOK /\ [Next]_vars => TypeOK'
  BY StepType
<1> QED
  BY <1>1, <1>2, PTL DEF Spec

-----------------------------------------------------------------------------
(* What a step may do, under the invariant.                                *)

(* To an overlay: its object stays, is created, is changed and stays of    *)
(* its life, or goes; one with the finalizer only goes when the worker     *)
(* takes it away, from the latest copy. The cache shows what it did, or    *)
(* what there is.                                                          *)
Taken(o) ==
  /\ work # None /\ work.of = o /\ work.at = "unfinalize"
  /\ overlay[o].obj = work.copy /\ overlay[o].cache = work.copy

OverlayStep(o) ==
  /\ \/ overlay[o]'.obj = overlay[o].obj
     \/ /\ ~ Exists(o) /\ Exists(o)' /\ ~ overlay[o]'.obj.fin
        /\ overlay[o]'.obj.life = lives[o] + 1 /\ lives'[o] = lives[o] + 1
     \/ /\ Exists(o) /\ Exists(o)' /\ overlay[o]'.obj.life = overlay[o].obj.life
        /\ overlay[o].obj.fin => overlay[o]'.obj.fin
        /\ overlay[o].obj.del => overlay[o]'.obj.del
        /\ overlay[o].obj.spec.monitored =>
             overlay[o]'.obj.spec.monitored \/ o \in silenced'
     \/ Exists(o) /\ ~ Exists(o)' /\ (~ overlay[o].obj.fin \/ Taken(o))
  /\ overlay[o]'.cache = overlay[o].cache \/ overlay[o]'.cache = overlay[o]'.obj

(* To the worker: it stops, goes on as it is, begins with what the cache   *)
(* shows, or comes to the next stage of the same task.                     *)
Begins ==
  /\ work = None /\ work' # None /\ work'.of \in Overlays /\ work'.made = 0
  /\ UNCHANGED <<child, sdn, silenced>>
  /\ \A o \in Overlays : overlay[o]'.obj = overlay[o].obj /\ overlay[o]'.cache = overlay[o].cache
  /\ work'.copy = overlay[work'.of].cache /\ work'.copy # None
  /\ \/ work'.at = "register" /\ ~ work'.copy.fin /\ ~ work'.copy.del
     \/ work'.at = "create" /\ work'.copy.fin /\ ~ work'.copy.del
     \/ work'.at = "prune" /\ work'.copy.fin /\ work'.copy.del

Registers ==
  /\ work.at = "register" /\ work'.at = "create" /\ work'.made = work.made
  /\ overlay[work.of].obj = work.copy /\ overlay[work.of].cache = work.copy
  /\ overlay[work.of]'.obj = [work.copy EXCEPT !.fin = TRUE]
  /\ UNCHANGED <<child, sdn, silenced>>

Advances ==
  /\ work # None /\ work' # None /\ work'.of = work.of /\ work'.copy = work.copy
  /\ \/ Registers
     \/ /\ work.at = "create" /\ work'.at = "create" /\ work'.made = work.made + 1
        /\ work.made + 1 < Len(Resources)
        /\ child' = [child EXCEPT ![Resources[work.made + 1]] = ChildNow]
        /\ child[Resources[work.made + 1]] = None /\ UNCHANGED <<overlay, sdn, silenced>>
     \/ /\ work.at = "create" /\ work'.at = "network" /\ work.copy.spec.monitored
        /\ UNCHANGED <<overlay, sdn, silenced>>
     \/ work.at = "network" /\ work'.at = "ports" /\ UNCHANGED <<overlay, child, silenced>>
     \/ /\ work.at = "prune" /\ UNCHANGED <<overlay, sdn, silenced>>
        /\ work'.at = IF work.copy.spec.monitored THEN "silence" ELSE "unfinalize"
     \/ /\ work.at = "silence" /\ work'.at = "unfinalize" /\ work.of \notin sdn'
        /\ UNCHANGED <<overlay, child, silenced>>

WorkStep == work' = None \/ work' = work \/ Begins \/ Advances

(* To a child: it is created by the worker, collected, or deleted with the *)
(* attachments; the overlays stay as they are.                             *)
ChildStep(c) ==
  \/ UNCHANGED child
  \/ /\ UNCHANGED <<overlay, lives>>
     /\ \/ child'[c] = child[c]
        \/ Orphaned(c) /\ child'[c] = None
        \/ WorkingAt("prune") /\ c.kind = "attachment" /\ c.of = work.of /\ child'[c] = None
        \/ /\ WorkingAt("create") /\ c = Resources[work.made + 1]
           /\ child[c] = None /\ child'[c] = ChildNow

SdnStep ==
  \A o \in sdn' : o \in sdn \/ (WorkingAt("network") /\ o = work.of /\ UNCHANGED <<overlay, silenced>>)

HistoryStep ==
  /\ silenced \subseteq silenced'
  /\ \A o \in Overlays : lives'[o] >= lives[o]

AnyStep ==
  /\ \A o \in Overlays : OverlayStep(o)
  /\ \A c \in Children : ChildStep(c)
  /\ WorkStep /\ SdnStep /\ HistoryStep

(* A step that changes no overlay.                                         *)
LEMMA NoOverlayStep ==
  ASSUME TypeOK, UNCHANGED <<overlay, silenced, lives>>
  PROVE  (\A o \in Overlays : OverlayStep(o)) /\ HistoryStep
  BY DEF TypeOK, OverlayStep, HistoryStep

(* A step that writes an overlay, or not, and leaves the cache.            *)
LEMMA WroteCopies ==
  ASSUME TypeOK, CopiesCurrent, NEW o \in Overlays, NEW v \in OverlayValue,
         overlay' = [overlay EXCEPT ![o] = Write(overlay[o], v)]
         \/ overlay' = [overlay EXCEPT ![o] = overlay[o]],
         work' = None \/ work' = work
         \/ (work # None /\ work' # None /\ work.of = o /\ work'.of = o /\ v # overlay[o].obj
             /\ overlay' = [overlay EXCEPT ![o] = Write(overlay[o], v)])
  PROVE  CopiesCurrent'
<1>1. PICK t \in Stored(OverlayValue) :
        /\ overlay' = [overlay EXCEPT ![o] = t]
        /\ t = overlay[o] \/ t.fresh = {}
        /\ t = Write(overlay[o], v) \/ t = overlay[o]
  BY StoredFacts, WriteCases
<1>2. \A q \in Overlays : overlay'[q] = IF q = o THEN t ELSE overlay[q]
  BY <1>1, OverlayStored
<1>3. \A q \in Overlays : Current(overlay'[q], Cache) => overlay'[q].cache = overlay'[q].obj
  BY <1>1, <1>2 DEF CopiesCurrent
<1>4. work' # None /\ Current(overlay'[work'.of], Worker) =>
        overlay'[work'.of].obj = work'.copy /\ overlay'[work'.of].cache = work'.copy
  <2>1. CASE work' = work
    BY <1>1, <1>2, <2>1, WorkFacts DEF CopiesCurrent
  <2>2. CASE /\ work # None /\ work' # None /\ work.of = o /\ work'.of = o
             /\ v # overlay[o].obj
             /\ overlay' = [overlay EXCEPT ![o] = Write(overlay[o], v)]
    <3>1. overlay'[o] = Write(overlay[o], v)
      BY <2>2 DEF TypeOK
    <3>2. Write(overlay[o], v).fresh = {}
      BY <2>2, StoredFacts DEF Write, Stored
    <3> QED
      BY <2>2, <3>1, <3>2
  <2>3. CASE work' = None
    BY <2>3
  <2> QED
    BY <2>1, <2>2, <2>3
<1> QED
  BY <1>3, <1>4 DEF CopiesCurrent

-----------------------------------------------------------------------------
(* Every step is such a step, and the latest copies stay true.             *)

(* A step that leaves the children, the worker and the SDN controller.     *)
LEMMA QuietStep ==
  ASSUME TypeOK, UNCHANGED <<child, work, sdn>>
  PROVE  (\A c \in Children : ChildStep(c)) /\ WorkStep /\ SdnStep
  BY DEF ChildStep, WorkStep, SdnStep

(* A step that leaves the overlays and the worker.                         *)
LEMMA SameCopies ==
  ASSUME CopiesCurrent, UNCHANGED <<overlay, work>> \/ (UNCHANGED overlay /\ work' = None)
  PROVE  CopiesCurrent'
  BY DEF CopiesCurrent

LEMMA EnvironmentStep ==
  ASSUME TypeOK, CopiesCurrent, Environment
  PROVE  AnyStep /\ CopiesCurrent'
<1> USE DEF sdnVars, historyVars
<1>1. ASSUME NEW o \in Overlays, CreateOverlay(o)
      PROVE  AnyStep /\ CopiesCurrent'
  <2>1. PICK s \in Specs :
          overlay' = [overlay EXCEPT ![o] =
             Write(overlay[o], [life |-> lives[o] + 1, spec |-> s,
                                fin |-> FALSE, del |-> FALSE])]
    BY <1>1 DEF CreateOverlay
  <2> DEFINE v == [life |-> lives[o] + 1, spec |-> s, fin |-> FALSE, del |-> FALSE]
  <2>2. v \in OverlayValue /\ v # None /\ v.life = lives[o] + 1 /\ ~ v.fin
    <3>1. v \in OverlayObject
      BY DEF TypeOK, OverlayObject
    <3> QED
      BY <3>1, OverlayObjects DEF OverlayValue
  <2> HIDE DEF v
  <2>3. CopiesCurrent'
    <3>1. overlay' = [overlay EXCEPT ![o] = Write(overlay[o], v)]
      BY <2>1 DEF v
    <3> QED
      BY <1>1, <2>2, <3>1, WroteCopies DEF CreateOverlay
  <2>4. \A q \in Overlays :
          overlay'[q] = IF q = o THEN Write(overlay[o], v) ELSE overlay[q]
    <3>1. overlay' = [overlay EXCEPT ![o] = Write(overlay[o], v)]
      BY <2>1 DEF v
    <3> QED
      BY <2>2, <3>1, StoredFacts, WriteCases, OverlayStored
  <2>5. Write(overlay[o], v).obj = v /\ Write(overlay[o], v).cache = overlay[o].cache
    BY <2>2, StoredFacts, WriteCases
  <2>6. lives'[o] = lives[o] + 1 /\ \A q \in Overlays : q # o => lives'[q] = lives[q]
    BY <1>1 DEF CreateOverlay, TypeOK
  <2>7. \A q \in Overlays : OverlayStep(q)
    BY <1>1, <2>2, <2>4, <2>5, <2>6 DEF CreateOverlay, OverlayStep, Exists
  <2>8. HistoryStep
    BY <1>1, <2>6 DEF HistoryStep, CreateOverlay, TypeOK
  <2> QED
    BY <1>1, <2>3, <2>7, <2>8, QuietStep DEF CreateOverlay, AnyStep
<1>2. ASSUME NEW o \in Overlays, EditOverlay(o)
      PROVE  AnyStep /\ CopiesCurrent'
  <2>1. PICK s \in Specs :
          /\ overlay' = [overlay EXCEPT ![o] =
                           Write(overlay[o], [overlay[o].obj EXCEPT !.spec = s])]
          /\ silenced' = silenced \cup
               {q \in {o} : overlay[o].obj.spec.monitored /\ ~ s.monitored}
    BY <1>2 DEF EditOverlay
  <2> DEFINE v == [overlay[o].obj EXCEPT !.spec = s]
  <2>2. overlay[o].obj \in OverlayObject /\ overlay[o].obj # None
    BY <1>2, StoredFacts DEF EditOverlay, Live, Exists, OverlayValue
  <2>3. /\ v \in OverlayObject /\ v.life = overlay[o].obj.life /\ v.spec = s
        /\ v.fin = overlay[o].obj.fin /\ v.del = overlay[o].obj.del
    BY <2>2 DEF OverlayObject
  <2>4. v \in OverlayValue /\ v # None
    BY <2>3, OverlayObjects DEF OverlayValue
  <2> HIDE DEF v
  <2>5. overlay' = [overlay EXCEPT ![o] = Write(overlay[o], v)]
    BY <2>1 DEF v
  <2>6. CopiesCurrent'
    BY <1>2, <2>4, <2>5, WroteCopies DEF EditOverlay
  <2>7. \A q \in Overlays :
          overlay'[q] = IF q = o THEN Write(overlay[o], v) ELSE overlay[q]
    BY <2>4, <2>5, StoredFacts, WriteCases, OverlayStored
  <2>8. Write(overlay[o], v).obj = v /\ Write(overlay[o], v).cache = overlay[o].cache
    BY <2>4, StoredFacts, WriteCases
  <2>9. overlay[o].obj.spec.monitored => s.monitored \/ o \in silenced'
    BY <2>1
  <2>10. \A q \in Overlays : OverlayStep(q)
    BY <2>2, <2>3, <2>4, <2>7, <2>8, <2>9 DEF OverlayStep, Exists
  <2>11. HistoryStep
    BY <1>2, <2>1 DEF HistoryStep, EditOverlay, TypeOK
  <2> QED
    BY <1>2, <2>6, <2>10, <2>11, QuietStep DEF EditOverlay, AnyStep
<1>3. ASSUME NEW o \in Overlays, DeleteOverlay(o)
      PROVE  AnyStep /\ CopiesCurrent'
  <2> DEFINE v == IF overlay[o].obj.fin THEN [overlay[o].obj EXCEPT !.del = TRUE] ELSE None
  <2>1. overlay' = [overlay EXCEPT ![o] = Write(overlay[o], v)]
    BY <1>3 DEF DeleteOverlay
  <2>2. overlay[o].obj \in OverlayObject /\ overlay[o].obj # None
    BY <1>3, StoredFacts DEF DeleteOverlay, Live, Exists, OverlayValue
  <2>3. \/ v = None /\ ~ overlay[o].obj.fin
        \/ /\ v \in OverlayObject /\ v.life = overlay[o].obj.life
           /\ v.spec = overlay[o].obj.spec /\ v.fin = overlay[o].obj.fin /\ v.del
    BY <2>2 DEF OverlayObject
  <2>4. v \in OverlayValue
    BY <2>3 DEF OverlayValue
  <2>5. v = None \/ v # None
    OBVIOUS
  <2> HIDE DEF v
  <2>6. CopiesCurrent'
    BY <1>3, <2>1, <2>4, WroteCopies DEF DeleteOverlay
  <2>7. \A q \in Overlays :
          overlay'[q] = IF q = o THEN Write(overlay[o], v) ELSE overlay[q]
    BY <2>1, <2>4, StoredFacts, WriteCases, OverlayStored
  <2>8. Write(overlay[o], v).obj = v /\ Write(overlay[o], v).cache = overlay[o].cache
    BY <2>4, StoredFacts, WriteCases
  <2>9. v \in OverlayObject => v # None
    BY OverlayObjects
  <2>10. \A q \in Overlays : OverlayStep(q)
    BY <2>2, <2>3, <2>7, <2>8, <2>9 DEF OverlayStep, Exists
  <2>11. HistoryStep
    BY <1>3 DEF HistoryStep, DeleteOverlay, TypeOK
  <2> QED
    BY <1>3, <2>6, <2>10, <2>11, QuietStep DEF DeleteOverlay, AnyStep
<1>4. ASSUME NEW o \in Overlays, DeliverOverlay(o)
      PROVE  AnyStep /\ CopiesCurrent'
  <2>1. \A q \in Overlays :
          overlay'[q] = IF q = o THEN Delivered(overlay[o]) ELSE overlay[q]
    BY <1>4, StoredFacts, OtherCases, OverlayStored DEF DeliverOverlay
  <2>2. /\ Delivered(overlay[o]).obj = overlay[o].obj
        /\ Delivered(overlay[o]).cache = overlay[o].obj
        /\ Current(Delivered(overlay[o]), Worker) => Current(overlay[o], Worker)
    BY StoredFacts, OtherCases
  <2>3. CopiesCurrent'
    BY <1>4, <2>1, <2>2, WorkFacts DEF CopiesCurrent, DeliverOverlay
  <2>4. \A q \in Overlays : OverlayStep(q)
    BY <2>1, <2>2 DEF OverlayStep
  <2>5. HistoryStep
    BY <1>4 DEF HistoryStep, DeliverOverlay, TypeOK
  <2> QED
    BY <1>4, <2>3, <2>4, <2>5, QuietStep DEF DeliverOverlay, AnyStep
<1>5. ASSUME NEW c \in ReplicaSets, DeliverReplicaSet(c)
      PROVE  AnyStep /\ CopiesCurrent'
  BY <1>5, QuietStep, NoOverlayStep, SameCopies DEF DeliverReplicaSet, AnyStep
<1>6. ASSUME NEW c \in Children, Collect(c)
      PROVE  AnyStep /\ CopiesCurrent'
  <2>1. \A d \in Children : child'[d] = IF d = c THEN None ELSE child[d]
    BY <1>6 DEF Collect, TypeOK
  <2>2. \A d \in Children : ChildStep(d)
    BY <1>6, <2>1 DEF Collect, ChildStep
  <2>3. WorkStep /\ SdnStep
    BY <1>6 DEF Collect, WorkStep, SdnStep
  <2> QED
    BY <1>6, <2>2, <2>3, NoOverlayStep, SameCopies DEF Collect, AnyStep
<1>7. CASE Resync
  BY <1>7, QuietStep, NoOverlayStep, SameCopies DEF Resync, AnyStep
<1> QED
  BY <1>1, <1>2, <1>3, <1>4, <1>5, <1>6, <1>7 DEF Environment

LEMMA BeginStep ==
  ASSUME TypeOK, CopiesCurrent, NEW o \in Overlays, Ignore(o) \/ Begin(o)
  PROVE  AnyStep /\ CopiesCurrent'
<1> USE DEF sdnVars, historyVars
<1>1. CASE Ignore(o)
  BY <1>1, QuietStep, NoOverlayStep, SameCopies DEF Ignore, AnyStep
<1>2. CASE Begin(o)
  <2>1. PICK stage \in {"register", "create", "prune"} :
          /\ Start(o, stage) /\ work = None /\ overlay[o].cache # None
          /\ stage = "register" => ~ overlay[o].cache.fin /\ ~ overlay[o].cache.del
          /\ stage = "create" => overlay[o].cache.fin /\ ~ overlay[o].cache.del
          /\ stage = "prune" => overlay[o].cache.fin /\ overlay[o].cache.del
    BY <1>2 DEF Begin, NeedsLaunch, NeedsDeletion
  <2>2. \A q \in Overlays :
          overlay'[q] = IF q = o THEN Copied(overlay[o], Worker) ELSE overlay[q]
    BY <2>1, StoredFacts, OtherCases, OverlayStored DEF Start
  <2>3. /\ Copied(overlay[o], Worker).obj = overlay[o].obj
        /\ Copied(overlay[o], Worker).cache = overlay[o].cache
        /\ Current(Copied(overlay[o], Worker), Cache) => Current(overlay[o], Cache)
        /\ Current(Copied(overlay[o], Worker), Worker) => Current(overlay[o], Cache)
    BY StoredFacts, OtherCases
  <2>4. /\ work' = [at |-> stage, of |-> o, copy |-> overlay[o].cache, made |-> 0]
        /\ work'.at = stage /\ work'.of = o /\ work'.copy = overlay[o].cache /\ work'.made = 0
    BY <2>1 DEF Start
  <2>5. CopiesCurrent'
    <3>1. \A q \in Overlays : Current(overlay'[q], Cache) => overlay'[q].cache = overlay'[q].obj
      BY <2>2, <2>3 DEF CopiesCurrent
    <3>2. Current(overlay'[o], Worker) =>
            overlay'[o].obj = overlay[o].cache /\ overlay'[o].cache = overlay[o].cache
      BY <2>2, <2>3 DEF CopiesCurrent
    <3> QED
      BY <2>4, <3>1, <3>2 DEF CopiesCurrent
  <2>6. \A q \in Overlays : overlay[q]'.obj = overlay[q].obj /\ overlay[q]'.cache = overlay[q].cache
    BY <2>2, <2>3
  <2>7. \A q \in Overlays : OverlayStep(q)
    BY <2>6 DEF OverlayStep
  <2>8. (\A c \in Children : ChildStep(c)) /\ SdnStep /\ HistoryStep
    BY <2>1 DEF Start, ChildStep, SdnStep, HistoryStep, TypeOK
  <2>9. work' # None
    <3>1. overlay[o].cache \in OverlayObject
      BY <2>1, StoredFacts DEF OverlayValue
    <3>2. stage \in Launching \cup Deleting
      BY DEF Launching, Deleting
    <3>3. work' \in Work
      BY <2>4, <3>1, <3>2 DEF Work
    <3> QED
      BY <3>3, OverlayObjects
  <2>10. Begins
    BY <2>1, <2>4, <2>6, <2>9 DEF Begins, Start
  <2> QED
    BY <2>5, <2>7, <2>8, <2>10 DEF AnyStep, WorkStep
<1> QED
  BY <1>1, <1>2

(* The worker goes on with the same task.                                  *)
LEMMA GoOnFacts ==
  ASSUME TypeOK, work # None, NEW stage \in Launching \cup Deleting, GoOn(stage)
  PROVE  /\ work' # None /\ work'.at = stage
         /\ work'.of = work.of /\ work'.copy = work.copy /\ work'.made = work.made
<1>1. work \in Work
  BY WorkFacts
<1>2. work' \in Work
  BY <1>1 DEF GoOn, Work
<1> QED
  BY <1>1, <1>2, OverlayObjects DEF GoOn, Work

LEMMA MadeFacts ==
  ASSUME TypeOK, work # None, NEW made \in Nat, work' = [work EXCEPT !.made = made]
  PROVE  /\ work' # None /\ work'.at = work.at
         /\ work'.of = work.of /\ work'.copy = work.copy /\ work'.made = made
<1>1. work \in Work
  BY WorkFacts
<1>2. work' \in Work
  BY <1>1 DEF Work
<1> QED
  BY <1>1, <1>2, OverlayObjects DEF Work

(* A step of the worker that leaves the overlays.                          *)
LEMMA WorkerCopies ==
  ASSUME CopiesCurrent, UNCHANGED overlay,
         work' = None \/ (work # None /\ work'.of = work.of /\ work'.copy = work.copy)
  PROVE  CopiesCurrent'
  BY DEF CopiesCurrent

LEMMA AddFinalizerStep ==
  ASSUME TypeOK, CopiesCurrent, WorkerSaw, AddFinalizer
  PROVE  AnyStep /\ CopiesCurrent'
<1> USE DEF sdnVars, historyVars
<1> DEFINE o == work.of
           v == [work.copy EXCEPT !.fin = TRUE]
<1>1. work # None /\ o \in Overlays /\ work.copy \in OverlayObject /\ work.at = "register"
  BY WorkFacts DEF AddFinalizer, WorkingAt
<1>2. PICK u \in UpdateOutcomes(overlay[o], Worker, v) :
        /\ overlay' = [overlay EXCEPT ![o] = u.after]
        /\ IF ~ u.ok THEN Retry ELSE IF HasReplicaSet(o) THEN Done ELSE GoOn("create")
  BY DEF AddFinalizer
<1>3. /\ v \in OverlayObject /\ v.life = work.copy.life /\ v.spec = work.copy.spec
      /\ v.fin /\ v.del = work.copy.del
  BY <1>1 DEF OverlayObject
<1>4. ~ work.copy.fin /\ v # work.copy /\ v \in OverlayValue /\ v # None /\ work.copy # None
  BY <1>1, <1>3, OverlayObjects DEF WorkerSaw, OverlayValue
<1>5. /\ u.ok => Current(overlay[o], Worker) /\ u.after = Write(overlay[o], v)
      /\ u.after = overlay[o] \/ (Current(overlay[o], Worker) /\ u.after = Write(overlay[o], v))
  BY <1>2, UpdateCases
<1>6. Current(overlay[o], Worker) => overlay[o].obj = work.copy /\ overlay[o].cache = work.copy
  BY <1>1 DEF CopiesCurrent
<1>7. \/ work' = None
      \/ /\ u.ok /\ work' # None /\ work'.at = "create"
         /\ work'.of = o /\ work'.copy = work.copy /\ work'.made = work.made
  <2>1. "create" \in Launching \cup Deleting
    BY DEF Launching
  <2> QED
    BY <1>1, <1>2, <2>1, GoOnFacts DEF Retry, Done
<1> DEFINE w == Write(overlay[o], v)
<1>8. w \in Stored(OverlayValue) /\ w.obj = v /\ w.cache = overlay[o].cache
  BY <1>1, <1>4, StoredFacts, WriteCases
<1> HIDE DEF v
<1>9. CopiesCurrent'
  <2>1. \/ overlay' = [overlay EXCEPT ![o] = w]
        \/ overlay' = [overlay EXCEPT ![o] = overlay[o]]
    BY <1>2, <1>5
  <2>2. work' # None =>
          /\ work'.of = o /\ v # overlay[o].obj
          /\ overlay' = [overlay EXCEPT ![o] = w]
    BY <1>2, <1>4, <1>5, <1>6, <1>7
  <2> QED
    BY <1>1, <1>4, <2>1, <2>2, WroteCopies
<1>10. \A q \in Overlays : overlay'[q] = IF q = o THEN u.after ELSE overlay[q]
  BY <1>1, <1>2, <1>5, <1>8, StoredFacts, OverlayStored
<1> HIDE DEF w
<1>11. \A q \in Overlays : OverlayStep(q)
  <2>1. CASE u.after = overlay[o]
    BY <1>10, <2>1 DEF OverlayStep
  <2>2. CASE u.after = w /\ overlay[o].obj = work.copy
    BY <1>3, <1>4, <1>8, <1>10, <2>2 DEF OverlayStep, Exists
  <2> QED
    BY <1>5, <1>6, <2>1, <2>2 DEF w
<1>12. WorkStep
  <2>1. CASE work' # None
    <3>1. u.after = w /\ overlay[o].obj = work.copy /\ overlay[o].cache = work.copy
      BY <1>5, <1>6, <1>7, <2>1 DEF w
    <3>2. overlay[o]'.obj = v
      BY <1>1, <1>7, <1>8, <1>10, <2>1, <3>1
    <3>3. overlay[work.of]'.obj = [work.copy EXCEPT !.fin = TRUE]
      BY <3>2 DEF v
    <3>4. Registers
      BY <1>1, <1>7, <2>1, <3>1, <3>3 DEF Registers, AddFinalizer
    <3> QED
      BY <1>1, <1>7, <2>1, <3>4 DEF WorkStep, Advances
  <2> QED
    BY <2>1 DEF WorkStep
<1>13. (\A c \in Children : ChildStep(c)) /\ SdnStep /\ HistoryStep
  BY DEF AddFinalizer, ChildStep, SdnStep, HistoryStep, TypeOK
<1> QED
  BY <1>9, <1>11, <1>12, <1>13 DEF AnyStep

LEMMA CreateStep ==
  ASSUME TypeOK, CopiesCurrent, CreateExternalResource
  PROVE  AnyStep /\ CopiesCurrent'
<1> USE DEF sdnVars, historyVars
<1> DEFINE c == Resources[work.made + 1]
<1>1. work # None /\ work.made \in Nat /\ work.at = "create" /\ UNCHANGED <<overlay, sdn, silenced, lives>>
  BY WorkFacts DEF CreateExternalResource, WorkingAt
<1>2. \/ Retry /\ UNCHANGED child
      \/ /\ child[c] = None /\ child' = [child EXCEPT ![c] = ChildNow]
         /\ Retry \/ Proceed(work.made + 1)
      \/ child[c] = None /\ child' = [child EXCEPT ![c] = None] /\ Retry
  BY DEF CreateExternalResource
<1>3. ASSUME NEW d \in Children
      PROVE  ChildStep(d)
  <2>1. \/ child'[d] = child[d]
        \/ d = c /\ child[c] = None /\ child'[d] = ChildNow
    BY <1>2 DEF TypeOK
  <2> QED
    BY <1>1, <2>1 DEF ChildStep, WorkingAt
<1>4. \/ work' = None
      \/ /\ work'.of = work.of /\ work'.copy = work.copy /\ Advances
  <2>1. CASE Retry
    BY <2>1 DEF Retry
  <2>2. CASE child[c] = None /\ child' = [child EXCEPT ![c] = ChildNow] /\ Proceed(work.made + 1)
    <3>1. CASE work.made + 1 < Len(Resources)
      <4>1. work' = [work EXCEPT !.made = work.made + 1]
        BY <2>2, <3>1 DEF Proceed
      <4>2. /\ work' # None /\ work'.at = "create" /\ work'.made = work.made + 1
            /\ work'.of = work.of /\ work'.copy = work.copy
        BY <1>1, <4>1, MadeFacts
      <4> QED
        BY <1>1, <2>2, <3>1, <4>2 DEF Advances
    <3>2. CASE ~ (work.made + 1 < Len(Resources)) /\ work.copy.spec.monitored
      <4>1. GoOn("network")
        BY <2>2, <3>2 DEF Proceed
      <4>2. /\ work' # None /\ work'.at = "network"
            /\ work'.of = work.of /\ work'.copy = work.copy
        BY <1>1, <4>1, GoOnFacts DEF Launching
      <4> QED
        BY <1>1, <3>2, <4>2 DEF Advances
    <3>3. CASE ~ (work.made + 1 < Len(Resources)) /\ ~ work.copy.spec.monitored
      BY <2>2, <3>3 DEF Proceed, Retry
    <3> QED
      BY <3>1, <3>2, <3>3
  <2> QED
    BY <1>2, <2>1, <2>2
<1>5. CopiesCurrent'
  BY <1>1, <1>4, WorkerCopies
<1>6. SdnStep
  BY <1>1 DEF SdnStep
<1> QED
  BY <1>1, <1>3, <1>4, <1>5, <1>6, NoOverlayStep DEF AnyStep, WorkStep

LEMMA MonitorStep ==
  ASSUME TypeOK, CopiesCurrent, CreateMonitoringNetwork \/ AttachProbes
  PROVE  AnyStep /\ CopiesCurrent'
<1> USE DEF sdnVars, historyVars
<1>1. CASE CreateMonitoringNetwork
  <2>1. work # None /\ work.at = "network" /\ UNCHANGED <<overlay, child, silenced, lives>>
    BY <1>1 DEF CreateMonitoringNetwork, WorkingAt
  <2>2. PICK r \in SdnOutcomes(work.of \in sdn) :
          /\ sdn' = sdn \cup {q \in {work.of} : r.done}
          /\ IF r.ok THEN GoOn("ports") ELSE Retry
    BY <1>1 DEF CreateMonitoringNetwork
  <2>3. \/ work' = None
        \/ /\ work' # None /\ work'.at = "ports"
           /\ work'.of = work.of /\ work'.copy = work.copy
    <3>1. "ports" \in Launching \cup Deleting
      BY DEF Launching
    <3> QED
      BY <2>1, <2>2, <3>1, GoOnFacts DEF Retry
  <2>4. WorkStep
    BY <2>1, <2>3 DEF WorkStep, Advances
  <2>5. CopiesCurrent'
    BY <2>1, <2>3, WorkerCopies
  <2>6. SdnStep
    BY <2>1, <2>2 DEF SdnStep, WorkingAt
  <2>7. \A c \in Children : ChildStep(c)
    BY <2>1 DEF ChildStep
  <2> QED
    BY <2>1, <2>4, <2>5, <2>6, <2>7, NoOverlayStep DEF AnyStep
<1>2. CASE AttachProbes
  <2>1. UNCHANGED <<overlay, child, sdn, silenced, lives>> /\ work' = None
    BY <1>2 DEF AttachProbes, Retry
  <2>2. (\A c \in Children : ChildStep(c)) /\ SdnStep /\ WorkStep
    BY <2>1 DEF ChildStep, SdnStep, WorkStep
  <2> QED
    BY <2>1, <2>2, NoOverlayStep, SameCopies DEF AnyStep
<1> QED
  BY <1>1, <1>2

LEMMA PruneStep ==
  ASSUME TypeOK, CopiesCurrent, DeleteAttachments
  PROVE  AnyStep /\ CopiesCurrent'
<1> USE DEF sdnVars, historyVars
<1>1. /\ work # None /\ work.at = "prune" /\ UNCHANGED <<overlay, sdn, silenced, lives>>
      /\ work' # None /\ work'.of = work.of /\ work'.copy = work.copy
      /\ work'.at = IF work.copy.spec.monitored THEN "silence" ELSE "unfinalize"
  <2>1. work # None /\ work.at = "prune" /\ UNCHANGED <<overlay, sdn, silenced, lives>>
    BY DEF DeleteAttachments, WorkingAt
  <2>2. {"silence", "unfinalize"} \subseteq Launching \cup Deleting
    BY DEF Deleting
  <2>3. CASE work.copy.spec.monitored
    <3>1. GoOn("silence")
      BY <2>3 DEF DeleteAttachments
    <3> QED
      BY <2>1, <2>2, <2>3, <3>1, GoOnFacts
  <2>4. CASE ~ work.copy.spec.monitored
    <3>1. GoOn("unfinalize")
      BY <2>4 DEF DeleteAttachments
    <3> QED
      BY <2>1, <2>2, <2>4, <3>1, GoOnFacts
  <2> QED
    BY <2>3, <2>4
<1>2. ASSUME NEW d \in Children
      PROVE  ChildStep(d)
  <2>1. \/ child'[d] = child[d]
        \/ d.kind = "attachment" /\ d.of = work.of /\ child'[d] = None
    BY DEF DeleteAttachments
  <2> QED
    BY <1>1, <2>1 DEF ChildStep, WorkingAt
<1>3. CopiesCurrent'
  BY <1>1, WorkerCopies
<1>4. WorkStep /\ SdnStep
  BY <1>1 DEF WorkStep, Advances, SdnStep
<1> QED
  BY <1>1, <1>2, <1>3, <1>4, NoOverlayStep DEF AnyStep

LEMMA SilenceStep ==
  ASSUME TypeOK, CopiesCurrent, DeleteMonitoringNetwork
  PROVE  AnyStep /\ CopiesCurrent'
<1> USE DEF sdnVars, historyVars
<1>1. work # None /\ work.at = "silence" /\ UNCHANGED <<overlay, child, silenced, lives>>
  BY DEF DeleteMonitoringNetwork, WorkingAt
<1>2. PICK r \in SdnOutcomes(work.of \notin sdn) :
        /\ sdn' = sdn \ {q \in {work.of} : r.done}
        /\ IF r.ok THEN GoOn("unfinalize") ELSE Retry
  BY DEF DeleteMonitoringNetwork
<1>3. \/ work' = None
      \/ /\ work' # None /\ work'.at = "unfinalize" /\ r.ok
         /\ work'.of = work.of /\ work'.copy = work.copy
  <2>1. "unfinalize" \in Launching \cup Deleting
    BY DEF Deleting
  <2> QED
    BY <1>1, <1>2, <2>1, GoOnFacts DEF Retry
<1>4. r.ok => work.of \notin sdn'
  BY <1>2, SdnCases
<1>5. WorkStep
  BY <1>1, <1>3, <1>4 DEF WorkStep, Advances
<1>6. (\A c \in Children : ChildStep(c)) /\ SdnStep
  BY <1>1, <1>2 DEF ChildStep, SdnStep
<1>7. CopiesCurrent'
  BY <1>1, <1>3, WorkerCopies
<1> QED
  BY <1>1, <1>5, <1>6, <1>7, NoOverlayStep DEF AnyStep

LEMMA RemoveFinalizerStep ==
  ASSUME TypeOK, CopiesCurrent, RemoveFinalizer
  PROVE  AnyStep /\ CopiesCurrent'
<1> USE DEF sdnVars, historyVars
<1>0. PICK o \in Overlays : work # None /\ work.of = o
  BY WorkFacts DEF RemoveFinalizer, WorkingAt
<1>1. /\ work.copy \in OverlayObject /\ work.at = "unfinalize"
      /\ UNCHANGED <<child, sdn, silenced, lives>>
  BY <1>0, WorkFacts DEF RemoveFinalizer, WorkingAt
<1>2. PICK u \in UpdateOutcomes(overlay[o], Worker, None) :
        /\ overlay' = [overlay EXCEPT ![o] = u.after]
        /\ Retry \/ Done
  BY <1>0 DEF RemoveFinalizer
<1>3. u.after = overlay[o]
      \/ (Current(overlay[o], Worker) /\ u.after = Write(overlay[o], None))
  BY <1>2, UpdateCases
<1>4. None \in OverlayValue /\ work' = None /\ work.copy # None
  BY <1>0, <1>1, <1>2, OverlayObjects DEF OverlayValue, Retry, Done
<1>5. CopiesCurrent'
  <2>1. \/ overlay' = [overlay EXCEPT ![o] = Write(overlay[o], None)]
        \/ overlay' = [overlay EXCEPT ![o] = overlay[o]]
    BY <1>2, <1>3
  <2> QED
    BY <1>0, <1>1, <1>4, <2>1, WroteCopies
<1> DEFINE w == Write(overlay[o], None)
<1>6. w \in Stored(OverlayValue) /\ w.obj = None /\ w.cache = overlay[o].cache
  BY <1>0, <1>1, <1>4, StoredFacts, WriteCases
<1>7. \A q \in Overlays : overlay'[q] = IF q = o THEN u.after ELSE overlay[q]
  BY <1>0, <1>1, <1>2, <1>3, <1>6, StoredFacts, OverlayStored
<1>8. \A q \in Overlays : OverlayStep(q)
  <2>1. CASE u.after = overlay[o]
    BY <1>7, <2>1 DEF OverlayStep
  <2>2. CASE Current(overlay[o], Worker) /\ u.after = w
    <3>1. overlay[o].obj = work.copy /\ overlay[o].cache = work.copy
      BY <1>0, <1>1, <2>2 DEF CopiesCurrent
    <3> HIDE DEF w
    <3>2. Taken(o) /\ Exists(o)
      BY <1>0, <1>1, <1>4, <3>1 DEF Taken, Exists
    <3>3. overlay'[o] = w
      BY <1>0, <1>1, <1>7, <2>2
    <3>4. ~ Exists(o)'
      BY <1>6, <3>3 DEF Exists
    <3>5. ASSUME NEW q \in Overlays
          PROVE  OverlayStep(q)
      <4>1. CASE q = o
        BY <1>6, <3>2, <3>3, <3>4, <4>1 DEF OverlayStep
      <4>2. CASE q # o
        BY <1>7, <4>2 DEF OverlayStep
      <4> QED
        BY <4>1, <4>2
    <3> QED
      BY <3>5
  <2> QED
    BY <1>3, <2>1, <2>2
<1>9. (\A c \in Children : ChildStep(c)) /\ SdnStep /\ WorkStep /\ HistoryStep
  BY <1>0, <1>1, <1>4 DEF ChildStep, SdnStep, WorkStep, HistoryStep, TypeOK
<1> QED
  BY <1>5, <1>8, <1>9 DEF AnyStep

LEMMA RestartStep ==
  ASSUME TypeOK, Restart
  PROVE  AnyStep /\ CopiesCurrent'
<1> USE DEF sdnVars, historyVars
<1>1. \A o \in Overlays :
        overlay'[o] = New(overlay[o].obj)
          /\ overlay'[o].obj = overlay[o].obj /\ overlay'[o].cache = overlay[o].obj
  BY StoredFacts, OtherCases DEF Restart
<1>2. \A o \in Overlays : OverlayStep(o)
  BY <1>1 DEF OverlayStep
<1>3. /\ (\A c \in Children : ChildStep(c)) /\ WorkStep /\ SdnStep /\ HistoryStep
      /\ work' = None
  BY DEF Restart, ChildStep, WorkStep, SdnStep, HistoryStep, TypeOK
<1>4. CopiesCurrent'
  BY <1>1, <1>3 DEF CopiesCurrent
<1> QED
  BY <1>2, <1>3, <1>4 DEF AnyStep

LEMMA EveryStep ==
  ASSUME TypeOK, CopiesCurrent, WorkerSaw, [Next]_vars
  PROVE  AnyStep /\ CopiesCurrent'
<1>1. CASE WorkerStep
  BY <1>1, AddFinalizerStep, CreateStep, MonitorStep, PruneStep, SilenceStep,
     RemoveFinalizerStep DEF WorkerStep
<1>2. CASE UNCHANGED vars
  BY <1>2, QuietStep, NoOverlayStep, SameCopies DEF AnyStep, vars, sdnVars, historyVars
<1> QED
  BY <1>1, <1>2, EnvironmentStep, BeginStep, RestartStep DEF Next
-----------------------------------------------------------------------------
(* The finalizer covers the monitoring network.                            *)

(* What is served stays so, unless the worker takes the overlay away.      *)
LEMMA ServesKept ==
  ASSUME NEW o \in Overlays, OverlayStep(o), HistoryStep, ~ Taken(o),
         NEW c, Serves(o, c)
  PROVE  Serves(o, c)'
  BY DEF Serves, OverlayStep, HistoryStep, Exists

LEMMA WorkerSawKept ==
  ASSUME WorkerSaw, WorkStep
  PROVE  WorkerSaw'
<1>1. CASE work' = None \/ work' = work
  BY <1>1 DEF WorkerSaw
<1>2. CASE Begins
  BY <1>2 DEF WorkerSaw, Begins, Deleting
<1>3. CASE Advances
  BY <1>3 DEF WorkerSaw, Advances, Registers, Deleting
<1> QED
  BY <1>1, <1>2, <1>3 DEF WorkStep

LEMMA WorkerServedKept ==
  ASSUME TypeOK, TypeOK', CacheServed, WorkerServed, AnyStep
  PROVE  WorkerServed'
<1> SUFFICES ASSUME work' # None, work'.at \in Running
             PROVE  WorkerServed'
  BY DEF WorkerServed, Running
<1>1. PICK o \in Overlays, c \in OverlayObject : o = work'.of /\ c = work'.copy
  BY WorkFacts DEF TypeOK, Work
<1>2. OverlayStep(o) /\ HistoryStep
  BY DEF AnyStep
<1> SUFFICES Serves(o, c)'
  BY <1>1 DEF WorkerServed, Serves, Exists
<1>3. CASE work' = work
  <2>1. Serves(o, c) /\ ~ Taken(o)
    BY <1>1, <1>3 DEF WorkerServed, Serves, Exists, Taken, Running
  <2> QED
    BY <1>2, <2>1, ServesKept
<1>4. CASE Begins
  <2>1. c = overlay[o].cache /\ c # None /\ c.fin /\ ~ c.del /\ work = None
    BY <1>1, <1>4 DEF Begins, Running
  <2>2. Serves(o, c) /\ ~ Taken(o)
    BY <2>1 DEF CacheServed, Taken
  <2> QED
    BY <1>2, <2>2, ServesKept
<1>5. CASE Advances /\ Registers
  <2>1. /\ work.copy \in OverlayObject /\ o = work.of /\ c = work.copy
        /\ overlay[o].obj = c /\ overlay'[o].obj = [c EXCEPT !.fin = TRUE]
    BY <1>1, <1>5, WorkFacts DEF Advances, Registers
  <2>2. /\ [c EXCEPT !.fin = TRUE] \in OverlayObject
        /\ [c EXCEPT !.fin = TRUE].fin /\ [c EXCEPT !.fin = TRUE].life = c.life
        /\ [c EXCEPT !.fin = TRUE].spec = c.spec
    BY <2>1 DEF OverlayObject
  <2> QED
    BY <2>1, <2>2, OverlayObjects DEF Serves, Exists
<1>6. CASE Advances /\ ~ Registers
  <2>1. work # None /\ work.of = o /\ work.copy = c /\ work.at \in Running
    BY <1>1, <1>6 DEF Advances, Running
  <2>2. Serves(o, c) /\ ~ Taken(o)
    BY <2>1 DEF WorkerServed, Taken, Running
  <2> QED
    BY <1>2, <2>2, ServesKept
<1> QED
  BY <1>3, <1>4, <1>5, <1>6 DEF AnyStep, WorkStep

LEMMA CacheServedKept ==
  ASSUME TypeOK, WorkerSaw, CacheServed, AnyStep
  PROVE  CacheServed'
<1> SUFFICES ASSUME NEW o \in Overlays, NEW c, c = overlay'[o].cache,
                    c # None, c.fin, ~ c.del
             PROVE  Serves(o, c)'
  BY DEF CacheServed, Serves, Exists
<1>1. OverlayStep(o) /\ HistoryStep
  BY DEF AnyStep
<1>2. CASE c = overlay'[o].obj
  BY <1>2 DEF Serves, Exists
<1>3. CASE c = overlay[o].cache
  <2>1. Serves(o, c)
    BY <1>3 DEF CacheServed
  <2>2. ~ Taken(o)
    BY <1>3 DEF Taken, WorkerSaw, Deleting
  <2> QED
    BY <1>1, <2>1, <2>2, ServesKept
<1> QED
  BY <1>1, <1>2, <1>3 DEF OverlayStep

LEMMA NetworkKeptKept ==
  ASSUME TypeOK, WorkerSaw, WorkerServed, NetworkKept, NetworkFirst, AnyStep
  PROVE  NetworkKept'
<1> SUFFICES ASSUME NEW o \in Overlays, o \in sdn', o \notin silenced'
             PROVE  (Exists(o) /\ overlay[o].obj.fin /\ overlay[o].obj.spec.monitored)'
  <2>1. \A o \in sdn' : o \in Overlays
    BY WorkFacts DEF AnyStep, SdnStep, TypeOK, WorkingAt
  <2> QED
    BY <2>1 DEF NetworkKept
<1>1. OverlayStep(o) /\ HistoryStep /\ SdnStep
  BY DEF AnyStep
<1>2. o \notin silenced
  BY <1>1 DEF HistoryStep
<1>3. CASE o \in sdn
  <2>1. Exists(o) /\ overlay[o].obj.fin /\ overlay[o].obj.spec.monitored
    BY <1>2, <1>3 DEF NetworkKept
  <2>2. ~ Taken(o)
    BY <1>3, <2>1 DEF Taken, NetworkFirst
  <2> QED
    BY <1>1, <2>1, <2>2 DEF OverlayStep, Exists
<1>4. CASE WorkingAt("network") /\ o = work.of /\ UNCHANGED <<overlay, silenced>>
  <2>1. Serves(o, work.copy) /\ work.copy.spec.monitored
    BY <1>4 DEF WorkerServed, WorkerSaw, WorkingAt, Running
  <2> QED
    BY <1>2, <1>4, <2>1 DEF Serves, Exists
<1> QED
  BY <1>1, <1>3, <1>4 DEF SdnStep

LEMMA NetworkFirstKept ==
  ASSUME NetworkFirst, AnyStep
  PROVE  NetworkFirst'
<1> SUFFICES ASSUME work' # None, work'.at = "unfinalize", work'.copy.spec.monitored
             PROVE  work'.of \notin sdn'
  BY DEF NetworkFirst
<1>1. WorkStep /\ SdnStep
  BY DEF AnyStep
<1>2. CASE work' = work
  <2>1. work.of \notin sdn /\ ~ WorkingAt("network")
    BY <1>2 DEF NetworkFirst, WorkingAt
  <2> QED
    BY <1>1, <1>2, <2>1 DEF SdnStep
<1>3. CASE Begins
  BY <1>3 DEF Begins
<1>4. CASE Advances
  BY <1>4 DEF Advances, Registers
<1> QED
  BY <1>1, <1>2, <1>3, <1>4 DEF WorkStep

LEMMA StepCover ==
  ASSUME CoverInv, [Next]_vars
  PROVE  CoverInv' /\ AnyStep
<1>1. TypeOK'
  BY StepType DEF CoverInv
<1>2. AnyStep /\ CopiesCurrent'
  BY EveryStep DEF CoverInv
<1>3. WorkStep
  BY <1>2 DEF AnyStep
<1>4. WorkerSaw'
  BY <1>3, WorkerSawKept DEF CoverInv
<1>5. CacheServed'
  BY <1>2, CacheServedKept DEF CoverInv
<1>6. WorkerServed'
  BY <1>1, <1>2, WorkerServedKept DEF CoverInv
<1>7. NetworkKept'
  BY <1>2, NetworkKeptKept DEF CoverInv
<1>8. NetworkFirst'
  BY <1>2, NetworkFirstKept DEF CoverInv
<1> QED
  BY <1>1, <1>2, <1>4, <1>5, <1>6, <1>7, <1>8 DEF CoverInv

LEMMA InitCover ==
  ASSUME Init
  PROVE  CoverInv
<1>1. TypeOK
  BY InitType
<1>2. work = None /\ sdn = {} /\ \A o \in Overlays : overlay[o].cache = None /\ overlay[o].obj = None
  BY DEF Init, New
<1> QED
  BY <1>1, <1>2 DEF CoverInv, CopiesCurrent, WorkerSaw, CacheServed, WorkerServed,
     NetworkKept, NetworkFirst

LEMMA CoverAlways == Spec => []CoverInv
<1>1. Init => CoverInv
  BY InitCover
<1>2. CoverInv /\ [Next]_vars => CoverInv'
  BY StepCover
<1> QED
  BY <1>1, <1>2, PTL DEF Spec

(* No monitoring network is left without an overlay that has the finalizer *)
(* and so deletes it, whatever is edited, lost, refused or restarted,      *)
(* unless the overlay's monitoring was turned off: reconcileDelete deletes *)
(* the network before the finalizer, of an overlay it has the latest       *)
(* version of.                                                             *)
THEOREM NetworkCoveredHolds == Spec => []NetworkCovered
<1>1. CoverInv => NetworkCovered
  BY DEF CoverInv, NetworkKept, NetworkCovered
<1> QED
  BY <1>1, CoverAlways, PTL

-----------------------------------------------------------------------------
(* What an overlay is built of.                                            *)

LEMMA NewIsBare ==
  ASSUME TypeOK, LivesBegun, AnyStep, NEW o \in Overlays, ~ Exists(o), Exists(o)'
  PROVE  Bare(o)'
<1>1. overlay'[o].obj.life = lives[o] + 1
  BY DEF AnyStep, OverlayStep, Exists
<1>2. ASSUME NEW c \in Children, Mine(c, o)'
      PROVE  FALSE
  <2>1. child' = child
    BY DEF AnyStep, ChildStep, Exists
  <2>2. child[c].owner = o /\ child[c] # None /\ child[c].life = lives[o] + 1
    BY <1>1, <1>2, <2>1 DEF Mine
  <2>3. child[c].life \in Nat /\ lives[o] \in Nat
    BY <2>2 DEF TypeOK, ChildObject
  <2> QED
    BY <2>2, <2>3 DEF LivesBegun
<1> QED
  BY <1>2 DEF Bare

(* An overlay that stays is of the same life.                              *)
LEMMA SameLife ==
  ASSUME NEW o \in Overlays, AnyStep, Exists(o), Exists(o)'
  PROVE  overlay'[o].obj.life = overlay[o].obj.life
  BY DEF AnyStep, OverlayStep, Exists

(* What an overlay has stays, unless the attachments are deleted.          *)
LEMMA MineStays ==
  ASSUME NEW o \in Overlays, NEW c \in Children, AnyStep, Mine(c, o), Exists(o)',
         c.kind = "attachment" => ~ (WorkingAt("prune") /\ work.of = c.of)
  PROVE  Mine(c, o)' /\ child'[c] = child[c]
<1>1. child'[c] = child[c]
  <2>1. ~ Orphaned(c)
    BY DEF Orphaned, Mine, Exists
  <2> QED
    BY <2>1 DEF AnyStep, ChildStep, Mine
<1> QED
  BY <1>1, SameLife DEF Mine

(* What an overlay has it had, or the worker has just created it.          *)
Created(c, o) ==
  /\ WorkingAt("create") /\ work.of = o /\ c = Resources[work.made + 1]
  /\ child'[c] = ChildNow /\ UNCHANGED overlay

LEMMA MineCameFrom ==
  ASSUME TypeOK, NEW o \in Overlays, NEW c \in Children, AnyStep, Exists(o), Mine(c, o)'
  PROVE  (Mine(c, o) /\ child'[c] = child[c]) \/ Created(c, o)
<1>1. Exists(o)' /\ child'[c] # None /\ child'[c].owner = o
      /\ child'[c].life = overlay'[o].obj.life
  BY DEF Mine
<1>2. overlay'[o].obj.life = overlay[o].obj.life
  BY <1>1, SameLife
<1>3. CASE child'[c] = child[c]
  BY <1>1, <1>2, <1>3 DEF Mine
<1>4. CASE /\ WorkingAt("create") /\ c = Resources[work.made + 1]
           /\ child'[c] = ChildNow /\ UNCHANGED overlay
  BY <1>1, <1>4 DEF Created, ChildNow
<1> QED
  BY <1>1, <1>3, <1>4 DEF AnyStep, ChildStep

(* What the worker has created is of the overlay as it is now.             *)
LEMMA NowIsMine ==
  ASSUME TypeOK, WorkerServed, WorkingAt("create"), NEW c \in Children,
         NEW o \in Overlays, work.of = o, child[c] = ChildNow
  PROVE  Mine(c, o) /\ child[c].spec = work.copy.spec
<1>1. Serves(work.of, work.copy)
  BY DEF WorkerServed, WorkingAt, Running
<1>2. ChildNow # None /\ ChildNow.owner = work.of /\ ChildNow.life = work.copy.life
      /\ ChildNow.spec = work.copy.spec
  BY WorkFacts, OverlayObjects DEF WorkingAt, ChildNow
<1> QED
  BY <1>1, <1>2 DEF Mine, Serves

LEMMA LivesBegunKept ==
  ASSUME TypeOK, TypeOK', WorkerServed, LivesBegun, AnyStep
  PROVE  LivesBegun'
<1>1. ASSUME NEW o \in Overlays, Exists(o)'
      PROVE  overlay'[o].obj.life =< lives'[o]
  <2>1. lives'[o] >= lives[o] /\ lives[o] \in Nat /\ lives'[o] \in Nat
    BY DEF AnyStep, HistoryStep, TypeOK
  <2>2. Exists(o) => overlay[o].obj.life =< lives[o] /\ overlay[o].obj.life \in Nat
    BY StoredFacts, ObjectFacts DEF LivesBegun, Exists, OverlayValue
  <2>3. CASE Exists(o)
    BY <1>1, <2>1, <2>2, <2>3, SameLife
  <2>4. CASE ~ Exists(o)
    BY <1>1, <2>1, <2>4 DEF AnyStep, OverlayStep, Exists
  <2> QED
    BY <2>3, <2>4
<1>2. ASSUME NEW c \in Children, child'[c] # None
      PROVE  child'[c].life =< lives'[child'[c].owner]
  <2>1. \A o \in Overlays : lives'[o] >= lives[o] /\ lives[o] \in Nat /\ lives'[o] \in Nat
    BY DEF AnyStep, HistoryStep, TypeOK
  <2>2. CASE child'[c] = child[c]
    <3>1. child[c].owner \in Overlays /\ child[c].life \in Nat
      BY <1>2, <2>2 DEF TypeOK, ChildObject
    <3> QED
      BY <1>2, <2>1, <2>2, <3>1 DEF LivesBegun
  <2>3. CASE WorkingAt("create") /\ child'[c] = ChildNow
    <3>1. /\ work.of \in Overlays /\ work.copy \in OverlayObject
          /\ Serves(work.of, work.copy)
      BY <2>3, WorkFacts DEF WorkerServed, WorkingAt, Running
    <3>2. work.copy.life =< lives[work.of] /\ work.copy.life \in Nat
      BY <3>1, ObjectFacts DEF Serves, LivesBegun
    <3>3. child'[c].life = work.copy.life /\ child'[c].owner = work.of
      BY <2>3 DEF ChildNow
    <3> QED
      BY <2>1, <3>1, <3>2, <3>3
  <2> QED
    BY <1>2, <2>2, <2>3 DEF AnyStep, ChildStep
<1> QED
  BY <1>1, <1>2 DEF LivesBegun, Exists

LEMMA DeletedBareKept ==
  ASSUME CoverInv, CoverInv', LivesBegun, DeletedBare, AnyStep
  PROVE  DeletedBare'
<1> SUFFICES ASSUME NEW o \in Overlays, Live(o)'
             PROVE  /\ (overlay[o].cache # None /\ overlay[o].cache.del => Bare(o))'
                    /\ (work # None /\ work.of = o /\ work.at \in Deleting => Bare(o))'
                    /\ (work # None /\ work.of = o /\ work.at \in Running =>
                          ~ (overlay[o].cache # None /\ overlay[o].cache.del))'
  BY DEF DeletedBare
<1>1. TypeOK /\ Exists(o)' /\ OverlayStep(o) /\ WorkStep
  BY DEF CoverInv, Live, AnyStep
<1>2. CASE ~ Exists(o)
  <2>1. Bare(o)'
    BY <1>1, <1>2, NewIsBare
  <2>2. ~ overlay'[o].obj.fin
    BY <1>1, <1>2 DEF OverlayStep, Exists
  <2>3. ~ (work' # None /\ work'.of = o /\ work'.at \in Running)
    BY <2>2 DEF CoverInv, WorkerServed, Serves
  <2> QED
    BY <2>1, <2>3
<1>3. CASE Exists(o)
  <2>1. Live(o)
    BY <1>1, <1>3 DEF OverlayStep, Live, Exists
  <2>2. ASSUME Bare(o), ~ (WorkingAt("create") /\ work.of = o)
        PROVE  Bare(o)'
    BY <1>1, <1>3, <2>2, MineCameFrom DEF Bare, Created
  <2>3. overlay'[o].cache # None /\ overlay'[o].cache.del =>
          overlay[o].cache # None /\ overlay[o].cache.del
    BY <1>1 DEF OverlayStep, Live, Exists
  <2>4. ASSUME overlay'[o].cache # None, overlay'[o].cache.del
        PROVE  Bare(o)'
    BY <2>1, <2>2, <2>3, <2>4 DEF DeletedBare, WorkingAt, Running
  <2>5. ASSUME work' # None, work'.of = o, work'.at \in Deleting
        PROVE  Bare(o)'
    <3>1. CASE Begins
      <4>1. overlay[o].cache # None /\ overlay[o].cache.del
        BY <2>5, <3>1 DEF Begins, Deleting
      <4> QED
        BY <2>1, <2>2, <3>1, <4>1 DEF DeletedBare, Begins, WorkingAt
    <3>2. CASE ~ Begins
      <4>1. work # None /\ work.of = o /\ work.at \in Deleting
        BY <1>1, <2>5, <3>2 DEF WorkStep, Advances, Registers, Deleting
      <4> QED
        BY <2>1, <2>2, <4>1 DEF DeletedBare, WorkingAt, Deleting
    <3> QED
      BY <3>1, <3>2
  <2>6. ASSUME work' # None, work'.of = o, work'.at \in Running,
               overlay'[o].cache # None, overlay'[o].cache.del
        PROVE  FALSE
    <3>1. overlay[o].cache # None /\ overlay[o].cache.del
      BY <2>3, <2>6
    <3>2. CASE Begins
      BY <2>6, <3>1, <3>2 DEF Begins, Running
    <3>3. CASE work' = work
      BY <2>1, <2>6, <3>1, <3>3 DEF DeletedBare
    <3>4. CASE Advances /\ Registers
      BY <2>6, <3>1, <3>4 DEF Advances, Registers, CoverInv, WorkerSaw
    <3>5. CASE Advances /\ ~ Registers
      <4>1. work # None /\ work.of = o /\ work.at \in Running
        BY <2>6, <3>5 DEF Advances, Running
      <4> QED
        BY <2>1, <3>1, <4>1 DEF DeletedBare
    <3> QED
      BY <1>1, <2>6, <3>2, <3>3, <3>4, <3>5 DEF WorkStep
  <2> QED
    BY <2>4, <2>5, <2>6
<1> QED
  BY <1>2, <1>3

(* The first object of an overlay is its topology.                         *)
LEMMA TopologyIsFirst ==
  ASSUME NEW o \in Overlays, NEW spec \in Specs
  PROVE  LET t == Child("topology", o, None)
         IN  t \in Children /\ t = ExternalResources(o, spec)[1] /\ t.kind # "attachment"
<1>1. spec \in Specifications
  BY OverlayAssumption
<1>2. /\ Len(ExternalResources(o, spec)) \in Nat /\ Len(ExternalResources(o, spec)) >= 1
      /\ ExternalResources(o, spec)[1] = Child("topology", o, None)
  BY <1>1, ResourceOrder
<1>3. 1 \in 1 .. Len(ExternalResources(o, spec))
  BY <1>2
<1>4. ExternalResources(o, spec)[1] \in Children
  BY <1>3, ChildrenOf
<1> QED
  BY <1>2, <1>4 DEF Child

LEMMA BuiltFromTopologyKept ==
  ASSUME CoverInv, LivesBegun, BuiltFromTopology, CreatedInOrder, AnyStep
  PROVE  BuiltFromTopology'
<1> SUFFICES ASSUME NEW o \in Overlays, NEW c \in Children, Mine(c, o)',
                    NEW t, t = Child("topology", o, None)
             PROVE  t \in Children /\ Mine(t, o)' /\ child'[c].spec = child'[t].spec
  BY DEF BuiltFromTopology
<1>1. TypeOK /\ Exists(o)'
  BY DEF CoverInv, Mine
<1>2. Exists(o)
  BY <1>1, NewIsBare DEF Bare
<1>3. CASE Mine(c, o) /\ child'[c] = child[c]
  <2>1. t \in Children /\ Mine(t, o) /\ child[c].spec = child[t].spec /\ t.kind # "attachment"
    BY <1>3 DEF BuiltFromTopology, Child
  <2>2. Mine(t, o)' /\ child'[t] = child[t]
    BY <1>1, <2>1, MineStays
  <2> QED
    BY <1>3, <2>1, <2>2
<1>4. CASE Created(c, o)
  <2>1. work # None /\ work.of = o /\ work.copy.spec \in Specs /\ work.made \in Nat
    BY <1>1, <1>4, WorkFacts DEF Created, WorkingAt
  <2>2. t \in Children /\ t = Resources[1] /\ t.kind # "attachment"
    BY <2>1, TopologyIsFirst DEF Resources
  <2>3. CASE work.made = 0
    <3>1. c = t
      BY <1>4, <2>2, <2>3 DEF Created
    <3> QED
      BY <2>2, <3>1
  <2>4. CASE work.made # 0
    <3>1. 1 \in 1 .. work.made
      BY <2>1, <2>4
    <3>2. child[t] = ChildNow
      BY <1>4, <2>2, <3>1 DEF CreatedInOrder, Created
    <3>3. Mine(t, o)
      BY <1>1, <1>4, <2>1, <2>2, <3>2, NowIsMine DEF CoverInv, Created
    <3>4. Mine(t, o)' /\ child'[t] = child[t]
      BY <1>1, <2>2, <3>3, MineStays
    <3> QED
      BY <1>4, <2>2, <3>2, <3>4 DEF Created
  <2> QED
    BY <2>3, <2>4
<1> QED
  BY <1>1, <1>2, <1>3, <1>4, MineCameFrom

LEMMA SameTask ==
  ASSUME work'.of = work.of, work'.copy = work.copy
  PROVE  Resources' = Resources /\ ChildNow' = ChildNow
  BY DEF Resources, ChildNow

LEMMA CreatedInOrderKept ==
  ASSUME CoverInv, CoverInv', CreatedInOrder, AnyStep
  PROVE  CreatedInOrder'
<1>1. TypeOK /\ TypeOK' /\ WorkStep
  BY DEF CoverInv, AnyStep
<1>2. WorkingAt("register")' => work'.made = 0
  BY <1>1 DEF WorkStep, Begins, Advances, Registers, CreatedInOrder, WorkingAt
<1>3. CASE work' = None
  BY <1>3 DEF CreatedInOrder, WorkingAt
<1>4. ASSUME Begins, WorkingAt("create")'
      PROVE  work'.made = 0 /\ 0 < Len(Resources')
  <2>1. PICK o \in Overlays, s \in Specs : o = work'.of /\ s = work'.copy.spec
    BY <1>1, <1>4, ObjectFacts DEF WorkingAt, TypeOK, Work
  <2>2. s \in Specifications
    BY OverlayAssumption
  <2>3. Len(ExternalResources(o, s)) \in Nat /\ Len(ExternalResources(o, s)) >= 1
    BY <2>2, ResourceOrder
  <2>4. Resources' = ExternalResources(o, s)
    BY <2>1 DEF Resources
  <2> QED
    BY <1>4, <2>3, <2>4 DEF Begins
<1>5. ASSUME WorkingAt("create"), work'.of = work.of, work'.copy = work.copy,
             NEW i \in 1 .. work.made
      PROVE  child'[Resources'[i]] = ChildNow'
  <2>1. work # None /\ work.of \in Overlays /\ work.copy.spec \in Specs /\ work.made \in Nat
        /\ Resources \in Seq(ChildName)
    BY <1>1, <1>5, WorkFacts DEF WorkingAt
  <2>2. Resources[i] \in Children
    <3>1. i \in 1 .. Len(Resources)
      BY <1>5, <2>1 DEF CreatedInOrder
    <3> QED
      BY <2>1, <3>1, ChildrenOf DEF Resources
  <2>3. PICK c \in Children, o \in Overlays : c = Resources[i] /\ o = work.of
    BY <2>1, <2>2
  <2>4. child[c] = ChildNow
    BY <1>5, <2>3 DEF CreatedInOrder
  <2>5. Mine(c, o)
    BY <1>1, <1>5, <2>3, <2>4, NowIsMine DEF CoverInv
  <2>6. child'[c] = child[c]
    <3>1. ~ Orphaned(c) /\ child[c] # None
      BY <2>5 DEF Orphaned, Mine, Exists
    <3> QED
      BY <1>5, <3>1 DEF AnyStep, ChildStep, WorkingAt
  <2> QED
    BY <1>5, <2>3, <2>4, <2>6, SameTask
<1>6. CASE work' = work
  <2>1. Resources' = Resources
    BY <1>6, SameTask
  <2> QED
    BY <1>2, <1>5, <1>6, <2>1 DEF CreatedInOrder, WorkingAt
<1>7. CASE Begins
  BY <1>2, <1>4, <1>7 DEF CreatedInOrder
<1>8. CASE Advances
  <2>1. Resources' = Resources /\ ChildNow' = ChildNow
    BY <1>8, SameTask DEF Advances
  <2>2. CASE Registers
    <3>1. /\ work # None /\ work.made = 0 /\ work'.made = 0
          /\ work.of \in Overlays /\ work.copy.spec \in Specs
      BY <1>1, <1>8, <2>2, WorkFacts DEF Advances, Registers, CreatedInOrder, WorkingAt
    <3>2. PICK o \in Overlays, s \in Specifications : o = work.of /\ s = work.copy.spec
      BY <3>1, OverlayAssumption
    <3>3. Len(Resources) \in Nat /\ Len(Resources) >= 1
      BY <3>2, ResourceOrder DEF Resources
    <3> QED
      BY <1>2, <2>1, <3>1, <3>3 DEF CreatedInOrder
  <2>3. CASE /\ work.at = "create" /\ work'.at = "create" /\ work'.made = work.made + 1
             /\ work.made + 1 < Len(Resources)
             /\ child' = [child EXCEPT ![Resources[work.made + 1]] = ChildNow]
    <3>1. work # None /\ work.made \in Nat /\ work.of \in Overlays /\ work.copy.spec \in Specs
          /\ Resources \in Seq(ChildName)
      BY <1>1, <1>8, WorkFacts DEF Advances
    <3>2. work.made + 1 \in 1 .. Len(Resources)
      BY <2>3, <3>1
    <3>3. Resources[work.made + 1] \in Children
      BY <3>1, <3>2, ChildrenOf DEF Resources
    <3>4. child'[Resources[work.made + 1]] = ChildNow
      BY <1>1, <2>3, <3>3 DEF TypeOK
    <3>5. ASSUME NEW i \in 1 .. work'.made
          PROVE  child'[Resources'[i]] = ChildNow'
      <4>1. i = work.made + 1 \/ i \in 1 .. work.made
        BY <2>3, <3>1
      <4>2. CASE i \in 1 .. work.made
        BY <1>5, <1>8, <2>3, <4>2 DEF Advances, WorkingAt
      <4>3. CASE i = work.made + 1
        BY <2>1, <3>4, <4>3
      <4> QED
        BY <4>1, <4>2, <4>3
    <3> QED
      BY <1>2, <2>1, <2>3, <3>5 DEF CreatedInOrder
  <2>4. CASE work'.at # "create"
    BY <1>2, <2>4 DEF CreatedInOrder, WorkingAt
  <2> QED
    BY <1>8, <2>2, <2>3, <2>4 DEF Advances
<1> QED
  BY <1>1, <1>3, <1>6, <1>7, <1>8 DEF WorkStep

(* What a switch of an overlay needs are children of it.                   *)
LEMMA Needed ==
  ASSUME NEW o \in Overlays, NEW s \in Specs, NEW i \in 1 .. s.interfaces
  PROVE  LET a == Child("attachment", o, i)
         IN  a \in Children /\ a = ExternalResources(o, s)[i + 1] /\ a.of = o
<1>1. s \in Specifications
  BY OverlayAssumption
<1>2. i + 1 \in 1 .. Len(ExternalResources(o, s))
      /\ ExternalResources(o, s)[i + 1] = Child("attachment", o, i)
  BY <1>1, ResourceOrder
<1> QED
  BY <1>2, ChildrenOf DEF Child

LEMMA SwitchesHaveConfigKept ==
  ASSUME CoverInv, BuildInv, AnyStep
  PROVE  SwitchesHaveConfig'
<1> SUFFICES ASSUME NEW o \in Overlays, NEW c \in ReplicaSets, Mine(c, o)', Live(o)'
             PROVE  /\ Mine(Child("topology", o, None), o)'
                    /\ \A i \in 1 .. child'[c].spec.interfaces :
                         Mine(Child("attachment", o, i), o)'
  BY DEF SwitchesHaveConfig
<1>1. TypeOK /\ Exists(o)' /\ c \in Children /\ c.kind = "ReplicaSet"
  BY DEF CoverInv, Mine, ReplicaSets
<1>2. Exists(o)
  BY <1>1, NewIsBare DEF Bare, BuildInv
<1>3. Live(o)
  BY <1>2 DEF AnyStep, OverlayStep, Live, Exists
<1>4. ASSUME NEW d \in Children, Mine(d, o), d.kind = "attachment" => d.of = o
      PROVE  Mine(d, o)'
  <2>1. ~ (WorkingAt("prune") /\ work.of = o)
    BY <1>3, <1>4 DEF BuildInv, DeletedBare, Bare, WorkingAt, Deleting
  <2> QED
    BY <1>1, <1>4, <2>1, MineStays
<1>5. CASE Mine(c, o) /\ child'[c] = child[c]
  <2>1. child[c].spec \in Specs
    BY <1>1, <1>5 DEF Mine, TypeOK, ChildObject
  <2>2. PICK s \in Specs : s = child[c].spec
    BY <2>1
  <2>3. /\ Mine(Child("topology", o, None), o)
        /\ \A i \in 1 .. s.interfaces : Mine(Child("attachment", o, i), o)
    BY <1>3, <1>5, <2>2 DEF BuildInv, SwitchesHaveConfig
  <2>4. Mine(Child("topology", o, None), o)'
    BY <1>4, <2>2, <2>3, TopologyIsFirst
  <2>5. ASSUME NEW i \in 1 .. s.interfaces
        PROVE  Mine(Child("attachment", o, i), o)'
    BY <1>4, <2>3, Needed
  <2> QED
    BY <1>5, <2>2, <2>4, <2>5
<1>6. CASE Created(c, o)
  <2>1. PICK s \in Specs : s = work.copy.spec
    BY <1>1, <1>6, WorkFacts DEF Created, WorkingAt
  <2>2. /\ work # None /\ work.of = o /\ work.made \in Nat /\ Resources = ExternalResources(o, s)
        /\ work.made < Len(Resources) /\ Len(Resources) \in Nat
        /\ s \in Specifications /\ s.interfaces \in Nat
    BY <1>1, <1>6, <2>1, WorkFacts, OverlayAssumption
    DEF Created, WorkingAt, Resources, BuildInv, CreatedInOrder, Specifications
  <2>3. work.made + 1 \in 1 .. Len(Resources) /\ c = Resources[work.made + 1]
    BY <1>6, <2>2 DEF Created
  <2>4. work.made + 1 > s.interfaces + 1
    BY <1>1, <2>2, <2>3, ResourceOrder
  <2>5. ASSUME NEW j \in 1 .. work.made, NEW d \in Children, d = Resources[j],
               d.kind = "attachment" => d.of = o
        PROVE  Mine(d, o)'
    <3>1. child[d] = ChildNow
      BY <1>6, <2>5 DEF BuildInv, CreatedInOrder, Created
    <3>2. Mine(d, o)
      BY <1>1, <1>6, <2>2, <3>1, NowIsMine DEF CoverInv, Created
    <3> QED
      BY <1>4, <2>5, <3>2
  <2>6. Mine(Child("topology", o, None), o)'
    <3>1. 1 \in 1 .. work.made
      BY <2>2, <2>4
    <3> QED
      BY <2>2, <2>5, <3>1, TopologyIsFirst
  <2>7. ASSUME NEW i \in 1 .. s.interfaces
        PROVE  Mine(Child("attachment", o, i), o)'
    <3>1. i + 1 \in 1 .. work.made
      BY <2>2, <2>4
    <3> QED
      BY <2>2, <2>5, <3>1, Needed
  <2>8. child'[c].spec = s
    BY <1>6, <2>1 DEF Created, ChildNow
  <2> QED
    BY <2>6, <2>7, <2>8
<1> QED
  BY <1>1, <1>2, <1>5, <1>6, MineCameFrom

OverlayInv == CoverInv /\ BuildInv

LEMMA InitOverlay ==
  ASSUME Init
  PROVE  OverlayInv
<1>1. CoverInv
  BY InitCover
<1>2. work = None /\ \A o \in Overlays : ~ Exists(o)
  BY DEF Init, New, Exists
<1>3. \A c \in Children : child[c] = None
  BY DEF Init
<1> QED
  BY <1>1, <1>2, <1>3 DEF OverlayInv, BuildInv, LivesBegun, DeletedBare,
     BuiltFromTopology, CreatedInOrder, SwitchesHaveConfig, Live, Mine, WorkingAt

LEMMA StepOverlay ==
  ASSUME OverlayInv, [Next]_vars
  PROVE  OverlayInv'
<1>1. CoverInv' /\ AnyStep
  BY StepCover DEF OverlayInv
<1>2. LivesBegun'
  BY <1>1, LivesBegunKept DEF OverlayInv, CoverInv, BuildInv
<1>3. DeletedBare'
  BY <1>1, DeletedBareKept DEF OverlayInv, BuildInv
<1>4. BuiltFromTopology'
  BY <1>1, BuiltFromTopologyKept DEF OverlayInv, BuildInv
<1>5. CreatedInOrder'
  BY <1>1, CreatedInOrderKept DEF OverlayInv, BuildInv
<1>6. SwitchesHaveConfig'
  BY <1>1, SwitchesHaveConfigKept DEF OverlayInv
<1> QED
  BY <1>1, <1>2, <1>3, <1>4, <1>5, <1>6 DEF OverlayInv, BuildInv

LEMMA OverlayAlways == Spec => []OverlayInv
<1>1. Init => OverlayInv
  BY InitOverlay
<1>2. OverlayInv /\ [Next]_vars => OverlayInv'
  BY StepOverlay
<1> QED
  BY <1>1, <1>2, PTL DEF Spec

(* A switch of an overlay that is not deleted has the topology it mounts   *)
(* and the attachments its template names: createExternalResources creates *)
(* them first, and stops at the first that is there already, so that it    *)
(* never goes on from what another overlay of the name has left; and       *)
(* reconcileDelete, which deletes attachments by the name, never runs for  *)
(* an overlay that has been created anew and has any.                      *)
THEOREM SwitchesHaveConfigHolds == Spec => []SwitchesHaveConfig
<1>1. OverlayInv => SwitchesHaveConfig
  BY DEF OverlayInv, BuildInv
<1> QED
  BY <1>1, OverlayAlways, PTL

(* All objects of an overlay are built from one version of its             *)
(* specification: that of the topology, without which nothing is created   *)
(* and with which nothing is begun again.                                  *)
THEOREM BuiltFromOneSpecHolds == Spec => []BuiltFromOneSpec
<1>1. OverlayInv => BuiltFromOneSpec
  BY DEF OverlayInv, BuildInv, BuiltFromTopology, BuiltFromOneSpec
<1> QED
  BY <1>1, OverlayAlways, PTL

-----------------------------------------------------------------------------
(* The addresses of the collectors.                                        *)

LEMMA InSpace ==
  ASSUME NEW a \in 0 .. AddressSpace - 1, NEW k \in 0 .. AddressSpace
  PROVE  (a + k) % AddressSpace = IF a + k < AddressSpace THEN a + k
                                                          ELSE a + k - AddressSpace
BY SpaceAssumption

(* The node at place k of a list without repetitions has the address k + 1 *)
(* steps after the one in the CIDR.                                        *)
LEMMA AddressAtPlace ==
  ASSUME NEW nodes \in NodeLists, NEW cidr \in CIDRs,
         CanAllocate(cidr, DefaultIPStart, Len(nodes)), NEW k \in DOMAIN nodes
  PROVE  /\ k \in Nat /\ k >= 1 /\ k + 1 =< cidr.size - 2
         /\ cidr.ip \in 0 .. AddressSpace - 1 /\ cidr.size \in 1 .. AddressSpace
         /\ NodeIP(nodes, cidr, nodes[k]) = (cidr.ip + (k + 1)) % AddressSpace
<1>1. PICK count \in 1 .. Cardinality(Nodes) : nodes \in [1 .. count -> Nodes]
  BY DEF NodeLists
<1>2. count \in Nat
  <2>1. Cardinality(Nodes) \in Nat
    BY OverlayAssumption, FS_CardinalityType
  <2> QED
    BY <2>1
<1>3. Len(nodes) = count /\ k \in 1 .. count
  BY <1>1, <1>2
<1>4. /\ cidr.ip \in 0 .. AddressSpace - 1 /\ cidr.size \in 1 .. AddressSpace
      /\ k + 1 =< cidr.size - 2
  BY <1>2, <1>3, SpaceAssumption DEF CIDRs, CanAllocate, DefaultIPStart
<1>5. \A i \in DOMAIN nodes : nodes[i] = nodes[k] => i = k
  BY DEF NodeLists
<1> DEFINE place == CHOOSE i \in DOMAIN nodes :
                      nodes[i] = nodes[k] /\ \A j \in DOMAIN nodes : nodes[j] = nodes[k] => j =< i
<1>6. place = k
  <2>1. nodes[k] = nodes[k] /\ \A j \in DOMAIN nodes : nodes[j] = nodes[k] => j =< k
    BY <1>2, <1>3, <1>5
  <2> QED
    BY <1>5, <2>1
<1>7. NodeIP(nodes, cidr, nodes[k]) = AllocateIPv4s(cidr, DefaultIPStart, count)[k]
  BY <1>3, <1>6 DEF NodeIP
<1>8. AllocateIPv4s(cidr, DefaultIPStart, count)[k] = (cidr.ip + 2 + (k - 1)) % AddressSpace
  BY <1>3 DEF AllocateIPv4s, DefaultIPStart
<1>9. cidr.ip + 2 + (k - 1) = cidr.ip + (k + 1)
  BY <1>2, <1>3, <1>4, SpaceAssumption
<1> QED
  BY <1>2, <1>3, <1>4, <1>7, <1>8, <1>9

LEMMA NodesAgree ==
  ASSUME NEW nodes \in NodeLists, NEW cidr \in CIDRs,
         CanAllocate(cidr, DefaultIPStart, Len(nodes))
  PROVE  Agree(nodes, cidr)
<1>1. ASSUME NEW k \in DOMAIN nodes, IsNetworkAddress(cidr)
      PROVE  NodeIP(nodes, cidr, nodes[k]) \in HostAddresses(cidr)
  <2>1. /\ k \in Nat /\ k >= 1 /\ k + 1 =< cidr.size - 2
        /\ cidr.ip \in 0 .. AddressSpace - 1 /\ cidr.size \in 1 .. AddressSpace
        /\ NodeIP(nodes, cidr, nodes[k]) = (cidr.ip + (k + 1)) % AddressSpace
    BY AddressAtPlace
  <2>2. cidr.ip + cidr.size =< AddressSpace
    BY <1>1 DEF IsNetworkAddress
  <2>3. k + 1 \in 0 .. AddressSpace /\ cidr.ip + (k + 1) < AddressSpace
    BY <2>1, <2>2, SpaceAssumption
  <2>4. NodeIP(nodes, cidr, nodes[k]) = cidr.ip + (k + 1)
    BY <2>1, <2>3, InSpace
  <2>5. k \in Nat /\ cidr.ip \in Nat /\ cidr.size \in Nat /\ k >= 1 /\ k + 1 =< cidr.size - 2
    BY <2>1, SpaceAssumption
  <2>6. cidr.ip + (k + 1) \in cidr.ip + 1 .. cidr.ip + cidr.size - 2
    BY <2>5
  <2> QED
    BY <2>4, <2>6 DEF HostAddresses
<1>2. ASSUME NEW k \in DOMAIN nodes, NEW j \in DOMAIN nodes, k # j
      PROVE  NodeIP(nodes, cidr, nodes[k]) # NodeIP(nodes, cidr, nodes[j])
  <2>1. /\ k \in Nat /\ k >= 1 /\ k + 1 =< cidr.size - 2
        /\ cidr.ip \in 0 .. AddressSpace - 1 /\ cidr.size \in 1 .. AddressSpace
        /\ NodeIP(nodes, cidr, nodes[k]) = (cidr.ip + (k + 1)) % AddressSpace
    BY AddressAtPlace
  <2>2. /\ j \in Nat /\ j >= 1 /\ j + 1 =< cidr.size - 2
        /\ NodeIP(nodes, cidr, nodes[j]) = (cidr.ip + (j + 1)) % AddressSpace
    BY AddressAtPlace
  <2>3. k + 1 \in 0 .. AddressSpace /\ j + 1 \in 0 .. AddressSpace
        /\ k + 1 < AddressSpace /\ j + 1 < AddressSpace
    BY <2>1, <2>2, SpaceAssumption
  <2>4. (cidr.ip + (k + 1)) % AddressSpace =
          IF cidr.ip + (k + 1) < AddressSpace THEN cidr.ip + (k + 1)
                                              ELSE cidr.ip + (k + 1) - AddressSpace
    BY <2>1, <2>3, InSpace
  <2>5. (cidr.ip + (j + 1)) % AddressSpace =
          IF cidr.ip + (j + 1) < AddressSpace THEN cidr.ip + (j + 1)
                                              ELSE cidr.ip + (j + 1) - AddressSpace
    BY <2>1, <2>3, InSpace
  <2>6. /\ k \in Nat /\ j \in Nat /\ k # j /\ cidr.ip \in Nat /\ AddressSpace \in Nat
        /\ k + 1 < AddressSpace /\ j + 1 < AddressSpace
    BY <1>2, <2>1, <2>2, <2>3, SpaceAssumption
  <2>7. (IF cidr.ip + (k + 1) < AddressSpace THEN cidr.ip + (k + 1)
                                             ELSE cidr.ip + (k + 1) - AddressSpace)
        # (IF cidr.ip + (j + 1) < AddressSpace THEN cidr.ip + (j + 1)
                                               ELSE cidr.ip + (j + 1) - AddressSpace)
    BY <2>6
  <2> QED
    BY <2>1, <2>2, <2>4, <2>5, <2>7
<1> DEFINE told == [n \in Members(nodes) |-> CollectorConfig(nodes, cidr, n)]
<1>3. ASSUME NEW n \in Members(nodes)
      PROVE  /\ told[n].ip = NodeIP(nodes, cidr, n)
             /\ \A m \in Members(nodes) \ {n} : told[n].peers[m] = NodeIP(nodes, cidr, m)
  BY DEF CollectorConfig
<1> HIDE DEF told
<1>4. ASSUME NEW n \in Members(nodes)
      PROVE  /\ IsNetworkAddress(cidr) => told[n].ip \in HostAddresses(cidr)
             /\ \A m \in Members(nodes) \ {n} :
                  told[m].ip # told[n].ip /\ told[m].peers[n] = told[n].ip
  <2>1. PICK k \in DOMAIN nodes : n = nodes[k]
    BY DEF Members
  <2>2. ASSUME NEW m \in Members(nodes) \ {n}
        PROVE  told[m].ip # told[n].ip /\ told[m].peers[n] = told[n].ip
    <3>1. PICK j \in DOMAIN nodes : m = nodes[j]
      BY DEF Members
    <3> QED
      BY <1>2, <1>3, <2>1, <2>2, <3>1
  <2> QED
    BY <1>1, <1>3, <2>1, <2>2
<1> QED
  BY <1>4 DEF Agree, told

(* The collectors get different addresses, those that the others look for  *)
(* them at, and addresses of hosts of the subnet: for any list of nodes    *)
(* without repetitions, any CIDR that CanAllocate accepts for it and any   *)
(* width of an address, although AllocateIPv4s counts in 32 bits and       *)
(* never looks at the subnet again.                                        *)
THEOREM CollectorsAgreeHolds == Spec => []CollectorsAgree
<1>1. CollectorsAgree
  BY NodesAgree DEF CollectorsAgree
<1> QED
  BY <1>1, PTL
=============================================================================
