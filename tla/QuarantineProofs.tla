-------------------------- MODULE QuarantineProofs --------------------------
(***************************************************************************)
(* Proofs about the quarantine controller beside the pod controller: the   *)
(* type invariant, that the network in the annotation of a moved pod has   *)
(* its port, and that no address is recorded in two networks.              *)
(***************************************************************************)
EXTENDS Quarantine, TLAPS

USE DEF Cache, Worker, PodWorker, Current

PodValue == PodObject \cup {None}
NetValue == NetStatus \cup {None}
RequestValue == RequestStatus \cup {None}

-----------------------------------------------------------------------------
(* The inductive invariant: what needs no assumption on the requests.      *)

(* A cache with the latest resourceVersion says what the object says.      *)
Honest(s) == Current(s, Cache) => s.cache = s.obj
CopiesCurrent == \A p \in Pods : Honest(pod[p])

(* Which networks there are does not change, and the cache shows it.       *)
NetworksKnown == \A n \in Networks : net[n].obj = None <=> net[n].cache = None

(* What the pod controller read, and still has the latest version of, is   *)
(* there.                                                                  *)
PodWorkerSaw ==
  podWork # None /\ Current(pod[podWork.pod], PodWorker) => Exists(podWork.pod)

(* The same for the pods the quarantine is about to move: they are in the  *)
(* source network.                                                         *)
Before == {"detach", "attach", "annotate"}
Waiting == work.todo \cup {p \in {work.pod} : work.at \in Before}

WorkerSaw ==
  work # None /\ work.at \in Moving =>
    \A p \in Waiting :
      Current(pod[p], Worker) => Live(p) /\ pod[p].obj.net = work.source

(* What the worker has looked at before it moves a pod.                    *)
WorkChecked ==
  work # None /\ work.at \in Moving \cup {"check"} =>
    /\ work.source \in Networks \cap Sources[work.req]
    /\ Known(work.source) /\ Known(Target[work.req])
    /\ work.at \in Moving => work.pod \in Pods

TypeInv ==
  /\ TypeOK /\ CopiesCurrent /\ NetworksKnown
  /\ PodWorkerSaw /\ WorkerSaw /\ WorkChecked

-----------------------------------------------------------------------------
(* The life of a pod, and the networks it can be in.                       *)

(* A pod is created once, and its deletion is not taken back.              *)
CreatedOnce == \A p \in Pods : p \notin born => ~ Exists(p) /\ pod[p].cache = None

Doomed(p) == p \in born /\ ~ Live(p)

DeletionIsFinal ==
  /\ \A p \in Pods : pod[p].cache # None /\ pod[p].cache.del => Doomed(p)
  /\ podWork # None /\ podWork.at \in {"detach", "unfinalize"} => Doomed(podWork.pod)

Place(p, v) == v # None => v.net \in {Home[p]} \cup Goals(p)
InPlace == \A p \in Pods : Place(p, pod[p].obj) /\ Place(p, pod[p].cache)

(* The worker moves selected pods, out of their home.                      *)
Movable(p) == p \in born /\ p \in Selected[work.req] /\ Home[p] = work.source
MovesFromHome ==
  work # None /\ work.at \in Moving => \A p \in work.todo \cup {work.pod} : Movable(p)

(* A pod whose annotation has been written is no longer at home.           *)
Gone(p) == ~ Exists(p) \/ pod[p].obj.net # Home[p]
AnnotatedGone ==
  work # None /\ work.at \in {"leave", "enter"} => Gone(work.pod)

LifeInv ==
  /\ CreatedOnce /\ DeletionIsFinal /\ InPlace /\ MovesFromHome /\ AnnotatedGone

-----------------------------------------------------------------------------
(* The ports.                                                              *)

OutOfHome(p) == <<Home[p], p>> \in attached => <<Home[p], p>> \in late

PortsOnTheWay ==
  /\ WorkingAt("attach") \/ WorkingAt("annotate") => OutOfHome(work.pod)
  /\ WorkingAt("annotate") => <<Target[work.req], work.pod>> \in attached \/ ~ Live(work.pod)

(* The records.                                                            *)
Recorded(n, p) ==
  net[n].obj # None /\ IpOf[p] # None /\ net[n].obj.assigned[IpOf[p]] = p

RecordsOfBorn == \A p \in Pods, n \in Networks : Recorded(n, p) => p \in born

RecordedAtHome ==
  \A p \in Pods, n \in Networks :
    Recorded(n, p) /\ Exists(p) /\ pod[p].obj.net = Home[p] => n = Home[p]

RecordsOnTheWay ==
  \A n \in Networks :
    /\ WorkingAt("leave") /\ Recorded(n, work.pod) => n = work.source
    /\ WorkingAt("enter") => ~ Recorded(n, work.pod)

MoveInv ==
  /\ TypeInv /\ LifeInv
  /\ PortsOnTheWay /\ MovedWithPort
  /\ RecordsOfBorn /\ RecordedAtHome /\ RecordsOnTheWay /\ RecordedOnce

-----------------------------------------------------------------------------
(* The operators of the store.                                             *)

Others == {Worker, PodWorker}

(* t is s with a value of its own, or s again: nobody gains a copy of s.   *)
Keeps(s, t) ==
  \A h \in Others : Current(t, h) => Current(s, h) /\ t.obj = s.obj

LEMMA WriteCases ==
  ASSUME NEW V, NEW s \in Stored(V), NEW v \in V
  PROVE  /\ Write(s, v) \in Stored(V)
         /\ Write(s, v).obj = v /\ Write(s, v).cache = s.cache
         /\ Honest(s) => Honest(Write(s, v))
         /\ Keeps(s, Write(s, v))
  BY DEF Stored, Write, Holders, Honest, Keeps, Others

LEMMA OtherCases ==
  ASSUME NEW V, NEW s \in Stored(V)
  PROVE  /\ Touched(s) \in Stored(V) /\ Touched(s).obj = s.obj /\ Touched(s).cache = s.cache
         /\ Delivered(s) \in Stored(V) /\ Delivered(s).obj = s.obj /\ Delivered(s).cache = s.obj
         /\ New(s.obj) \in Stored(V) /\ New(s.obj).obj = s.obj /\ New(s.obj).cache = s.obj
         /\ Honest(Touched(s)) /\ Honest(Delivered(s)) /\ Honest(New(s.obj))
         /\ Keeps(s, Touched(s)) /\ Keeps(s, Delivered(s)) /\ Keeps(s, New(s.obj))
  BY DEF Touched, Delivered, New, Stored, Holders, Honest, Keeps, Others

LEMMA CopiedCases ==
  ASSUME NEW V, NEW s \in Stored(V), NEW h \in Others
  PROVE  /\ Copied(s, h) \in Stored(V) /\ Copied(s, h).obj = s.obj
         /\ Copied(s, h).cache = s.cache
         /\ Current(Copied(s, h), h) => Current(s, Cache)
         /\ \A g \in Others \ {h} : Current(Copied(s, h), g) => Current(s, g)
         /\ Honest(s) => Honest(Copied(s, h))
         /\ Forgotten(s, h) \in Stored(V) /\ Forgotten(s, h).obj = s.obj
         /\ Forgotten(s, h).cache = s.cache /\ ~ Current(Forgotten(s, h), h)
         /\ Honest(s) => Honest(Forgotten(s, h))
         /\ Keeps(s, Forgotten(s, h))
  BY DEF Copied, Forgotten, Stored, Holders, Honest, Others, Keeps

(* An update succeeds only from the latest copy.                           *)
LEMMA UpdateCases ==
  ASSUME NEW V, NEW s \in Stored(V), NEW h \in Others, NEW v,
         Current(s, h) => v \in V, NEW o \in UpdateOutcomes(s, h, v)
  PROVE  /\ o.ok \in BOOLEAN /\ o.cost \in {0, 1}
         /\ o.after \in Stored(V) /\ o.after.cache = s.cache
         /\ o.ok => Current(s, h) /\ o.after.obj = v
         /\ o.after.obj = s.obj \/ (Current(s, h) /\ o.after.obj = v)
         /\ Honest(s) => Honest(o.after)
         /\ Keeps(s, o.after)
<1>1. /\ o.ok \in BOOLEAN /\ o.cost \in {0, 1}
      /\ \/ o.after = s /\ ~ o.ok
         \/ o.after = Write(s, v) /\ Current(s, h)
  <2>1. CASE ~ Current(s, h)
    <3>1. o = [after |-> s, ok |-> FALSE, cost |-> 0]
      BY <2>1 DEF UpdateOutcomes
    <3> QED
      BY <3>1
  <2>2. CASE Current(s, h)
    <3>1. o \in {[after |-> Write(s, v), ok |-> TRUE, cost |-> 0],
                 [after |-> s, ok |-> FALSE, cost |-> 1],
                 [after |-> Write(s, v), ok |-> FALSE, cost |-> 1]}
      BY <2>2 DEF UpdateOutcomes
    <3>2. CASE o = [after |-> Write(s, v), ok |-> TRUE, cost |-> 0]
      BY <2>2, <3>2
    <3>3. CASE o = [after |-> s, ok |-> FALSE, cost |-> 1]
      BY <3>3
    <3>4. CASE o = [after |-> Write(s, v), ok |-> FALSE, cost |-> 1]
      BY <2>2, <3>4
    <3> QED
      BY <3>1, <3>2, <3>3, <3>4
  <2> QED
    BY <2>1, <2>2
<1>2. Current(s, h) =>
        /\ Write(s, v) \in Stored(V) /\ Write(s, v).obj = v /\ Write(s, v).cache = s.cache
        /\ Honest(s) => Honest(Write(s, v))
        /\ Keeps(s, Write(s, v))
  BY WriteCases
<1>3. Keeps(s, s)
  BY DEF Keeps
<1> QED
  BY <1>1, <1>2, <1>3

(* What the worker does with the result, or forgets, is still an object.   *)
LEMMA HeldCases ==
  ASSUME NEW V, NEW s \in Stored(V)
  PROVE  /\ Held(s) \in Stored(V) /\ Held(s).obj = s.obj /\ Held(s).cache = s.cache
  BY DEF Held, Stored, Holders

(* A request that is answered well was executed.                           *)
LEMMA SdnCases ==
  ASSUME NEW repeated, NEW o \in SdnOutcomes(repeated)
  PROVE  o.ok \in BOOLEAN /\ o.done \in BOOLEAN /\ o.cost \in {0, 1} /\ (o.ok => o.done)
<1>1. o \in {[done |-> TRUE, ok |-> TRUE, cost |-> 0],
             [done |-> FALSE, ok |-> FALSE, cost |-> 1],
             [done |-> TRUE, ok |-> FALSE, cost |-> 1],
             [done |-> TRUE, ok |-> FALSE, cost |-> 0]}
  BY DEF SdnOutcomes, CallOutcomes
<1>2. CASE o = [done |-> TRUE, ok |-> TRUE, cost |-> 0]
  BY <1>2
<1>3. CASE o = [done |-> FALSE, ok |-> FALSE, cost |-> 1]
  BY <1>3
<1>4. CASE o = [done |-> TRUE, ok |-> FALSE, cost |-> 1]
  BY <1>4
<1>5. CASE o = [done |-> TRUE, ok |-> FALSE, cost |-> 0]
  BY <1>5
<1> QED
  BY <1>1, <1>2, <1>3, <1>4, <1>5

(* A fault is counted.                                                     *)
LEMMA FaultCounted ==
  ASSUME TypeOK, NEW kind, Fault(kind)
  PROVE  faults' \in Nat
  BY DEF TypeOK, Fault

LEMMA CostCounted ==
  ASSUME TypeOK, NEW c \in {0, 1}, faults' = faults + c
  PROVE  faults' \in Nat
  BY DEF TypeOK

-----------------------------------------------------------------------------
(* Facts about the types.                                                  *)

PodsTyped == pod \in [Pods -> Stored(PodObject \cup {None})]
NetsTyped == net \in [Networks -> Stored(NetStatus \cup {None})]

LEMMA PodStored ==
  ASSUME TypeOK, NEW p \in Pods
  PROVE  /\ pod[p] \in Stored(PodValue)
         /\ pod[p].obj \in PodValue /\ pod[p].cache \in PodValue
  BY DEF TypeOK, PodValue, Stored

LEMMA NetStored ==
  ASSUME TypeOK, NEW n \in Networks
  PROVE  /\ net[n] \in Stored(NetValue)
         /\ net[n].obj \in NetValue /\ net[n].cache \in NetValue
  BY DEF TypeOK, NetValue, Stored

LEMMA RequestStored ==
  ASSUME TypeOK, NEW r \in Requests
  PROVE  /\ req[r] \in Stored(RequestValue)
         /\ req[r].obj \in RequestValue /\ req[r].cache \in RequestValue
  BY DEF TypeOK, RequestValue, Stored

LEMMA ConstantFacts ==
  /\ \A p \in Pods : Home[p] \in Networks /\ IpOf[p] \in Ips \cup {None}
  /\ \A r \in Requests : /\ Target[r] \in Networks /\ Selected[r] \subseteq Pods
                         /\ Sources[r] \subseteq Networks
  /\ None \notin Pods /\ None \notin Networks /\ None \notin Requests /\ None \notin Ips
  BY QuarantineAssumption

LEMMA PodFacts ==
  /\ None \notin PodObject
  /\ \A v \in PodObject :
       /\ v.net \in Networks /\ v.fin \in BOOLEAN /\ v.del \in BOOLEAN
       /\ [v EXCEPT !.del = TRUE] \in PodObject
       /\ \A f \in BOOLEAN : [v EXCEPT !.fin = f] \in PodObject
       /\ \A n \in Networks : [v EXCEPT !.net = n] \in PodObject
  BY QuarantineObjects DEF PodObject

LEMMA PodFields ==
  /\ \A v \in PodObject :
       /\ [v EXCEPT !.del = TRUE].net = v.net /\ [v EXCEPT !.del = TRUE].del = TRUE
       /\ \A f \in BOOLEAN :
            [v EXCEPT !.fin = f].net = v.net /\ [v EXCEPT !.fin = f].del = v.del
       /\ \A n \in Networks :
            [v EXCEPT !.net = n].net = n /\ [v EXCEPT !.net = n].del = v.del
  BY DEF PodObject

(* The status of a network before and after a pod leaves, and enters.      *)
LEMMA StatusFacts ==
  ASSUME NEW s \in NetStatus, NEW p \in Pods
  PROVE  /\ None \notin NetStatus
         /\ Left(s, p) \in NetStatus /\ Entered(s, p) \in NetStatus
<1>1. /\ s.count \in Nat /\ s.assigned \in [Ips -> Pods \cup {None}]
  BY DEF NetStatus
<1>2. Forget(s, p) \in [Ips -> Pods \cup {None}]
  BY <1>1 DEF Forget
<1>3. [a \in Ips |-> IF a = IpOf[p] THEN p ELSE s.assigned[a]] \in [Ips -> Pods \cup {None}]
  BY <1>1
<1>4. (IF s.count > 0 THEN s.count - 1 ELSE 0) \in Nat /\ s.count + 1 \in Nat
  BY <1>1
<1> QED
  BY <1>2, <1>3, <1>4, QuarantineObjects DEF Left, Entered, NetStatus

(* Only the pod itself is forgotten, or recorded.                          *)
LEMMA RecordFacts ==
  ASSUME NEW s \in NetStatus, NEW p \in Pods, NEW q \in Pods, IpOf[q] # None
  PROVE  /\ Left(s, p).assigned[IpOf[q]] = q => s.assigned[IpOf[q]] = q /\ q # p
         /\ Entered(s, p).assigned[IpOf[q]] = q => s.assigned[IpOf[q]] = q \/ q = p
<1>1. IpOf[q] \in Ips /\ None \notin Pods
  BY ConstantFacts
<1> QED
  BY <1>1 DEF Left, Entered, Forget

LEMMA ReportTyped ==
  /\ NewRequest \in RequestStatus /\ None \notin RequestStatus
  /\ \A reason \in Reasons, moved \in Nat : Report(reason, moved) \in RequestStatus
  BY QuarantineObjects DEF NewRequest, RequestStatus, Report, Reasons

LEMMA PodWorkFacts ==
  ASSUME TypeOK, podWork # None
  PROVE  /\ podWork \in PodWork /\ podWork.pod \in Pods /\ podWork.net \in Networks
         /\ \A stage \in {"finalize", "attach", "detach", "unfinalize"} :
              /\ [podWork EXCEPT !.at = stage] \in PodWork
              /\ [podWork EXCEPT !.at = stage].at = stage
              /\ [podWork EXCEPT !.at = stage].pod = podWork.pod
              /\ [podWork EXCEPT !.at = stage].net = podWork.net
  BY DEF TypeOK, PodWork

Stages == Moving \cup {"check", "answer", "panic"}

LEMMA WorkFacts ==
  ASSUME TypeOK, work # None
  PROVE  /\ work \in Work /\ work.req \in Requests /\ work.source \in Networks \cup {None}
         /\ work.todo \subseteq Pods /\ work.pod \in Pods \cup {None} /\ work.moved \in Nat
         /\ work.at \in Stages /\ work.status \in RequestStatus
         /\ Target[work.req] \in Networks
  BY ConstantFacts DEF TypeOK, Work, Stages, Moving

(* Every way to go on.                                                     *)
WorkOK == work' \in Work \cup {None}
GoesToWork == work' \in Work /\ work' # None /\ WorkOK

LEMMA SomeWork ==
  ASSUME work' \in Work
  PROVE  GoesToWork
  BY QuarantineObjects DEF GoesToWork, WorkOK

LEMMA GoesOn ==
  ASSUME TypeOK, work # None, NEW stage \in Stages, GoOn(stage)
  PROVE  /\ GoesToWork /\ work'.at = stage /\ work'.req = work.req
         /\ work'.source = work.source /\ work'.todo = work.todo /\ work'.pod = work.pod
<1>1. work' \in Work /\ work'.at = stage
  BY WorkFacts DEF GoOn, Work, Stages
<1>2. /\ work'.req = work.req /\ work'.source = work.source
      /\ work'.todo = work.todo /\ work'.pod = work.pod
  BY WorkFacts DEF GoOn, Work
<1> QED
  BY <1>1, <1>2, SomeWork

LEMMA Answers ==
  ASSUME TypeOK, work # None, NEW reason \in Reasons, NEW moved \in Nat,
         Answer(reason, moved)
  PROVE  GoesToWork /\ work'.at = "answer"
<1>1. Report(reason, moved) \in RequestStatus
  BY ReportTyped
<1> HIDE DEF Report
<1> QED
  BY <1>1, WorkFacts, SomeWork DEF Answer, Work

LEMMA Fails ==
  ASSUME TypeOK, work # None, work.at \in Moving, Fail
  PROVE  GoesToWork /\ work'.at = "answer"
<1> DEFINE status == [reason |-> "PodMoveFailed", moved |-> work.moved,
                      pod |-> work.pod, step |-> work.at]
<1>1. status \in RequestStatus
  BY WorkFacts DEF RequestStatus, Reasons
<1>2. work' = [work EXCEPT !.at = "answer", !.status = status]
  BY DEF Fail
<1> HIDE DEF status
<1> QED
  BY <1>1, <1>2, WorkFacts, SomeWork DEF Work

LEMMA MovesNext ==
  ASSUME TypeOK, work # None, NEW todo \in SUBSET Pods, NEW moved \in Nat,
         MoveNext(todo, moved)
  PROVE  /\ GoesToWork
         /\ \/ work'.at = "answer"
            \/ /\ work'.at = "detach" /\ work'.req = work.req /\ work'.source = work.source
               /\ work'.pod \in todo /\ work'.todo \subseteq todo
<1>1. CASE Answer("PodsMoved", moved)
  BY <1>1, Answers DEF Reasons
<1>2. CASE \E p \in todo :
             work' = [work EXCEPT !.at = "detach", !.pod = p, !.todo = todo \ {p},
                                  !.moved = moved]
  <2>1. PICK p \in todo :
          work' = [work EXCEPT !.at = "detach", !.pod = p, !.todo = todo \ {p},
                               !.moved = moved]
    BY <1>2
  <2>2. p \in Pods /\ todo \ {p} \subseteq Pods
    OBVIOUS
  <2> QED
    BY <2>1, <2>2, WorkFacts, SomeWork DEF Work, Moving
<1> QED
  BY <1>1, <1>2 DEF MoveNext

-----------------------------------------------------------------------------
(* What a step may do, under TypeInv.                                      *)

(* To a pod: it stays, is admitted, changes in its network and is not      *)
(* undeleted, goes when it is deleted, or is given the target by the       *)
(* worker that has its latest version.                                     *)
Renamed(p, v) ==
  /\ WorkingAt("annotate") /\ p = work.pod /\ Live(p) /\ pod[p].obj.net = work.source
  /\ v # None /\ ~ v.del /\ v.net = Target[work.req]

ObjectStep(p, v) ==
  \/ v = pod[p].obj
  \/ p \notin born /\ p \in born' /\ v # None /\ v.net = Home[p] /\ ~ v.del
  \/ Exists(p) /\ v # None /\ v.net = pod[p].obj.net /\ (pod[p].obj.del => v.del)
  \/ Exists(p) /\ pod[p].obj.del /\ v = None
  \/ Renamed(p, v)

(* To the copies of it: the cache is brought up to date, a worker reads it.*)
UpToDate(p) == pod[p].cache = pod[p].obj
Reads(h, p) ==
  /\ UpToDate(p)
  /\ IF h = Worker THEN WorkingAt("check")
                   ELSE podWork = None /\ podWork' # None /\ podWork'.pod = p

PodStep(p) ==
  /\ ObjectStep(p, pod'[p].obj)
  /\ pod'[p].cache = pod[p].cache \/ (pod'[p].cache = pod[p].obj /\ pod'[p].obj = pod[p].obj)
  /\ \A h \in Others : Current(pod'[p], h) =>
       pod'[p].obj = pod[p].obj /\ (Current(pod[p], h) \/ Reads(h, p))

(* To the worker of the pod controller.                                    *)
Cleaning == {"detach", "unfinalize"}
PodWorkStep ==
  \/ podWork' = podWork \/ podWork' = None
  \/ /\ podWork = None /\ podWork' # None /\ pod[podWork'.pod].cache # None
     /\ podWork'.at \in Cleaning => pod[podWork'.pod].cache.del
     /\ Current(pod'[podWork'.pod], PodWorker) => UpToDate(podWork'.pod)
  \/ /\ podWork # None /\ podWork' # None /\ podWork'.pod = podWork.pod
     /\ podWork'.at \in Cleaning => podWork.at \in Cleaning

(* To the worker of the quarantine controller.                             *)
Advances ==
  \/ /\ work.at = "detach" /\ work'.at = "attach"
     /\ <<work.source, work.pod>> \notin attached'
  \/ /\ work.at = "attach" /\ work'.at = "annotate"
     /\ <<Target[work.req], work.pod>> \in attached'
  \/ /\ work.at = "annotate" /\ work'.at = "leave"
     /\ Renamed(work.pod, pod'[work.pod].obj)
  \/ /\ work.at = "leave" /\ work'.at = "enter"
     /\ ~ Recorded(work.source, work.pod)'

WorkStep ==
  \/ work' = work \/ work' = None
  \/ work' # None /\ work'.at \in {"answer", "panic"}
  \/ /\ work = None /\ work' # None /\ work'.at = "check"
     /\ work'.source \in Networks \cap Sources[work'.req]
     /\ Known(work'.source) /\ Known(Target[work'.req])
  \/ /\ work # None /\ work' # None /\ work'.req = work.req /\ work'.source = work.source
     /\ \/ work'.pod = work.pod /\ work'.todo = work.todo /\ Advances
        \/ /\ work'.at = "detach"
           /\ \/ /\ work.at = "check" /\ work'.todo \cup {work'.pod} \subseteq PodsToMove
                 /\ \A p \in Pods : Current(pod'[p], Worker) => UpToDate(p)
              \/ work.at = "enter" /\ work'.todo \cup {work'.pod} \subseteq work.todo

(* To the ports: the pod controller attaches and detaches, the quarantine  *)
(* detaches, and attaches.                                                 *)
PortStep ==
  \/ attached' = attached /\ late' = late
  \/ /\ podWork # None /\ podWork.at = "attach" /\ UNCHANGED <<pod, work>>
     /\ attached \subseteq attached' /\ attached' \subseteq attached \cup {<<podWork.net, podWork.pod>>}
     /\ late \subseteq late'
     /\ TakenOut(podWork.net, podWork.pod) => <<podWork.net, podWork.pod>> \in late'
  \/ /\ podWork # None /\ podWork.at = "detach" /\ UNCHANGED <<pod, work, late>>
     /\ attached' \subseteq attached
     /\ attached \subseteq attached' \cup {<<podWork.net, podWork.pod>>}
  \/ /\ WorkingAt("detach") /\ UNCHANGED pod
     /\ attached' \subseteq attached /\ attached \subseteq attached' \cup {<<work.source, work.pod>>}
     /\ \A q \in attached' : q \in late => q \in late'
  \/ /\ WorkingAt("attach") /\ UNCHANGED <<pod, late>>
     /\ attached \subseteq attached'
     /\ attached' \subseteq attached \cup {<<Target[work.req], work.pod>>}

(* To a network and its records: a pod is recorded when it is admitted, or *)
(* when the quarantine has it enter.                                       *)
Enters(n, p) ==
  /\ WorkingAt("enter") /\ p = work.pod /\ n = Target[work.req] /\ UNCHANGED pod
  /\ work' # None /\ work'.at \in {"answer", "detach"}

RecordStep(n, v) ==
  \A p \in Pods :
    v # None /\ IpOf[p] # None /\ v.assigned[IpOf[p]] = p =>
      \/ Recorded(n, p)
      \/ n = Home[p] /\ p \notin born /\ p \in born' /\ UNCHANGED work
      \/ Enters(n, p)

NetStep(n) ==
  /\ net'[n].obj = None <=> net[n].obj = None
  /\ net'[n].cache = net[n].cache
  /\ RecordStep(n, net'[n].obj)

PodsKept == PodsTyped' /\ CopiesCurrent' /\ (\A p \in Pods : PodStep(p))
NetsKept == NetsTyped' /\ (\A n \in Networks : NetStep(n))
Good ==
  /\ TypeOK' /\ PodsKept /\ NetsKept
  /\ PodWorkStep /\ WorkStep /\ PortStep /\ born \subseteq born'

-----------------------------------------------------------------------------
(* What is left alone, and what changes in one place.                      *)

LEMMA PodsUnchanged ==
  ASSUME TypeInv, UNCHANGED pod
  PROVE  PodsKept
<1>1. PodsTyped' /\ CopiesCurrent'
  BY DEF TypeInv, TypeOK, PodsTyped, CopiesCurrent, Honest
<1>2. ASSUME NEW p \in Pods PROVE PodStep(p)
  BY DEF PodStep, ObjectStep
<1> QED
  BY <1>1, <1>2 DEF PodsKept

LEMMA NetsUnchanged ==
  ASSUME TypeInv, UNCHANGED net
  PROVE  NetsKept
<1>1. NetsTyped'
  BY DEF TypeInv, TypeOK, NetsTyped
<1>2. ASSUME NEW n \in Networks PROVE NetStep(n)
  BY DEF NetStep, RecordStep, Recorded
<1> QED
  BY <1>1, <1>2 DEF NetsKept

LEMMA OnePodChanged ==
  ASSUME TypeInv, NEW p \in Pods, NEW t \in Stored(PodValue),
         pod' = [pod EXCEPT ![p] = t], Honest(t), ObjectStep(p, t.obj),
         t.cache = pod[p].cache \/ (t.cache = pod[p].obj /\ t.obj = pod[p].obj),
         \A h \in Others : Current(t, h) =>
           t.obj = pod[p].obj /\ (Current(pod[p], h) \/ Reads(h, p))
  PROVE  PodsKept
<1>1. PodsTyped' /\ \A q \in Pods : pod'[q] = IF q = p THEN t ELSE pod[q]
  BY DEF TypeInv, TypeOK, PodsTyped, PodValue
<1>2. CopiesCurrent'
  BY <1>1 DEF TypeInv, CopiesCurrent, Honest
<1>3. ASSUME NEW q \in Pods PROVE PodStep(q)
  <2>1. CASE q = p
    BY <1>1, <2>1 DEF PodStep
  <2>2. CASE q # p
    BY <1>1, <2>2 DEF PodStep, ObjectStep
  <2> QED
    BY <2>1, <2>2
<1> QED
  BY <1>1, <1>2, <1>3 DEF PodsKept

LEMMA OneNetChanged ==
  ASSUME TypeInv, NEW n \in Networks, NEW t \in Stored(NetValue),
         net' = [net EXCEPT ![n] = t],
         t.obj = None <=> net[n].obj = None, t.cache = net[n].cache,
         RecordStep(n, t.obj)
  PROVE  NetsKept
<1>1. NetsTyped' /\ \A m \in Networks : net'[m] = IF m = n THEN t ELSE net[m]
  BY DEF TypeInv, TypeOK, NetsTyped, NetValue
<1>2. ASSUME NEW m \in Networks PROVE NetStep(m)
  <2>1. CASE m = n
    BY <1>1, <2>1 DEF NetStep
  <2>2. CASE m # n
    BY <1>1, <2>2 DEF NetStep, RecordStep, Recorded
  <2> QED
    BY <2>1, <2>2
<1> QED
  BY <1>1, <1>2 DEF NetsKept

(* All pods, or all networks, are read at once, or forgotten.              *)
LEMMA AllPodsRead ==
  ASSUME TypeInv, PodsTyped',
         \A p \in Pods :
           /\ Honest(pod'[p]) /\ pod'[p].obj = pod[p].obj
           /\ pod'[p].cache \in {pod[p].cache, pod[p].obj}
           /\ \A h \in Others : Current(pod'[p], h) => Current(pod[p], h) \/ Reads(h, p)
  PROVE  PodsKept
<1>1. CopiesCurrent'
  BY DEF CopiesCurrent, Honest
<1>2. ASSUME NEW p \in Pods PROVE PodStep(p)
  BY DEF PodStep, ObjectStep
<1> QED
  BY <1>1, <1>2 DEF PodsKept

LEMMA AllNetsRead ==
  ASSUME TypeInv, NetsTyped',
         \A n \in Networks : net'[n].obj = net[n].obj /\ net'[n].cache = net[n].cache
  PROVE  NetsKept
<1>1. ASSUME NEW n \in Networks PROVE NetStep(n)
  BY DEF NetStep, RecordStep, Recorded
<1> QED
  BY <1>1 DEF NetsKept

-----------------------------------------------------------------------------
(* The steps of users, the API server, the watches and the webhook.        *)

(* What is left when the ports and both workers are left alone.            *)
LEMMA WorkersUnchanged ==
  ASSUME TypeInv, UNCHANGED <<attached, late, podWork, work>>
  PROVE  PodWorkStep /\ WorkStep /\ PortStep
  BY DEF PodWorkStep, WorkStep, PortStep

LEMMA TypeKept ==
  ASSUME TypeInv, PodsTyped', NetsTyped', faults' \in Nat,
         UNCHANGED <<req, served, attached, late, podWork, work>>,
         born' \subseteq Pods \cup Requests, podQueue' \subseteq Pods,
         queue' \subseteq Requests
  PROVE  TypeOK'
  BY DEF TypeInv, TypeOK, PodsTyped, NetsTyped

(* The environment changes pods, or networks, and what has been created.   *)
LEMMA EnvironmentGood ==
  ASSUME TypeInv, PodsKept, NetsKept, faults' \in Nat,
         UNCHANGED <<req, served, attached, late, podWork, work>>,
         born \subseteq born', born' \subseteq Pods \cup Requests,
         podQueue' \subseteq Pods, queue' \subseteq Requests
  PROVE  Good
  BY TypeKept, WorkersUnchanged DEF Good, PodsKept, NetsKept

LEMMA AdmitPodGood ==
  ASSUME TypeInv, NEW p \in Pods, AdmitPod(p)
  PROVE  Good
<1> DEFINE n == Home[p]
           v == [net |-> n, fin |-> FALSE, del |-> FALSE]
           t == Write(pod[p], v)
<1>1. n \in Networks /\ v \in PodValue /\ v # None
  <2>1. n \in Networks
    BY ConstantFacts
  <2>2. v \in PodObject
    BY <2>1 DEF PodObject
  <2> QED
    BY <2>1, <2>2, PodFacts DEF PodValue
<1>2. /\ pod[p] \in Stored(PodValue) /\ net[n] \in Stored(NetValue)
      /\ net[n].obj \in NetStatus
  BY <1>1, PodStored, NetStored DEF TypeInv, AdmitPod, NetValue
<1>3. /\ p \notin born /\ born' = born \cup {p} /\ UNCHANGED <<req, served, attached, late>>
      /\ UNCHANGED <<podWork, work, podQueue, queue>>
      /\ pod' = [pod EXCEPT ![p] = t]
  BY DEF AdmitPod, controllerVars
<1>4. PodsKept
  <2>1. /\ t \in Stored(PodValue) /\ t.obj = v /\ t.cache = pod[p].cache
        /\ Honest(pod[p]) => Honest(t)
        /\ Keeps(pod[p], t)
    BY <1>1, <1>2, WriteCases
  <2>2. Honest(pod[p])
    BY DEF TypeInv, CopiesCurrent
  <2>3. ObjectStep(p, v)
    BY <1>1, <1>3 DEF ObjectStep
  <2>4. \A h \in Others : Current(t, h) => t.obj = pod[p].obj /\ Current(pod[p], h)
    BY <2>1 DEF Keeps
  <2> HIDE DEF t, v
  <2> QED
    BY <1>3, <2>1, <2>2, <2>3, <2>4, OnePodChanged
<1>5. NetsKept /\ faults' \in Nat
  <2>1. CASE net' = [net EXCEPT ![n] = Write(@, Entered(@.obj, p))] /\ UNCHANGED faults
    <3> DEFINE s == Entered(net[n].obj, p)
               u == Write(net[n], s)
    <3>1. s \in NetValue /\ s # None
      BY <1>2, StatusFacts DEF NetValue
    <3>2. u \in Stored(NetValue) /\ u.obj = s /\ u.cache = net[n].cache
      BY <1>2, <3>1, WriteCases
    <3>3. RecordStep(n, s)
      <4>1. ASSUME NEW q \in Pods, IpOf[q] # None, s.assigned[IpOf[q]] = q
            PROVE  net[n].obj.assigned[IpOf[q]] = q \/ q = p
        BY <1>2, <4>1, RecordFacts
      <4>2. net[n].obj # None
        BY <1>2, StatusFacts
      <4> HIDE DEF s
      <4> QED
        BY <1>3, <4>1, <4>2 DEF RecordStep, Recorded
    <3>4. net' = [net EXCEPT ![n] = u]
      BY <2>1
    <3>5. net[n].obj # None
      BY <1>2, StatusFacts
    <3> HIDE DEF s, u
    <3>6. NetsKept
      BY <1>1, <3>1, <3>2, <3>3, <3>4, <3>5, OneNetChanged
    <3> QED
      BY <2>1, <3>6 DEF TypeInv, TypeOK
  <2>2. CASE Fault("api") /\ UNCHANGED net
    BY <2>2, NetsUnchanged, FaultCounted DEF TypeInv
  <2> QED
    BY <2>1, <2>2 DEF AdmitPod
<1> QED
  BY <1>3, <1>4, <1>5, EnvironmentGood DEF TypeInv, TypeOK

(* A user, or the API server, writes a pod.                                *)
LEMMA PodWritten ==
  ASSUME TypeInv, NEW p \in Pods, NEW v \in PodValue, ObjectStep(p, v),
         pod' = [pod EXCEPT ![p] = Write(@, v)]
  PROVE  PodsKept
<1> DEFINE t == Write(pod[p], v)
<1>1. /\ t \in Stored(PodValue) /\ t.obj = v /\ t.cache = pod[p].cache
      /\ Honest(pod[p]) => Honest(t)
      /\ Keeps(pod[p], t)
  BY PodStored, WriteCases DEF TypeInv
<1>2. Honest(pod[p])
  BY DEF TypeInv, CopiesCurrent
<1>3. \A h \in Others : Current(t, h) => t.obj = pod[p].obj /\ Current(pod[p], h)
  BY <1>1 DEF Keeps
<1>4. pod' = [pod EXCEPT ![p] = t]
  OBVIOUS
<1> HIDE DEF t
<1> QED
  BY <1>1, <1>2, <1>3, <1>4, OnePodChanged

LEMMA DeletePodGood ==
  ASSUME TypeInv, NEW p \in Pods, DeletePod(p)
  PROVE  Good
<1> DEFINE v == [pod[p].obj EXCEPT !.del = TRUE]
<1>1. pod[p].obj \in PodObject
  BY PodStored DEF TypeInv, DeletePod, Live, Exists, PodValue
<1>2. v \in PodObject /\ v # None /\ v.net = pod[p].obj.net /\ v.del
  BY <1>1, PodFacts, PodFields
<1>3. v \in PodValue /\ ObjectStep(p, v)
  BY <1>2 DEF ObjectStep, DeletePod, Live, PodValue
<1>4. pod' = [pod EXCEPT ![p] = Write(@, v)]
  BY DEF DeletePod
<1> HIDE DEF v
<1>5. PodsKept
  BY <1>3, <1>4, PodWritten
<1> QED
  BY <1>5, NetsUnchanged, EnvironmentGood DEF DeletePod, controllerVars, TypeInv, TypeOK

LEMMA RemovePodGood ==
  ASSUME TypeInv, NEW p \in Pods, RemovePod(p)
  PROVE  Good
<1>1. ObjectStep(p, None) /\ None \in PodValue
  BY DEF ObjectStep, RemovePod, PodValue
<1>2. PodsKept
  BY <1>1, PodWritten DEF RemovePod
<1> QED
  BY <1>2, NetsUnchanged, EnvironmentGood DEF RemovePod, controllerVars, TypeInv, TypeOK

(* Someone writes a field the model leaves out, or the watch delivers.     *)
LEMMA PodTold ==
  ASSUME TypeInv, NEW p \in Pods,
         \/ pod' = [pod EXCEPT ![p] = Touched(@)]
         \/ pod' = [pod EXCEPT ![p] = Delivered(@)]
  PROVE  PodsKept
<1>1. PICK t \in {Touched(pod[p]), Delivered(pod[p])} : pod' = [pod EXCEPT ![p] = t]
  OBVIOUS
<1>2. /\ t \in Stored(PodValue) /\ t.obj = pod[p].obj /\ t.cache \in {pod[p].cache, pod[p].obj}
      /\ Honest(t) /\ Keeps(pod[p], t)
  BY PodStored, OtherCases DEF TypeInv
<1>3. \A h \in Others : Current(t, h) => Current(pod[p], h)
  BY <1>2 DEF Keeps
<1>4. ObjectStep(p, t.obj)
  BY <1>2 DEF ObjectStep
<1> QED
  BY <1>1, <1>2, <1>3, <1>4, OnePodChanged

LEMMA TouchPodGood ==
  ASSUME TypeInv, NEW p \in Pods, TouchPod(p) \/ DeliverPod(p)
  PROVE  Good
<1>1. PodsKept
  BY PodTold DEF TouchPod, DeliverPod
<1>2. faults' \in Nat
  BY FaultCounted DEF TouchPod, DeliverPod, TypeInv, TypeOK
<1>3. podQueue' \subseteq Pods /\ queue' \subseteq Requests
  BY DEF TouchPod, DeliverPod, controllerVars, TypeInv, TypeOK
<1> QED
  BY <1>1, <1>2, <1>3, NetsUnchanged, EnvironmentGood
     DEF TouchPod, DeliverPod, controllerVars, TypeInv, TypeOK

LEMMA TouchNetworkGood ==
  ASSUME TypeInv, NEW n \in Networks, TouchNetwork(n) \/ DeliverNetwork(n)
  PROVE  Good
<1>1. net[n] \in Stored(NetValue)
  BY NetStored DEF TypeInv
<1>2. NetsKept
  <2>1. PICK t \in {Touched(net[n]), [net[n] EXCEPT !.fresh = @ \cup {Cache}]} :
          net' = [net EXCEPT ![n] = t]
    BY DEF TouchNetwork, DeliverNetwork
  <2>2. t \in Stored(NetValue) /\ t.obj = net[n].obj /\ t.cache = net[n].cache
    BY <1>1 DEF Touched, Stored, Holders
  <2>3. RecordStep(n, t.obj)
    BY <2>2 DEF RecordStep, Recorded
  <2> QED
    BY <2>1, <2>2, <2>3, OneNetChanged
<1>3. faults' \in Nat
  BY FaultCounted DEF TouchNetwork, DeliverNetwork, TypeInv, TypeOK
<1> QED
  BY <1>2, <1>3, PodsUnchanged, EnvironmentGood
     DEF TouchNetwork, DeliverNetwork, controllerVars, TypeInv, TypeOK

RequestsTyped == req \in [Requests -> Stored(RequestStatus \cup {None})]

LEMMA RequestsGood ==
  ASSUME TypeInv, RequestsTyped',
         UNCHANGED <<pod, net, served, attached, late, podQueue, podWork, work, faults>>,
         born \subseteq born', born' \subseteq Pods \cup Requests,
         queue' \subseteq Requests
  PROVE  Good
<1>1. PodsKept /\ NetsKept
  BY PodsUnchanged, NetsUnchanged
<1>2. TypeOK'
  BY <1>1 DEF TypeInv, TypeOK, PodsKept, NetsKept, PodsTyped, NetsTyped, RequestsTyped
<1> QED
  BY <1>1, <1>2, WorkersUnchanged DEF Good

LEMMA CreateRequestGood ==
  ASSUME TypeInv, NEW r \in Requests, CreateRequest(r) \/ DeleteRequest(r)
  PROVE  Good
<1>1. PICK v \in {NewRequest, None} : req' = [req EXCEPT ![r] = Write(@, v)]
  BY DEF CreateRequest, DeleteRequest
<1> DEFINE t == Write(req[r], v)
<1>2. t \in Stored(RequestValue)
  BY <1>1, RequestStored, ReportTyped, WriteCases DEF TypeInv, RequestValue
<1>3. req' = [req EXCEPT ![r] = t]
  BY <1>1
<1> HIDE DEF t
<1>4. RequestsTyped'
  BY <1>2, <1>3 DEF RequestsTyped, TypeInv, TypeOK, RequestValue
<1> QED
  BY <1>4, RequestsGood DEF CreateRequest, DeleteRequest, controllerVars, TypeInv, TypeOK

LEMMA DeliverRequestGood ==
  ASSUME TypeInv, NEW r \in Requests, DeliverRequest(r)
  PROVE  Good
<1> DEFINE c == IF req[r].obj = None THEN None ELSE NewRequest
           t == [req[r] EXCEPT !.fresh = @ \cup {Cache}, !.cache = c]
<1>1. req[r] \in Stored(RequestValue) /\ c \in RequestValue
  BY RequestStored, ReportTyped DEF TypeInv, RequestValue
<1>2. req' = [req EXCEPT ![r] = t]
  <2>1. req' = [req EXCEPT ![r].fresh = @ \cup {Cache}, ![r].cache = c]
    BY DEF DeliverRequest
  <2>2. req \in [Requests -> Stored(RequestValue)]
    BY DEF TypeInv, TypeOK, RequestValue
  <2> HIDE DEF c
  <2> QED
    BY <2>1, <2>2 DEF Stored
<1> HIDE DEF c
<1>3. t \in Stored(RequestValue)
  BY <1>1 DEF Stored, Holders
<1> HIDE DEF t
<1>4. RequestsTyped'
  BY <1>2, <1>3 DEF RequestsTyped, TypeInv, TypeOK, RequestValue
<1> QED
  BY <1>4, RequestsGood DEF DeliverRequest, TypeInv, TypeOK

LEMMA ResyncGood ==
  ASSUME TypeInv, Resync
  PROVE  Good
<1>1. podQueue' \subseteq Pods /\ queue' \subseteq Requests
  BY DEF Resync, TypeInv, TypeOK
<1> QED
  BY <1>1, PodsUnchanged, NetsUnchanged, EnvironmentGood DEF Resync, TypeInv, TypeOK

LEMMA EnvironmentKeeps ==
  ASSUME TypeInv, Environment
  PROVE  Good
  BY AdmitPodGood, DeletePodGood, RemovePodGood, TouchPodGood, TouchNetworkGood,
     CreateRequestGood, DeliverRequestGood, ResyncGood DEF Environment

-----------------------------------------------------------------------------
(* The steps of the pod controller.                                        *)

LEMMA PodControllerGood ==
  ASSUME TypeInv, PodsKept, PodWorkStep, PortStep, faults' \in Nat,
         podWork' \in PodWork \cup {None}, podQueue' \subseteq Pods,
         attached' \subseteq Networks \X Pods, late' \subseteq Networks \X Pods,
         UNCHANGED <<net, req, served, queue, work, born>>
  PROVE  Good
<1>1. NetsKept
  BY NetsUnchanged
<1>2. TypeOK'
  BY <1>1 DEF TypeInv, TypeOK, PodsKept, NetsKept, PodsTyped, NetsTyped
<1> QED
  BY <1>1, <1>2 DEF Good, WorkStep

LEMMA BeginPodGood ==
  ASSUME TypeInv, NEW p \in Pods, IgnorePod(p) \/ BeginPod(p)
  PROVE  Good
<1>1. podQueue' \subseteq Pods /\ faults' \in Nat
  BY DEF IgnorePod, BeginPod, TypeInv, TypeOK
<1>2. CASE IgnorePod(p)
  BY <1>1, <1>2, PodsUnchanged, PodControllerGood
     DEF IgnorePod, PodWorkStep, PortStep, TypeInv, TypeOK
<1>3. CASE BeginPod(p)
  <2>1. pod[p] \in Stored(PodValue) /\ pod[p].cache \in PodObject
    BY <1>3, PodStored DEF TypeInv, BeginPod, PodValue
  <2>2. pod[p].cache.net \in Networks
    BY <2>1, PodFacts
  <2> DEFINE w == [at |-> IF pod[p].cache.del THEN "detach" ELSE "finalize",
                   pod |-> p, net |-> pod[p].cache.net]
             t == Copied(pod[p], PodWorker)
  <2>3. /\ podWork = None /\ podWork' = w /\ pod' = [pod EXCEPT ![p] = t]
        /\ pod[p].cache # None
    BY <1>3 DEF BeginPod
  <2>4. /\ w \in PodWork /\ w.pod = p
        /\ w.at \in Cleaning => pod[p].cache.del
    BY <2>2 DEF PodWork, Cleaning
  <2>5. Honest(pod[p])
    BY DEF TypeInv, CopiesCurrent
  <2>6. /\ t \in Stored(PodValue) /\ t.obj = pod[p].obj /\ t.cache = pod[p].cache
        /\ Current(t, PodWorker) => Current(pod[p], Cache)
        /\ Current(t, Worker) => Current(pod[p], Worker)
        /\ Honest(t)
    BY <2>1, <2>5, CopiedCases DEF Others
  <2>7. podWork' # None
    BY <2>3, <2>4, QuarantineObjects
  <2> HIDE DEF w, t
  <2>8. \A h \in Others : Current(t, h) => Current(pod[p], h) \/ Reads(h, p)
    BY <2>3, <2>4, <2>5, <2>6, <2>7 DEF Others, Reads, UpToDate, Honest
  <2>9. PodsKept
    BY <2>3, <2>6, <2>8, OnePodChanged DEF ObjectStep
  <2>10. PodWorkStep
    <3>1. pod'[p] = t
      BY <2>3 DEF TypeInv, TypeOK
    <3>2. Current(t, PodWorker) => UpToDate(p)
      BY <2>5, <2>6 DEF UpToDate, Honest
    <3> QED
      BY <2>3, <2>4, <2>7, <3>1, <3>2 DEF PodWorkStep
  <2> QED
    BY <1>1, <1>3, <2>3, <2>4, <2>9, <2>10, PodControllerGood
       DEF BeginPod, PortStep, TypeInv, TypeOK
<1> QED
  BY <1>2, <1>3

(* The finalizer is written, or removed, by an update that may fail.       *)
LEMMA FinalizerWritten ==
  ASSUME TypeInv, podWork # None, NEW f \in BOOLEAN,
         NEW o \in UpdateOutcomes(pod[podWork.pod], PodWorker,
                                  [pod[podWork.pod].obj EXCEPT !.fin = f]),
         pod' = [pod EXCEPT ![podWork.pod] = Forgotten(o.after, PodWorker)]
  PROVE  PodsKept /\ o.cost \in {0, 1}
<1> DEFINE p == podWork.pod
           v == [pod[p].obj EXCEPT !.fin = f]
           t == Forgotten(o.after, PodWorker)
<1>1. p \in Pods /\ pod[p] \in Stored(PodValue) /\ pod[p].obj \in PodValue
  BY PodWorkFacts, PodStored DEF TypeInv
<1>2. ASSUME Current(pod[p], PodWorker)
      PROVE  /\ v \in PodValue /\ v # None /\ Exists(p)
             /\ v.net = pod[p].obj.net /\ v.del = pod[p].obj.del
  <2>1. Exists(p) /\ pod[p].obj \in PodObject
    BY <1>1, <1>2 DEF TypeInv, PodWorkerSaw, Exists, PodValue
  <2>2. v \in PodObject
    BY <2>1, PodFacts
  <2>3. v.net = pod[p].obj.net /\ v.del = pod[p].obj.del
    BY <2>1, PodFields
  <2> HIDE DEF v
  <2> QED
    BY <2>1, <2>2, <2>3, PodFacts DEF PodValue
<1> HIDE DEF v
<1>3. /\ o.cost \in {0, 1} /\ o.after \in Stored(PodValue) /\ o.after.cache = pod[p].cache
      /\ o.after.obj = pod[p].obj \/ (Current(pod[p], PodWorker) /\ o.after.obj = v)
      /\ Honest(o.after) /\ Keeps(pod[p], o.after)
  <2>1. o \in UpdateOutcomes(pod[p], PodWorker, v)
    BY DEF v
  <2>2. Honest(pod[p])
    BY <1>1 DEF TypeInv, CopiesCurrent
  <2> HIDE DEF p
  <2> QED
    BY <1>1, <1>2, <2>1, <2>2, UpdateCases DEF Others
<1>4. /\ t \in Stored(PodValue) /\ t.obj = o.after.obj /\ t.cache = pod[p].cache
      /\ Honest(t) /\ Keeps(o.after, t)
  BY <1>3, CopiedCases DEF Others
<1>5. ObjectStep(p, t.obj)
  BY <1>2, <1>3, <1>4 DEF ObjectStep
<1>6. \A h \in Others : Current(t, h) => t.obj = pod[p].obj /\ Current(pod[p], h)
  BY <1>3, <1>4 DEF Keeps
<1>7. pod' = [pod EXCEPT ![p] = t]
  OBVIOUS
<1> HIDE DEF t, p
<1> QED
  BY <1>1, <1>3, <1>4, <1>5, <1>6, <1>7, OnePodChanged

LEMMA AddFinalizerGood ==
  ASSUME TypeInv, AddFinalizer
  PROVE  Good
<1>1. podWork # None /\ podWork.at = "finalize"
  BY DEF AddFinalizer, PodWorkingAt
<1>2. PICK o \in UpdateOutcomes(pod[podWork.pod], PodWorker,
                                [pod[podWork.pod].obj EXCEPT !.fin = TRUE]) :
        /\ pod' = [pod EXCEPT ![podWork.pod] = Forgotten(o.after, PodWorker)]
        /\ faults' = faults + o.cost
        /\ IF o.ok
           THEN podWork' = [podWork EXCEPT !.at = "attach"] /\ UNCHANGED podQueue
           ELSE podWork' = None /\ podQueue' = podQueue \cup {podWork.pod}
  BY DEF AddFinalizer
<1>3. PodsKept /\ o.cost \in {0, 1}
  BY <1>1, <1>2, FinalizerWritten
<1>4. faults' \in Nat
  BY <1>2, <1>3, CostCounted DEF TypeInv
<1>5. podWork' \in PodWork \cup {None} /\ podQueue' \subseteq Pods /\ PodWorkStep
  BY <1>1, <1>2, PodWorkFacts DEF PodWorkStep, Cleaning, TypeInv, TypeOK
<1> QED
  BY <1>3, <1>4, <1>5, PodControllerGood DEF AddFinalizer, PortStep, TypeInv, TypeOK

LEMMA RemoveFinalizerGood ==
  ASSUME TypeInv, RemoveFinalizer
  PROVE  Good
<1>1. podWork # None /\ podWork' = None
  BY DEF RemoveFinalizer, PodWorkingAt
<1>2. PICK o \in UpdateOutcomes(pod[podWork.pod], PodWorker,
                                [pod[podWork.pod].obj EXCEPT !.fin = FALSE]) :
        /\ pod' = [pod EXCEPT ![podWork.pod] = Forgotten(o.after, PodWorker)]
        /\ faults' = faults + o.cost
  BY DEF RemoveFinalizer
<1>3. PodsKept /\ o.cost \in {0, 1}
  BY <1>1, <1>2, FinalizerWritten
<1>4. faults' \in Nat
  BY <1>2, <1>3, CostCounted DEF TypeInv
<1> QED
  BY <1>1, <1>3, <1>4, PodControllerGood
     DEF RemoveFinalizer, PodWorkStep, PortStep, TypeInv, TypeOK

LEMMA AttachPodGood ==
  ASSUME TypeInv, AttachPod
  PROVE  Good
<1> DEFINE port == <<podWork.net, podWork.pod>>
<1>1. /\ podWork # None /\ podWork.at = "attach" /\ podWork' = None
      /\ late' = late \cup {q \in {port} : TakenOut(q[1], q[2])}
      /\ UNCHANGED <<pod, net, req, served, podQueue, queue, work, born>>
  BY DEF AttachPod, PodWorkingAt
<1>2. PICK o \in SdnOutcomes(port \in attached) :
        Attach(port, o) /\ faults' = faults + o.cost
  BY DEF AttachPod
<1>3. o.cost \in {0, 1}
  BY <1>2, SdnCases
<1>4. port \in Networks \X Pods
  BY <1>1, PodWorkFacts DEF TypeInv
<1>5. /\ attached \subseteq attached' /\ attached' \subseteq attached \cup {port}
      /\ late \subseteq late' /\ late' \subseteq late \cup {port}
      /\ TakenOut(podWork.net, podWork.pod) => port \in late'
  BY <1>1, <1>2 DEF Attach
<1>6. PortStep
  BY <1>1, <1>5 DEF PortStep
<1>7. attached' \subseteq Networks \X Pods /\ late' \subseteq Networks \X Pods
  BY <1>4, <1>5 DEF TypeInv, TypeOK
<1> HIDE DEF port
<1>8. faults' \in Nat
  BY <1>2, <1>3, CostCounted DEF TypeInv
<1> QED
  BY <1>1, <1>6, <1>7, <1>8, PodsUnchanged, PodControllerGood
     DEF PodWorkStep, TypeInv, TypeOK

LEMMA DetachPodGood ==
  ASSUME TypeInv, DetachPod
  PROVE  Good
<1> DEFINE port == <<podWork.net, podWork.pod>>
<1>1. /\ podWork # None /\ podWork.at = "detach"
      /\ podWork' = [podWork EXCEPT !.at = "unfinalize"]
      /\ UNCHANGED <<pod, net, req, served, podQueue, queue, work, born, late>>
  BY DEF DetachPod, PodWorkingAt
<1>2. PICK o \in SdnOutcomes(port \notin attached) :
        Detach(port, o) /\ faults' = faults + o.cost
  BY DEF DetachPod
<1>3. o.cost \in {0, 1}
  BY <1>2, SdnCases
<1>4. attached' \subseteq attached /\ attached \subseteq attached' \cup {port}
  BY <1>2 DEF Detach
<1>5. PortStep
  BY <1>1, <1>4 DEF PortStep
<1> HIDE DEF port
<1>6. faults' \in Nat
  BY <1>2, <1>3, CostCounted DEF TypeInv
<1>7. podWork' \in PodWork \cup {None} /\ PodWorkStep
  BY <1>1, PodWorkFacts DEF PodWorkStep, Cleaning, TypeInv
<1> QED
  BY <1>1, <1>4, <1>5, <1>6, <1>7, PodsUnchanged, PodControllerGood DEF TypeInv, TypeOK

LEMMA PodWorkerKeeps ==
  ASSUME TypeInv, PodWorkerStep
  PROVE  Good
  BY AddFinalizerGood, AttachPodGood, DetachPodGood, RemoveFinalizerGood DEF PodWorkerStep

-----------------------------------------------------------------------------
(* The steps of the quarantine controller.                                 *)

LEMMA WorkerGood ==
  ASSUME TypeInv, PodsKept, NetsKept, WorkStep, PortStep, WorkOK, RequestsTyped',
         faults' \in Nat, queue' \subseteq Requests,
         attached' \subseteq Networks \X Pods, late' \subseteq Networks \X Pods,
         UNCHANGED <<served, podQueue, podWork, born>>
  PROVE  Good
<1>1. TypeOK'
  BY DEF TypeInv, TypeOK, PodsKept, NetsKept, PodsTyped, NetsTyped, RequestsTyped, WorkOK
<1> QED
  BY <1>1 DEF Good, PodWorkStep

(* When only work and ports change.                                        *)
LEMMA WorkerOnlyGood ==
  ASSUME TypeInv, WorkStep, PortStep, WorkOK, faults' \in Nat,
         attached' \subseteq Networks \X Pods, late' \subseteq Networks \X Pods,
         UNCHANGED <<pod, net, req, served, podQueue, podWork, queue, born>>
  PROVE  Good
  BY PodsUnchanged, NetsUnchanged, WorkerGood DEF RequestsTyped, TypeInv, TypeOK

LEMMA IgnoreRequestGood ==
  ASSUME TypeInv, NEW r \in Requests, IgnoreRequest(r)
  PROVE  Good
<1>1. queue' \subseteq Requests
  BY DEF IgnoreRequest, TypeInv, TypeOK
<1> QED
  BY <1>1, PodsUnchanged, NetsUnchanged, WorkerGood
     DEF IgnoreRequest, RequestsTyped, WorkStep, PortStep, WorkOK, TypeInv, TypeOK

LEMMA BeginRequestGood ==
  ASSUME TypeInv, NEW r \in Requests, BeginRequest(r)
  PROVE  Good
<1> DEFINE objection == Objection(r)
<1>1. /\ work = None /\ req' = [req EXCEPT ![r] = Copied(@, Worker)]
      /\ net' = [n \in Networks |-> Copied(net[n], Worker)]
      /\ UNCHANGED <<pod, served, attached, podQueue, podWork, born, late, faults>>
      /\ queue' = queue \ {r}
  BY DEF BeginRequest
<1>2. PICK n \in IF objection = "NoSingleSource" THEN {None} ELSE SourcesFound(r) :
        work' = [at |-> IF objection = "Pending" THEN "check" ELSE "answer",
                 req |-> r, source |-> n, todo |-> {}, pod |-> None, moved |-> 0,
                 status |-> Report(objection, 0)]
  BY DEF BeginRequest
<1>3. /\ objection \in Reasons /\ n \in Networks \cup {None}
      /\ objection = "Pending" =>
           n \in Networks \cap Sources[r] /\ Known(n) /\ Known(Target[r])
  BY <1>2, ConstantFacts DEF Objection, SourcesFound, Reasons
<1>4. Report(objection, 0) \in RequestStatus
  BY <1>3, ReportTyped
<1> HIDE DEF objection
<1>5. work' \in Work
  <2> HIDE DEF Report
  <2> QED
    BY <1>2, <1>3, <1>4 DEF Work
<1>6. work' # None
  BY <1>5, QuarantineObjects
<1>7. WorkStep /\ WorkOK
  <2>1. CASE objection = "Pending"
    <3>1. work'.at = "check" /\ work'.source = n /\ work'.req = r
      BY <1>2, <2>1
    <3> QED
      BY <1>1, <1>3, <1>5, <1>6, <2>1, <3>1 DEF WorkStep, WorkOK
  <2>2. CASE objection # "Pending"
    <3>1. work'.at = "answer"
      BY <1>2, <2>2
    <3> QED
      BY <1>5, <1>6, <3>1 DEF WorkStep, WorkOK
  <2> QED
    BY <2>1, <2>2
<1>8. NetsKept
  <2>1. ASSUME NEW m \in Networks
        PROVE  /\ Copied(net[m], Worker) \in Stored(NetValue)
               /\ Copied(net[m], Worker).obj = net[m].obj
               /\ Copied(net[m], Worker).cache = net[m].cache
    BY NetStored, CopiedCases DEF Others, TypeInv
  <2>2. NetsTyped'
    BY <1>1, <2>1 DEF NetsTyped, NetValue
  <2>3. \A m \in Networks : net'[m].obj = net[m].obj /\ net'[m].cache = net[m].cache
    BY <1>1, <2>1
  <2> QED
    BY <2>2, <2>3, AllNetsRead
<1>9. RequestsTyped'
  <2>1. Copied(req[r], Worker) \in Stored(RequestValue)
    BY RequestStored, CopiedCases DEF Others, TypeInv
  <2> QED
    BY <1>1, <2>1 DEF RequestsTyped, RequestValue, TypeInv, TypeOK
<1> QED
  BY <1>1, <1>7, <1>8, <1>9, PodsUnchanged, WorkerGood DEF PortStep, TypeInv, TypeOK

LEMMA CheckTargetGood ==
  ASSUME TypeInv, CheckTarget
  PROVE  Good
<1>1. /\ work # None /\ work.at = "check"
      /\ UNCHANGED <<net, req, served, attached, podQueue, podWork, queue, born, late>>
  BY DEF CheckTarget, WorkingAt
<1>2. faults' \in Nat
  BY FaultCounted DEF CheckTarget, TypeInv, TypeOK
<1>3. ASSUME pod' = [p \in Pods |-> Copied(pod[p], Worker)]
      PROVE  PodsKept /\ \A p \in Pods : Current(pod'[p], Worker) => UpToDate(p)
  <2>1. ASSUME NEW p \in Pods
        PROVE  /\ Copied(pod[p], Worker) \in Stored(PodValue)
               /\ Copied(pod[p], Worker).obj = pod[p].obj
               /\ Copied(pod[p], Worker).cache = pod[p].cache
               /\ Current(Copied(pod[p], Worker), Worker) => Current(pod[p], Cache)
               /\ Current(Copied(pod[p], Worker), PodWorker) => Current(pod[p], PodWorker)
               /\ Honest(Copied(pod[p], Worker)) /\ Honest(pod[p])
    BY PodStored, CopiedCases DEF Others, TypeInv, CopiesCurrent
  <2>2. PodsTyped'
    BY <1>3, <2>1 DEF PodsTyped, PodValue
  <2>3. \A p \in Pods : Current(pod[p], Cache) => UpToDate(p) /\ Reads(Worker, p)
    BY <1>1, <2>1 DEF Reads, UpToDate, WorkingAt, Honest
  <2>4. \A p \in Pods :
          /\ Honest(pod'[p]) /\ pod'[p].obj = pod[p].obj
          /\ pod'[p].cache \in {pod[p].cache, pod[p].obj}
          /\ Current(pod'[p], Worker) => UpToDate(p)
          /\ \A h \in Others :
               Current(pod'[p], h) => Current(pod[p], h) \/ Reads(h, p)
    BY <1>3, <2>1, <2>3 DEF Others
  <2> QED
    BY <2>2, <2>4, AllPodsRead
<1>4. PodsKept
  BY <1>3, PodsUnchanged DEF CheckTarget
<1>5. WorkStep /\ WorkOK
  <2>1. CASE \/ Answer("TargetL2NetworkCheckFailed", 0)
             \/ Answer("TargetL2NetworkUnavailable", 0)
    <3>1. GoesToWork /\ work'.at = "answer"
      BY <1>1, <2>1, Answers DEF Reasons, TypeInv
    <3> QED
      BY <3>1 DEF WorkStep, GoesToWork
  <2>2. CASE MoveNext(PodsToMove, 0) /\ pod' = [p \in Pods |-> Copied(pod[p], Worker)]
    <3>1. PodsToMove \in SUBSET Pods
      BY <1>1, WorkFacts, ConstantFacts DEF PodsToMove, TypeInv
    <3>2. /\ GoesToWork
          /\ \/ work'.at = "answer"
             \/ /\ work'.at = "detach" /\ work'.req = work.req /\ work'.source = work.source
                /\ work'.pod \in PodsToMove /\ work'.todo \subseteq PodsToMove
      BY <1>1, <2>2, <3>1, MovesNext DEF TypeInv
    <3> QED
      BY <1>1, <1>3, <2>2, <3>2 DEF WorkStep, GoesToWork
  <2> QED
    BY <2>1, <2>2 DEF CheckTarget
<1> QED
  BY <1>1, <1>2, <1>4, <1>5, NetsUnchanged, WorkerGood
     DEF PortStep, RequestsTyped, TypeInv, TypeOK

LEMMA DetachFromSourceGood ==
  ASSUME TypeInv, DetachFromSource
  PROVE  Good
<1> DEFINE port == <<work.source, work.pod>>
<1>1. /\ work # None /\ work.at = "detach"
      /\ UNCHANGED <<pod, net, req, served, podQueue, podWork, queue, born>>
  BY DEF DetachFromSource, WorkingAt
<1>2. PICK o \in SdnOutcomes(port \notin attached) :
        /\ Detach(port, o) /\ faults' = faults + o.cost
        /\ IF o.ok THEN GoOn("attach") ELSE Fail
        /\ late' = late \ {q \in {port} : o.done}
  BY DEF DetachFromSource
<1>3. o.ok \in BOOLEAN /\ o.done \in BOOLEAN /\ o.cost \in {0, 1} /\ (o.ok => o.done)
  BY <1>2, SdnCases
<1>4. faults' \in Nat
  BY <1>2, <1>3, CostCounted DEF TypeInv
<1>5. /\ attached' \subseteq attached /\ attached \subseteq attached' \cup {port}
      /\ late' \subseteq late /\ \A q \in attached' : q \in late => q \in late'
      /\ o.ok => port \notin attached'
  BY <1>2, <1>3 DEF Detach
<1>6. PortStep
  BY <1>1, <1>5 DEF PortStep, WorkingAt
<1>7. WorkStep /\ WorkOK
  <2>1. CASE o.ok
    <3>1. /\ GoesToWork /\ work'.at = "attach" /\ work'.req = work.req
          /\ work'.source = work.source /\ work'.todo = work.todo /\ work'.pod = work.pod
      BY <1>1, <1>2, <2>1, GoesOn DEF TypeInv, Stages, Moving
    <3> QED
      BY <1>1, <1>5, <2>1, <3>1 DEF WorkStep, Advances, GoesToWork
  <2>2. CASE ~ o.ok
    <3>1. GoesToWork /\ work'.at = "answer"
      BY <1>1, <1>2, <2>2, Fails DEF TypeInv, Moving
    <3> QED
      BY <3>1 DEF WorkStep, GoesToWork
  <2> QED
    BY <2>1, <2>2
<1> HIDE DEF port
<1> QED
  BY <1>1, <1>4, <1>5, <1>6, <1>7, WorkerOnlyGood DEF TypeInv, TypeOK

LEMMA AttachToTargetGood ==
  ASSUME TypeInv, AttachToTarget
  PROVE  Good
<1> DEFINE port == <<Target[work.req], work.pod>>
<1>1. /\ work # None /\ work.at = "attach"
      /\ UNCHANGED <<pod, net, req, served, podQueue, podWork, queue, born, late>>
  BY DEF AttachToTarget, WorkingAt
<1>2. PICK o \in SdnOutcomes(port \in attached) :
        /\ Attach(port, o) /\ faults' = faults + o.cost
        /\ IF o.ok THEN GoOn("annotate") ELSE Fail
  BY DEF AttachToTarget
<1>3. o.ok \in BOOLEAN /\ o.done \in BOOLEAN /\ o.cost \in {0, 1} /\ (o.ok => o.done)
  BY <1>2, SdnCases
<1>4. faults' \in Nat
  BY <1>2, <1>3, CostCounted DEF TypeInv
<1>5. /\ attached \subseteq attached' /\ attached' \subseteq attached \cup {port}
      /\ o.ok => port \in attached'
  BY <1>2, <1>3 DEF Attach
<1>6. port \in Networks \X Pods
  <2>1. work.pod \in Pods
    BY <1>1 DEF TypeInv, WorkChecked, Moving
  <2> QED
    BY <1>1, <2>1, WorkFacts DEF TypeInv
<1>7. PortStep
  BY <1>1, <1>5 DEF PortStep, WorkingAt
<1>8. WorkStep /\ WorkOK
  <2>1. CASE o.ok
    <3>1. /\ GoesToWork /\ work'.at = "annotate" /\ work'.req = work.req
          /\ work'.source = work.source /\ work'.todo = work.todo /\ work'.pod = work.pod
      BY <1>1, <1>2, <2>1, GoesOn DEF TypeInv, Stages, Moving
    <3> QED
      BY <1>1, <1>5, <2>1, <3>1 DEF WorkStep, Advances, GoesToWork
  <2>2. CASE ~ o.ok
    <3>1. GoesToWork /\ work'.at = "answer"
      BY <1>1, <1>2, <2>2, Fails DEF TypeInv, Moving
    <3> QED
      BY <3>1 DEF WorkStep, GoesToWork
  <2> QED
    BY <2>1, <2>2
<1> HIDE DEF port
<1>9. attached' \subseteq Networks \X Pods
  BY <1>5, <1>6 DEF TypeInv, TypeOK
<1> QED
  BY <1>1, <1>4, <1>7, <1>8, <1>9, WorkerOnlyGood DEF TypeInv, TypeOK

LEMMA UpdateAnnotationGood ==
  ASSUME TypeInv, UpdateAnnotation
  PROVE  Good
<1> DEFINE p == work.pod
           v == [pod[p].obj EXCEPT !.net = Target[work.req]]
<1>1. /\ work # None /\ work.at = "annotate" /\ WorkingAt("annotate")
      /\ UNCHANGED <<net, req, served, attached, podQueue, podWork, queue, born, late>>
  BY DEF UpdateAnnotation, WorkingAt
<1>2. PICK o \in UpdateOutcomes(pod[p], Worker, v) :
        /\ pod' = [pod EXCEPT ![p] = Forgotten(o.after, Worker)]
        /\ faults' = faults + o.cost
        /\ IF o.ok THEN GoOn("leave") ELSE Fail
  BY DEF UpdateAnnotation
<1>3. p \in Pods /\ pod[p] \in Stored(PodValue) /\ pod[p].obj \in PodValue /\ Honest(pod[p])
  <2>1. p \in Pods
    BY <1>1 DEF TypeInv, WorkChecked, Moving
  <2> QED
    BY <2>1, PodStored DEF TypeInv, CopiesCurrent
<1>4. ASSUME Current(pod[p], Worker)
      PROVE  v \in PodValue /\ Renamed(p, v)
  <2>1. Live(p) /\ pod[p].obj.net = work.source
    BY <1>1, <1>4 DEF TypeInv, WorkerSaw, Moving, Waiting, Before
  <2>2. pod[p].obj \in PodObject /\ Target[work.req] \in Networks
    BY <1>1, <1>3, <2>1, WorkFacts DEF Live, Exists, PodValue, TypeInv
  <2>3. v \in PodObject
    BY <2>2, PodFacts
  <2>4. v.net = Target[work.req] /\ v.del = pod[p].obj.del
    BY <2>2, PodFields
  <2> HIDE DEF v
  <2> QED
    BY <1>1, <2>1, <2>3, <2>4, PodFacts DEF Renamed, Live, PodValue
<1> DEFINE t == Forgotten(o.after, Worker)
<1> HIDE DEF v
<1>5. /\ o.ok \in BOOLEAN /\ o.cost \in {0, 1}
      /\ o.after \in Stored(PodValue) /\ o.after.cache = pod[p].cache
      /\ o.ok => Current(pod[p], Worker) /\ o.after.obj = v
      /\ o.after.obj = pod[p].obj \/ (Current(pod[p], Worker) /\ o.after.obj = v)
      /\ Honest(o.after) /\ Keeps(pod[p], o.after)
  <2> HIDE DEF p
  <2> QED
    BY <1>2, <1>3, <1>4, UpdateCases DEF Others
<1>6. /\ t \in Stored(PodValue) /\ t.obj = o.after.obj /\ t.cache = pod[p].cache
      /\ Honest(t) /\ Keeps(o.after, t)
  BY <1>5, CopiedCases DEF Others
<1>7. ObjectStep(p, t.obj)
  BY <1>4, <1>5, <1>6 DEF ObjectStep
<1>8. \A h \in Others : Current(t, h) => t.obj = pod[p].obj /\ Current(pod[p], h)
  BY <1>5, <1>6 DEF Keeps
<1>9. pod' = [pod EXCEPT ![p] = t]
  BY <1>2
<1>10. WorkStep /\ WorkOK
  <2>1. CASE o.ok
    <3>1. /\ GoesToWork /\ work'.at = "leave" /\ work'.req = work.req
          /\ work'.source = work.source /\ work'.todo = work.todo /\ work'.pod = work.pod
      BY <1>1, <1>2, <2>1, GoesOn DEF TypeInv, Stages, Moving
    <3>2. pod'[p].obj = v
      BY <1>3, <1>5, <1>6, <1>9, <2>1 DEF TypeInv, TypeOK
    <3>3. Renamed(p, pod'[p].obj)
      BY <1>4, <1>5, <2>1, <3>2
    <3> QED
      BY <1>1, <3>1, <3>3 DEF WorkStep, Advances, GoesToWork
  <2>2. CASE ~ o.ok
    <3>1. GoesToWork /\ work'.at = "answer"
      BY <1>1, <1>2, <2>2, Fails DEF TypeInv, Moving
    <3> QED
      BY <3>1 DEF WorkStep, GoesToWork
  <2> QED
    BY <1>5, <2>1, <2>2
<1>11. faults' \in Nat
  BY <1>2, <1>5, CostCounted DEF TypeInv
<1> HIDE DEF t, p
<1>12. PodsKept
  BY <1>3, <1>6, <1>7, <1>8, <1>9, OnePodChanged
<1> QED
  BY <1>1, <1>10, <1>11, <1>12, NetsUnchanged, WorkerGood
     DEF PortStep, RequestsTyped, TypeInv, TypeOK

LEMMA StatusWritten ==
  ASSUME TypeInv, NEW n \in Networks, net[n].obj # None, NEW s \in NetStatus,
         NEW o \in UpdateOutcomes(net[n], Worker, s),
         net' = [net EXCEPT ![n] = Updated(@, o)],
         o.ok \/ o.after.obj = s => RecordStep(n, s)
  PROVE  /\ NetsKept /\ o.ok \in BOOLEAN /\ o.cost \in {0, 1}
         /\ o.ok => net'[n].obj = s
<1>1. s \in NetValue /\ s # None /\ net[n] \in Stored(NetValue)
  BY NetStored, QuarantineObjects DEF TypeInv, NetValue
<1>2. /\ o.ok \in BOOLEAN /\ o.cost \in {0, 1}
      /\ o.after \in Stored(NetValue) /\ o.after.cache = net[n].cache
      /\ o.ok => o.after.obj = s
      /\ o.after.obj = net[n].obj \/ o.after.obj = s
  BY <1>1, UpdateCases DEF Others
<1> DEFINE t == Updated(net[n], o)
<1>3. t \in Stored(NetValue) /\ t.obj = o.after.obj /\ t.cache = net[n].cache
  BY <1>2, HeldCases DEF Updated
<1>4. RecordStep(n, t.obj)
  BY <1>2, <1>3 DEF RecordStep, Recorded
<1>5. net' = [net EXCEPT ![n] = t]
  OBVIOUS
<1>6. t.obj # None
  BY <1>1, <1>2, <1>3
<1> HIDE DEF t
<1>7. NetsKept
  BY <1>3, <1>4, <1>5, <1>6, OneNetChanged
<1>8. net'[n].obj = t.obj
  BY <1>5 DEF TypeInv, TypeOK
<1> QED
  BY <1>2, <1>3, <1>7, <1>8

LEMMA UpdateSourceStatusGood ==
  ASSUME TypeInv, UpdateSourceStatus
  PROVE  Good
<1> DEFINE n == work.source
           s == Left(net[n].obj, work.pod)
<1>1. /\ work # None /\ work.at = "leave"
      /\ UNCHANGED <<pod, req, served, attached, podQueue, podWork, queue, born, late>>
  BY DEF UpdateSourceStatus, WorkingAt
<1>2. PICK o \in UpdateOutcomes(net[n], Worker, s) :
        /\ net' = [net EXCEPT ![n] = Updated(@, o)]
        /\ faults' = faults + o.cost
        /\ IF o.ok THEN GoOn("enter") ELSE Fail
  BY DEF UpdateSourceStatus
<1>3. work.pod \in Pods /\ n \in Networks /\ net[n].obj # None
  BY <1>1 DEF TypeInv, WorkChecked, NetworksKnown, Known, Moving
<1>4. net[n].obj \in NetStatus
  BY <1>3, NetStored DEF TypeInv, NetValue
<1>5. /\ s \in NetStatus
      /\ \A q \in Pods : IpOf[q] # None /\ s.assigned[IpOf[q]] = q =>
           net[n].obj.assigned[IpOf[q]] = q /\ q # work.pod
  <2> HIDE DEF n
  <2>1. s \in NetStatus
    BY <1>3, <1>4, StatusFacts
  <2>2. ASSUME NEW q \in Pods, IpOf[q] # None, s.assigned[IpOf[q]] = q
        PROVE  net[n].obj.assigned[IpOf[q]] = q /\ q # work.pod
    BY <1>3, <1>4, <2>2, RecordFacts
  <2> QED
    BY <2>1, <2>2
<1> HIDE DEF s
<1>6. RecordStep(n, s)
  BY <1>3, <1>5 DEF RecordStep, Recorded
<1>7. /\ NetsKept /\ o.ok \in BOOLEAN /\ o.cost \in {0, 1}
      /\ o.ok => net'[n].obj = s
  <2> HIDE DEF n
  <2> QED
    BY <1>2, <1>3, <1>5, <1>6, StatusWritten
<1>8. faults' \in Nat
  BY <1>2, <1>7, CostCounted DEF TypeInv
<1>9. WorkStep /\ WorkOK
  <2>1. CASE o.ok
    <3>1. /\ GoesToWork /\ work'.at = "enter" /\ work'.req = work.req
          /\ work'.source = work.source /\ work'.todo = work.todo /\ work'.pod = work.pod
      BY <1>1, <1>2, <2>1, GoesOn DEF TypeInv, Stages, Moving
    <3>2. ASSUME NEW m \in Networks, m = n, NEW p \in Pods, p = work.pod
          PROVE  ~ Recorded(m, p)'
      BY <1>5, <1>7, <2>1, <3>2 DEF Recorded
    <3>3. ~ Recorded(work.source, work.pod)'
      BY <1>3, <3>1, <3>2 DEF Recorded
    <3> QED
      BY <1>1, <3>1, <3>3 DEF WorkStep, Advances, GoesToWork
  <2>2. CASE ~ o.ok
    <3>1. GoesToWork /\ work'.at = "answer"
      BY <1>1, <1>2, <2>2, Fails DEF TypeInv, Moving
    <3> QED
      BY <3>1 DEF WorkStep, GoesToWork
  <2> QED
    BY <1>7, <2>1, <2>2
<1> QED
  BY <1>1, <1>7, <1>8, <1>9, PodsUnchanged, WorkerGood
     DEF PortStep, RequestsTyped, TypeInv, TypeOK

LEMMA UpdateTargetStatusGood ==
  ASSUME TypeInv, UpdateTargetStatus
  PROVE  Good
<1> DEFINE n == Target[work.req]
           s == Entered(net[n].obj, work.pod)
<1>1. /\ work # None /\ work.at = "enter" /\ WorkingAt("enter")
      /\ UNCHANGED <<pod, req, served, attached, podQueue, podWork, queue, born, late>>
  BY DEF UpdateTargetStatus, WorkingAt
<1>2. PICK o \in UpdateOutcomes(net[n], Worker, s) :
        /\ net' = [net EXCEPT ![n] = Updated(@, o)]
        /\ faults' = faults + o.cost
        /\ IF o.ok THEN MoveNext(work.todo, work.moved + 1) ELSE Fail
  BY DEF UpdateTargetStatus
<1>3. /\ work.pod \in Pods /\ n \in Networks /\ net[n].obj # None
      /\ work.todo \in SUBSET Pods /\ work.moved + 1 \in Nat
  <2>1. work.pod \in Pods /\ Known(n)
    BY <1>1 DEF TypeInv, WorkChecked, Moving
  <2>2. n \in Networks /\ work.todo \in SUBSET Pods /\ work.moved \in Nat
    BY <1>1, WorkFacts DEF TypeInv
  <2> QED
    BY <2>1, <2>2 DEF TypeInv, NetworksKnown, Known
<1>4. net[n].obj \in NetStatus
  BY <1>3, NetStored DEF TypeInv, NetValue
<1>5. /\ s \in NetStatus
      /\ \A q \in Pods : IpOf[q] # None /\ s.assigned[IpOf[q]] = q =>
           net[n].obj.assigned[IpOf[q]] = q \/ q = work.pod
  <2> HIDE DEF n
  <2>1. s \in NetStatus
    BY <1>3, <1>4, StatusFacts
  <2>2. ASSUME NEW q \in Pods, IpOf[q] # None, s.assigned[IpOf[q]] = q
        PROVE  net[n].obj.assigned[IpOf[q]] = q \/ q = work.pod
    BY <1>3, <1>4, <2>2, RecordFacts
  <2> QED
    BY <2>1, <2>2
<1> HIDE DEF s
<1>6. WorkOK /\ WorkStep /\ work' # None /\ work'.at \in {"answer", "detach"}
  <2>1. CASE o.ok
    <3>1. /\ GoesToWork
          /\ \/ work'.at = "answer"
             \/ /\ work'.at = "detach" /\ work'.req = work.req /\ work'.source = work.source
                /\ work'.pod \in work.todo /\ work'.todo \subseteq work.todo
      <4> HIDE DEF n
      <4> QED
        BY <1>1, <1>2, <1>3, <2>1, MovesNext DEF TypeInv
    <3> QED
      BY <1>1, <3>1 DEF WorkStep, GoesToWork
  <2>2. CASE ~ o.ok
    <3>1. GoesToWork /\ work'.at = "answer"
      BY <1>1, <1>2, <2>2, Fails DEF TypeInv, Moving
    <3> QED
      BY <3>1 DEF WorkStep, GoesToWork
  <2> QED
    BY <2>1, <2>2
<1>7. RecordStep(n, s)
  BY <1>1, <1>3, <1>5, <1>6 DEF RecordStep, Recorded, Enters
<1>8. NetsKept /\ o.cost \in {0, 1}
  <2> HIDE DEF n
  <2> QED
    BY <1>2, <1>3, <1>5, <1>7, StatusWritten
<1>9. faults' \in Nat
  BY <1>2, <1>8, CostCounted DEF TypeInv
<1> QED
  BY <1>1, <1>6, <1>8, <1>9, PodsUnchanged, WorkerGood
     DEF PortStep, RequestsTyped, TypeInv, TypeOK

(* Everything is forgotten, whatever is read.                              *)
LEMMA AllForgotten ==
  ASSUME TypeInv,
         pod' = [p \in Pods |-> Forgotten(pod[p], Worker)],
         net' = [n \in Networks |-> Forgotten(net[n], Worker)]
  PROVE  PodsKept /\ NetsKept
<1>1. ASSUME NEW p \in Pods
      PROVE  /\ Forgotten(pod[p], Worker) \in Stored(PodValue)
             /\ Forgotten(pod[p], Worker).obj = pod[p].obj
             /\ Forgotten(pod[p], Worker).cache = pod[p].cache
             /\ Honest(Forgotten(pod[p], Worker))
             /\ Keeps(pod[p], Forgotten(pod[p], Worker))
  BY PodStored, CopiedCases DEF Others, TypeInv, CopiesCurrent
<1>2. PodsTyped'
  BY <1>1 DEF PodsTyped, PodValue
<1>3. PodsKept
  BY <1>1, <1>2, AllPodsRead DEF Keeps
<1>4. ASSUME NEW n \in Networks
      PROVE  /\ Forgotten(net[n], Worker) \in Stored(NetValue)
             /\ Forgotten(net[n], Worker).obj = net[n].obj
             /\ Forgotten(net[n], Worker).cache = net[n].cache
  BY NetStored, CopiedCases DEF Others, TypeInv
<1>5. NetsTyped'
  BY <1>4 DEF NetsTyped, NetValue
<1>6. NetsKept
  BY <1>4, <1>5, AllNetsRead
<1> QED
  BY <1>3, <1>6

LEMMA SetQuarantineStatusGood ==
  ASSUME TypeInv, SetQuarantineStatus
  PROVE  Good
<1> DEFINE r == work.req
<1>1. /\ work # None /\ work.at = "answer"
      /\ UNCHANGED <<served, attached, podQueue, podWork, born, late>>
      /\ PodsKept /\ NetsKept
  BY AllForgotten DEF SetQuarantineStatus, WorkingAt
<1>2. PICK o \in StatusOutcomes(r) :
        /\ req' = [req EXCEPT ![r] = Forgotten(o.after, Worker)]
        /\ faults' = faults + o.cost
        /\ IF ~ o.ok THEN work' = None /\ queue' = queue \cup {r}
           ELSE /\ UNCHANGED queue
                /\ IF work.status.reason = "NoSingleSource"
                   THEN GoOn("panic") ELSE work' = None
  BY DEF SetQuarantineStatus
<1>3. r \in Requests /\ work.status \in RequestValue /\ req[r] \in Stored(RequestValue)
  BY <1>1, WorkFacts, RequestStored DEF TypeInv, RequestValue
<1> HIDE DEF r
<1>4. o.cost \in {0, 1} /\ o.after \in Stored(RequestValue)
  <2>1. CASE req[r].obj = None
    <3>1. o = [after |-> req[r], ok |-> TRUE, cost |-> 0]
      BY <1>2, <2>1 DEF StatusOutcomes
    <3> QED
      BY <1>3, <3>1
  <2>2. CASE req[r].obj # None
    <3>1. o \in UpdateOutcomes(req[r], Worker, work.status)
      BY <1>2, <2>2 DEF StatusOutcomes
    <3> QED
      BY <1>3, <3>1, UpdateCases DEF Others
  <2> QED
    BY <2>1, <2>2
<1>5. RequestsTyped'
  <2>1. Forgotten(o.after, Worker) \in Stored(RequestValue)
    BY <1>4, CopiedCases DEF Others
  <2> QED
    BY <1>2, <1>3, <2>1 DEF RequestsTyped, RequestValue, TypeInv, TypeOK
<1>6. faults' \in Nat
  BY <1>2, <1>4, CostCounted DEF TypeInv
<1>7. queue' \subseteq Requests
  BY <1>2, <1>3 DEF TypeInv, TypeOK
<1>8. WorkStep /\ WorkOK
  <2>1. CASE work' = None
    BY <2>1 DEF WorkStep, WorkOK
  <2>2. CASE GoOn("panic")
    <3>1. GoesToWork /\ work'.at = "panic"
      BY <1>1, <2>2, GoesOn DEF TypeInv, Stages
    <3> QED
      BY <3>1 DEF WorkStep, GoesToWork
  <2> QED
    BY <1>2, <2>1, <2>2
<1> QED
  BY <1>1, <1>5, <1>6, <1>7, <1>8, WorkerGood DEF PortStep, TypeInv, TypeOK

LEMMA WorkerKeeps ==
  ASSUME TypeInv, WorkerStep
  PROVE  Good
  BY CheckTargetGood, DetachFromSourceGood, AttachToTargetGood, UpdateAnnotationGood,
     UpdateSourceStatusGood, UpdateTargetStatusGood, SetQuarantineStatusGood
     DEF WorkerStep

LEMMA StartAgainGood ==
  ASSUME TypeInv, StartAgain, faults' \in Nat
  PROVE  Good
<1>1. /\ pod' = [p \in Pods |-> New(pod[p].obj)]
      /\ net' = [n \in Networks |-> [net[n] EXCEPT !.fresh = {Cache}]]
      /\ podWork' = None /\ work' = None
      /\ UNCHANGED <<served, attached, born, late>>
  BY DEF StartAgain
<1>2. podQueue' \subseteq Pods /\ queue' \subseteq Requests
  BY DEF StartAgain
<1>3. PodsKept
  <2>1. ASSUME NEW p \in Pods
        PROVE  /\ New(pod[p].obj) \in Stored(PodValue)
               /\ New(pod[p].obj).obj = pod[p].obj /\ New(pod[p].obj).cache = pod[p].obj
               /\ Honest(New(pod[p].obj)) /\ Keeps(pod[p], New(pod[p].obj))
    BY PodStored, OtherCases DEF TypeInv
  <2>2. PodsTyped'
    BY <1>1, <2>1 DEF PodsTyped, PodValue
  <2> QED
    BY <1>1, <2>1, <2>2, AllPodsRead DEF Keeps
<1>4. NetsKept
  <2>1. ASSUME NEW n \in Networks
        PROVE  /\ [net[n] EXCEPT !.fresh = {Cache}] \in Stored(NetValue)
               /\ [net[n] EXCEPT !.fresh = {Cache}].obj = net[n].obj
               /\ [net[n] EXCEPT !.fresh = {Cache}].cache = net[n].cache
    BY NetStored DEF TypeInv, Stored, Holders
  <2>2. NetsTyped'
    BY <1>1, <2>1 DEF NetsTyped, NetValue
  <2> QED
    BY <1>1, <2>1, <2>2, AllNetsRead
<1>5. RequestsTyped'
  <2> DEFINE t(r) == [New(req[r].obj) EXCEPT !.cache = IF @ = None THEN None ELSE NewRequest]
  <2>1. ASSUME NEW r \in Requests PROVE t(r) \in Stored(RequestValue)
    <3>1. req[r].obj \in RequestValue /\ NewRequest \in RequestValue
      BY RequestStored, ReportTyped DEF TypeInv, RequestValue
    <3>2. t(r) = [obj |-> req[r].obj, fresh |-> {Cache},
                  cache |-> IF req[r].obj = None THEN None ELSE NewRequest]
      BY DEF New
    <3> HIDE DEF t
    <3> QED
      BY <3>1, <3>2 DEF Stored, Holders, RequestValue
  <2>2. req' = [r \in Requests |-> t(r)]
    BY DEF StartAgain
  <2> HIDE DEF t
  <2> QED
    BY <2>1, <2>2 DEF RequestsTyped, RequestValue
<1>6. TypeOK'
  BY <1>1, <1>2, <1>3, <1>4, <1>5
     DEF TypeInv, TypeOK, PodsKept, NetsKept, PodsTyped, NetsTyped, RequestsTyped
<1> QED
  BY <1>1, <1>3, <1>4, <1>6 DEF Good, PodWorkStep, WorkStep, PortStep

LEMMA EveryStep ==
  ASSUME TypeInv, Next
  PROVE  Good
<1>1. ASSUME NEW p \in Pods, IgnorePod(p) \/ BeginPod(p) PROVE Good
  BY <1>1, BeginPodGood
<1>2. ASSUME NEW r \in Requests, IgnoreRequest(r) \/ BeginRequest(r) PROVE Good
  BY <1>2, IgnoreRequestGood, BeginRequestGood
<1>3. CASE Panic \/ Restart
  <2>1. faults' \in Nat
    BY <1>3, FaultCounted DEF Panic, Restart, TypeInv, TypeOK
  <2> QED
    BY <1>3, <2>1, StartAgainGood DEF Panic, Restart
<1> QED
  BY <1>1, <1>2, <1>3, EnvironmentKeeps, PodWorkerKeeps, WorkerKeeps DEF Next

LEMMA NoStep ==
  ASSUME TypeInv, UNCHANGED vars
  PROVE  Good
  BY PodsUnchanged, NetsUnchanged
     DEF Good, vars, controllerVars, PodWorkStep, WorkStep, PortStep, TypeInv, TypeOK

-----------------------------------------------------------------------------
(* What every step keeps of TypeInv.                                       *)

LEMMA NetworksKnownKept ==
  ASSUME TypeInv, Good
  PROVE  NetworksKnown'
  BY DEF TypeInv, Good, NetsKept, NetStep, NetworksKnown

LEMMA PodWorkerSawKept ==
  ASSUME TypeInv, Good
  PROVE  PodWorkerSaw'
<1>1. ASSUME podWork' # None, Current(pod'[podWork'.pod], PodWorker)
      PROVE  pod'[podWork'.pod].obj # None
  <2>1. podWork' \in PodWork /\ podWork'.pod \in Pods
    BY <1>1 DEF Good, TypeOK, PodWork
  <2>2. PICK p \in Pods : p = podWork'.pod
    BY <2>1
  <2>3. /\ pod'[p].obj = pod[p].obj
        /\ Current(pod[p], PodWorker) \/ Reads(PodWorker, p)
    BY <1>1, <2>2 DEF Good, PodsKept, PodStep, Others
  <2>4. CASE podWork # None /\ podWork.pod = p
    BY <2>2, <2>3, <2>4 DEF Reads, TypeInv, PodWorkerSaw, Exists
  <2>5. CASE podWork = None /\ pod[p].cache # None /\ UpToDate(p)
    BY <2>2, <2>3, <2>5 DEF UpToDate
  <2> QED
    BY <1>1, <2>2, <2>4, <2>5 DEF Good, PodWorkStep
<1> QED
  BY <1>1 DEF PodWorkerSaw, Exists

LEMMA WorkCheckedKept ==
  ASSUME TypeInv, Good
  PROVE  WorkChecked'
<1>1. ASSUME NEW n \in Networks, Known(n) PROVE Known(n)'
  BY <1>1 DEF Good, NetsKept, NetStep, Known
<1> SUFFICES ASSUME work' # None, work'.at \in Moving \cup {"check"}
             PROVE  /\ work'.source \in Networks \cap Sources[work'.req]
                    /\ net'[work'.source].cache # None
                    /\ net'[Target[work'.req]].cache # None
                    /\ work'.at \in Moving => work'.pod \in Pods
  BY DEF WorkChecked, Known
<1>2. work' \in Work /\ work'.req \in Requests /\ Target[work'.req] \in Networks
  BY ConstantFacts DEF Good, TypeOK, Work
<1>3. /\ work'.source \in Networks \cap Sources[work'.req]
      /\ Known(work'.source) /\ Known(Target[work'.req])
      /\ work'.at \in Moving => work'.pod \in Pods
  <2>1. CASE work' = work
    BY <2>1 DEF TypeInv, WorkChecked
  <2>2. CASE work = None /\ work'.at = "check"
    BY <2>2 DEF Good, WorkStep, Moving
  <2>3. CASE /\ work # None /\ work'.req = work.req /\ work'.source = work.source
             /\ \/ work'.pod = work.pod /\ work'.todo = work.todo /\ Advances
                \/ /\ work'.at = "detach"
                   /\ \/ work.at = "check" /\ work'.todo \cup {work'.pod} \subseteq PodsToMove
                      \/ work.at = "enter" /\ work'.todo \cup {work'.pod} \subseteq work.todo
    <3>1. work.at \in Moving \cup {"check"}
      BY <2>3 DEF Advances, Moving
    <3>2. PodsToMove \subseteq Pods /\ work.todo \subseteq Pods
      BY <2>3, WorkFacts, ConstantFacts DEF PodsToMove, TypeInv
    <3>3. work'.pod \in Pods
      BY <2>3, <3>1, <3>2 DEF TypeInv, WorkChecked, Advances, Moving
    <3> QED
      BY <2>3, <3>1, <3>3 DEF TypeInv, WorkChecked
  <2> QED
    BY <2>1, <2>2, <2>3 DEF Good, WorkStep, Moving
<1> QED
  BY <1>1, <1>2, <1>3 DEF Known

LEMMA WorkerSawKept ==
  ASSUME TypeInv, Good
  PROVE  WorkerSaw'
<1> SUFFICES ASSUME work' # None, work'.at \in Moving,
                    NEW p \in work'.todo \cup {q \in {work'.pod} : work'.at \in Before},
                    Current(pod'[p], Worker)
             PROVE  pod'[p].obj # None /\ ~ pod'[p].obj.del /\ pod'[p].obj.net = work'.source
  BY DEF WorkerSaw, Waiting, Live, Exists
<1>1. p \in Pods
  <2>1. work' \in Work
    BY DEF Good, TypeOK
  <2>2. work'.todo \subseteq Pods
    BY <2>1 DEF Work
  <2> QED
    BY <2>2, WorkCheckedKept DEF WorkChecked
<1>2. /\ pod'[p].obj = pod[p].obj
      /\ Current(pod[p], Worker) \/ (WorkingAt("check") /\ UpToDate(p))
  BY <1>1 DEF Good, PodsKept, PodStep, Others, Reads
<1>3. pod[p].obj # None /\ ~ pod[p].obj.del /\ pod[p].obj.net = work'.source
  <2>1. CASE /\ work # None /\ work.at \in Moving /\ p \in Waiting
             /\ work'.source = work.source /\ work.at # "check"
    BY <1>2, <2>1 DEF TypeInv, WorkerSaw, WorkingAt, Live, Exists
  <2>2. CASE /\ work # None /\ work'.source = work.source
             /\ p \in PodsToMove /\ UpToDate(p)
    BY <2>2 DEF PodsToMove, UpToDate
  <2> HIDE DEF WorkingAt
  <2> QED
    BY <1>1, <1>2, <2>1, <2>2 DEF Good, WorkStep, Advances, Waiting, Before, Moving
<1> QED
  BY <1>2, <1>3

LEMMA TypeInvInit == Init => TypeInv
<1> SUFFICES ASSUME Init PROVE TypeInv
  OBVIOUS
<1>1. NewStatus \in NetStatus
  BY DEF NewStatus, NetStatus
<1>2. PICK known \in SUBSET Networks :
        /\ net = [n \in Networks |-> New(IF n \in known THEN NewStatus ELSE None)]
        /\ served \in SUBSET (known \cap Targets)
  BY DEF Init
<1>3. net \in [Networks -> Stored(NetStatus \cup {None})]
  <2>1. \A n \in Networks :
          New(IF n \in known THEN NewStatus ELSE None) \in Stored(NetStatus \cup {None})
    BY <1>1 DEF New, Stored, Holders
  <2> QED
    BY <1>2, <2>1
<1>4. /\ pod \in [Pods -> Stored(PodObject \cup {None})]
      /\ req \in [Requests -> Stored(RequestStatus \cup {None})]
  BY DEF Init, New, Stored, Holders
<1>5. TypeOK
  BY <1>2, <1>3, <1>4 DEF Init, TypeOK
<1>6. CopiesCurrent /\ NetworksKnown
  BY <1>2 DEF Init, New, CopiesCurrent, Honest, NetworksKnown
<1> QED
  BY <1>5, <1>6 DEF Init, TypeInv, PodWorkerSaw, WorkerSaw, WorkChecked

LEMMA TypeInvStep == TypeInv /\ [Next]_vars => TypeInv' /\ Good
<1> SUFFICES ASSUME TypeInv, [Next]_vars PROVE TypeInv' /\ Good
  OBVIOUS
<1>1. Good
  BY EveryStep, NoStep
<1>2. TypeOK' /\ CopiesCurrent'
  BY <1>1 DEF Good, PodsKept
<1> QED
  BY <1>1, <1>2, NetworksKnownKept, PodWorkerSawKept, WorkerSawKept, WorkCheckedKept
     DEF TypeInv

LEMMA TypeInvAlways == Spec => []TypeInv
  BY TypeInvInit, TypeInvStep, PTL DEF Spec

-----------------------------------------------------------------------------
(* What every step keeps of the life of pods.                              *)

LifeTypes == TypeInv /\ LifeInv

LEMMA DoomedStays ==
  ASSUME Good, NEW p \in Pods, Doomed(p)
  PROVE  Doomed(p)'
  BY DEF Good, PodsKept, PodStep, ObjectStep, Renamed, Doomed, Live, Exists

LEMMA CreatedOnceKept ==
  ASSUME LifeTypes, Good
  PROVE  CreatedOnce'
<1> SUFFICES ASSUME NEW p \in Pods, p \notin born'
             PROVE  pod'[p].obj = None /\ pod'[p].cache = None
  BY DEF CreatedOnce, Exists
<1>1. p \notin born /\ pod[p].obj = None /\ pod[p].cache = None
  BY DEF Good, LifeTypes, LifeInv, CreatedOnce, Exists
<1>2. PodStep(p)
  BY DEF Good, PodsKept
<1> QED
  BY <1>1, <1>2 DEF PodStep, ObjectStep, Renamed, Live, Exists

LEMMA DeletionIsFinalKept ==
  ASSUME LifeTypes, Good
  PROVE  DeletionIsFinal'
<1>1. ASSUME NEW p \in Pods, pod'[p].cache # None, pod'[p].cache.del
      PROVE  Doomed(p)'
  <2>1. CASE pod'[p].cache = pod[p].cache
    BY <1>1, <2>1, DoomedStays DEF LifeTypes, LifeInv, DeletionIsFinal
  <2>2. CASE pod'[p].cache = pod[p].obj /\ pod'[p].obj = pod[p].obj
    BY <1>1, <2>2 DEF LifeTypes, LifeInv, CreatedOnce, Doomed, Live, Exists, Good
  <2> QED
    BY <2>1, <2>2 DEF Good, PodsKept, PodStep
<1>2. ASSUME podWork' # None, podWork'.at \in Cleaning, NEW p \in Pods, p = podWork'.pod
      PROVE  Doomed(p)'
  <2>1. CASE podWork # None /\ podWork.pod = p /\ podWork.at \in Cleaning
    BY <2>1, DoomedStays DEF LifeTypes, LifeInv, DeletionIsFinal, Cleaning
  <2>2. CASE pod[p].cache # None /\ pod[p].cache.del
    BY <2>2, DoomedStays DEF LifeTypes, LifeInv, DeletionIsFinal
  <2> QED
    BY <1>2, <2>1, <2>2 DEF Good, PodWorkStep
<1>3. podWork' # None => podWork'.pod \in Pods
  BY DEF Good, TypeOK, PodWork
<1> QED
  BY <1>1, <1>2, <1>3 DEF DeletionIsFinal, Cleaning, Doomed, Live, Exists

(* A pod at work is a pod at home, and the target is somewhere else.       *)
LEMMA MovesAway ==
  ASSUME OneWay, LifeTypes, work # None, work.at \in Moving,
         NEW p \in work.todo \cup {work.pod}
  PROVE  /\ p \in Pods /\ p \in born /\ p \in Selected[work.req] /\ Home[p] = work.source
         /\ Target[work.req] # Home[p] /\ Target[work.req] \in Goals(p)
<1>1. p \in born /\ p \in Selected[work.req] /\ Home[p] = work.source
  BY DEF LifeTypes, LifeInv, MovesFromHome, Movable
<1>2. /\ work.req \in Requests /\ p \in Pods /\ work.source \in Sources[work.req]
  BY <1>1, WorkFacts, ConstantFacts DEF LifeTypes, TypeInv, WorkChecked
<1>3. Target[work.req] \in Goals(p) /\ work.source \in Origins(p)
  BY <1>1, <1>2 DEF Goals, Origins
<1> QED
  BY <1>1, <1>2, <1>3 DEF OneWay

LEMMA InPlaceKept ==
  ASSUME OneWay, LifeTypes, Good
  PROVE  InPlace'
<1> SUFFICES ASSUME NEW p \in Pods
             PROVE  Place(p, pod'[p].obj) /\ Place(p, pod'[p].cache)
  BY DEF InPlace
<1>1. Place(p, pod[p].obj) /\ Place(p, pod[p].cache) /\ PodStep(p)
  BY DEF LifeTypes, LifeInv, InPlace, Good, PodsKept
<1>2. CASE Renamed(p, pod'[p].obj)
  <2>1. Target[work.req] \in Goals(p)
    BY <1>2, MovesAway DEF Renamed, WorkingAt, Moving
  <2>2. Place(p, pod'[p].obj)
    BY <1>2, <2>1 DEF Renamed, Place
  <2> QED
    BY <1>1, <2>2 DEF PodStep
<1>3. CASE ~ Renamed(p, pod'[p].obj)
  BY <1>1, <1>3 DEF PodStep, ObjectStep, Place, Exists
<1> QED
  BY <1>2, <1>3

LEMMA MovesFromHomeKept ==
  ASSUME OneWay, LifeTypes, Good
  PROVE  MovesFromHome'
<1> SUFFICES ASSUME work' # None, work'.at \in Moving,
                    NEW p \in work'.todo \cup {work'.pod}
             PROVE  p \in born' /\ p \in Selected[work'.req] /\ Home[p] = work'.source
  BY DEF MovesFromHome, Movable
<1>1. born \subseteq born'
  BY DEF Good
<1>2. CASE /\ work # None /\ work.at \in Moving /\ work'.req = work.req
           /\ work'.source = work.source /\ p \in work.todo \cup {work.pod}
  BY <1>1, <1>2, MovesAway
<1>3. CASE /\ work # None /\ work.at = "check" /\ work'.req = work.req
           /\ work'.source = work.source /\ p \in PodsToMove
  <2>1. /\ p \in Selected[work.req] /\ p \in Pods /\ work.req \in Requests
        /\ work.source \in Sources[work.req]
        /\ pod[p].cache # None /\ pod[p].cache.net = work.source
    BY <1>3, WorkFacts, ConstantFacts DEF PodsToMove, LifeTypes, TypeInv, WorkChecked
  <2>2. work.source \in Origins(p) /\ p \in born
    BY <2>1 DEF Origins, LifeTypes, LifeInv, CreatedOnce
  <2>3. work.source \in {Home[p]} \cup Goals(p)
    BY <2>1 DEF LifeTypes, LifeInv, InPlace, Place
  <2> QED
    BY <1>1, <1>3, <2>1, <2>2, <2>3 DEF OneWay
<1> QED
  BY <1>2, <1>3 DEF Good, WorkStep, Advances, Moving

(* A pod that is out of its home does not come back.                       *)
LEMMA LeftStays ==
  ASSUME OneWay, LifeTypes, Good, NEW p \in Pods, p \in born, Gone(p)
  PROVE  Gone(p)'
<1>1. PodStep(p)
  BY DEF Good, PodsKept
<1>2. CASE Renamed(p, pod'[p].obj)
  <2>1. Target[work.req] # Home[p]
    BY <1>2, MovesAway DEF Renamed, WorkingAt, Moving
  <2> QED
    BY <1>2, <2>1 DEF Renamed, Gone
<1>3. CASE ~ Renamed(p, pod'[p].obj)
  BY <1>1, <1>3 DEF PodStep, ObjectStep, Gone, Exists
<1> QED
  BY <1>2, <1>3

LEMMA AnnotatedGoneKept ==
  ASSUME OneWay, LifeTypes, Good
  PROVE  AnnotatedGone'
<1> SUFFICES ASSUME work' # None, work'.at \in {"leave", "enter"}, NEW p, p = work'.pod
             PROVE  Gone(p)'
  BY DEF AnnotatedGone, Gone, Exists
<1>1. work # None /\ work.pod = p /\ work.at \in {"annotate", "leave", "enter"}
  BY DEF Good, WorkStep, Advances
<1>2. p \in Pods /\ p \in born /\ Target[work.req] # Home[p]
  BY <1>1, MovesAway DEF Moving
<1>3. CASE work.at \in {"leave", "enter"}
  BY <1>1, <1>2, <1>3, LeftStays DEF LifeTypes, LifeInv, AnnotatedGone
<1>4. CASE work.at = "annotate"
  <2>1. Renamed(p, pod'[p].obj)
    BY <1>1, <1>4 DEF Good, WorkStep, Advances
  <2> QED
    BY <1>2, <2>1 DEF Renamed, Gone
<1> QED
  BY <1>1, <1>3, <1>4

LEMMA LifeInvKept ==
  ASSUME OneWay, LifeTypes, Good
  PROVE  LifeInv'
  BY CreatedOnceKept, DeletionIsFinalKept, InPlaceKept, MovesFromHomeKept, AnnotatedGoneKept
     DEF LifeInv

LEMMA LifeInvInit == Init => LifeInv
<1> SUFFICES ASSUME Init PROVE LifeInv
  OBVIOUS
<1>1. \A p \in Pods : pod[p].obj = None /\ pod[p].cache = None
  BY DEF Init, New
<1> QED
  BY <1>1 DEF Init, LifeInv, CreatedOnce, DeletionIsFinal, InPlace, Place, MovesFromHome,
              AnnotatedGone, Exists

-----------------------------------------------------------------------------
(* What every step keeps of the ports.                                     *)

PortTypes == LifeTypes /\ PortsOnTheWay /\ MovedWithPort

(* A pod keeps its port out of its home, or has it back late.              *)
LEMMA OutOfHomeStays ==
  ASSUME OneWay, PortTypes, Good, NEW p \in Pods, OutOfHome(p),
         \/ Live(p) /\ pod[p].obj.net # Home[p]
         \/ (WorkingAt("attach") \/ WorkingAt("annotate")) /\ p = work.pod
  PROVE  OutOfHome(p)'
<1>1. CASE attached' = attached /\ late' = late
  BY <1>1 DEF OutOfHome
<1>2. CASE /\ podWork # None
           /\ attached' \subseteq attached \cup {<<podWork.net, podWork.pod>>}
           /\ late \subseteq late'
           /\ TakenOut(podWork.net, podWork.pod) => <<podWork.net, podWork.pod>> \in late'
  <2>1. CASE <<podWork.net, podWork.pod>> = <<Home[p], p>>
    <3>1. podWork.net = Home[p] /\ podWork.pod = p
      BY <2>1
    <3>2. TakenOut(Home[p], p)
      <4>1. CASE Live(p) /\ pod[p].obj.net # Home[p]
        BY <4>1 DEF TakenOut
      <4>2. CASE (WorkingAt("attach") \/ WorkingAt("annotate")) /\ p = work.pod
        BY <4>2, MovesAway DEF TakenOut, WorkingAt, Moving, PortTypes
      <4> QED
        BY <4>1, <4>2
    <3> QED
      BY <1>2, <3>1, <3>2 DEF OutOfHome
  <2>2. CASE <<podWork.net, podWork.pod>> # <<Home[p], p>>
    BY <1>2, <2>2 DEF OutOfHome
  <2> QED
    BY <2>1, <2>2
<1>3. CASE attached' \subseteq attached /\ \A q \in attached' : q \in late => q \in late'
  BY <1>3 DEF OutOfHome
<1>4. CASE /\ WorkingAt("attach") /\ late' = late
           /\ attached' \subseteq attached \cup {<<Target[work.req], work.pod>>}
  <2>1. Target[work.req] # Home[work.pod]
    BY <1>4, MovesAway DEF WorkingAt, Moving, PortTypes
  <2>2. <<Target[work.req], work.pod>> # <<Home[p], p>>
    BY <2>1
  <2> QED
    BY <1>4, <2>2 DEF OutOfHome
<1> QED
  BY <1>1, <1>2, <1>3, <1>4 DEF Good, PortStep

(* A pod that lives keeps its port out of its home, but for the worker     *)
(* that is about to detach it.                                             *)
LEMMA PortStays ==
  ASSUME OneWay, PortTypes, Good, NEW p \in Pods, Live(p),
         NEW n \in Networks, <<n, p>> \in attached, n # Home[p]
  PROVE  <<n, p>> \in attached'
<1>1. CASE attached \subseteq attached'
  BY <1>1
<1>2. CASE /\ podWork # None /\ podWork.at = "detach"
           /\ attached \subseteq attached' \cup {<<podWork.net, podWork.pod>>}
  <2>1. Doomed(podWork.pod)
    BY <1>2 DEF PortTypes, LifeTypes, LifeInv, DeletionIsFinal
  <2>2. podWork.pod # p
    BY <2>1 DEF Doomed
  <2> QED
    BY <1>2, <2>2
<1>3. CASE /\ WorkingAt("detach")
           /\ attached \subseteq attached' \cup {<<work.source, work.pod>>}
  <2>1. Home[work.pod] = work.source
    BY <1>3, MovesAway DEF WorkingAt, Moving, PortTypes
  <2>2. <<work.source, work.pod>> # <<n, p>>
    BY <2>1
  <2> QED
    BY <1>3, <2>2
<1> QED
  BY <1>1, <1>2, <1>3 DEF Good, PortStep

LEMMA PortsOnTheWayKept ==
  ASSUME OneWay, PortTypes, Good
  PROVE  PortsOnTheWay'
<1>1. ASSUME work' # None, work'.at \in {"attach", "annotate"}, NEW p, p = work'.pod
      PROVE  OutOfHome(p)'
  <2>1. CASE work # None /\ work.at \in {"attach", "annotate"} /\ p = work.pod
    <3>1. p \in Pods /\ OutOfHome(p)
      BY <2>1, MovesAway DEF PortTypes, PortsOnTheWay, WorkingAt, Moving
    <3> QED
      BY <2>1, <3>1, OutOfHomeStays DEF WorkingAt
  <2>2. CASE /\ work # None /\ work.at = "detach" /\ p = work.pod
             /\ <<work.source, work.pod>> \notin attached'
    <3>1. Home[p] = work.source
      BY <2>2, MovesAway DEF Moving, PortTypes
    <3> QED
      BY <2>2, <3>1 DEF OutOfHome
  <2> QED
    BY <1>1, <2>1, <2>2 DEF Good, WorkStep, Advances
<1>2. ASSUME work' # None, work'.at = "annotate", NEW p, p = work'.pod
      PROVE  <<Target[work'.req], p>> \in attached' \/ ~ Live(p)'
  <2>1. CASE work' = work
    <3>1. /\ p \in Pods /\ p \in born /\ Target[work.req] # Home[p]
          /\ Target[work.req] \in Networks
      BY <1>2, <2>1, MovesAway, WorkFacts DEF Moving, PortTypes, LifeTypes, TypeInv
    <3>2. CASE Live(p)
      <4>1. <<Target[work.req], p>> \in attached
        BY <1>2, <2>1, <3>2 DEF PortTypes, PortsOnTheWay, WorkingAt
      <4> QED
        BY <2>1, <3>1, <3>2, <4>1, PortStays
    <3>3. CASE ~ Live(p)
      BY <3>1, <3>3, DoomedStays DEF Doomed
    <3> QED
      BY <3>2, <3>3
  <2>2. CASE /\ work # None /\ work'.req = work.req /\ work'.pod = work.pod
             /\ <<Target[work.req], work.pod>> \in attached'
    BY <1>2, <2>2
  <2> QED
    BY <1>2, <2>1, <2>2 DEF Good, WorkStep, Advances
<1> QED
  BY <1>1, <1>2 DEF PortsOnTheWay, WorkingAt, OutOfHome, Live, Exists

LEMMA MovedWithPortKept ==
  ASSUME OneWay, PortTypes, Good
  PROVE  MovedWithPort'
<1> SUFFICES ASSUME NEW p \in Pods, pod'[p].obj # None, ~ pod'[p].obj.del,
                    pod'[p].obj.net # Home[p]
             PROVE  <<pod'[p].obj.net, p>> \in attached' /\ OutOfHome(p)'
  BY DEF MovedWithPort, Moved, Live, Exists, OutOfHome
<1>1. ObjectStep(p, pod'[p].obj)
  BY DEF Good, PodsKept, PodStep
<1>2. CASE Live(p) /\ pod'[p].obj.net = pod[p].obj.net
  <2>1. <<pod[p].obj.net, p>> \in attached /\ OutOfHome(p)
    BY <1>2 DEF PortTypes, MovedWithPort, Moved, OutOfHome
  <2>2. pod[p].obj.net \in Networks
    BY <1>2, PodStored, PodFacts DEF PortTypes, LifeTypes, TypeInv, Live, Exists, PodValue
  <2> QED
    BY <1>2, <2>1, <2>2, OutOfHomeStays, PortStays
<1>3. CASE Renamed(p, pod'[p].obj)
  <2>1. work # None /\ work.at = "annotate" /\ p = work.pod /\ Live(p)
    BY <1>3 DEF Renamed, WorkingAt
  <2>2. <<Target[work.req], p>> \in attached /\ OutOfHome(p)
    BY <2>1 DEF PortTypes, PortsOnTheWay, WorkingAt
  <2>3. Target[work.req] # Home[p] /\ Target[work.req] \in Networks
    BY <2>1, MovesAway, WorkFacts DEF Moving, PortTypes, LifeTypes, TypeInv
  <2>4. <<Target[work.req], p>> \in attached' /\ OutOfHome(p)'
    BY <2>1, <2>2, <2>3, OutOfHomeStays, PortStays DEF WorkingAt
  <2> QED
    BY <1>3, <2>4 DEF Renamed
<1> QED
  BY <1>1, <1>2, <1>3 DEF ObjectStep, Live, Exists

-----------------------------------------------------------------------------
(* What every step keeps of the records.                                   *)

RecordTypes ==
  LifeTypes /\ RecordsOfBorn /\ RecordedAtHome /\ RecordsOnTheWay /\ RecordedOnce

LEMMA RecordCases ==
  ASSUME Good, NEW n \in Networks, NEW p \in Pods, Recorded(n, p)'
  PROVE  \/ Recorded(n, p)
         \/ n = Home[p] /\ p \notin born /\ p \in born' /\ UNCHANGED work
         \/ Enters(n, p)
<1>1. RecordStep(n, net'[n].obj)
  BY DEF Good, NetsKept, NetStep
<1> QED
  BY <1>1 DEF RecordStep, Recorded

LEMMA RecordsOfBornKept ==
  ASSUME OneWay, RecordTypes, Good
  PROVE  RecordsOfBorn'
<1> SUFFICES ASSUME NEW p \in Pods, NEW n \in Networks, Recorded(n, p)'
             PROVE  p \in born'
  BY DEF RecordsOfBorn
<1>1. CASE Recorded(n, p)
  BY <1>1 DEF RecordTypes, RecordsOfBorn, Good
<1>2. CASE Enters(n, p)
  BY <1>2, MovesAway DEF Enters, WorkingAt, Moving, RecordTypes, Good
<1> QED
  BY <1>1, <1>2, RecordCases

LEMMA RecordedAtHomeKept ==
  ASSUME OneWay, RecordTypes, Good
  PROVE  RecordedAtHome'
<1> SUFFICES ASSUME NEW p \in Pods, NEW n \in Networks, Recorded(n, p)', ~ Gone(p)'
             PROVE  n = Home[p]
  BY DEF RecordedAtHome, Gone, Exists
<1>1. CASE Recorded(n, p)
  <2>1. p \in born
    BY <1>1 DEF RecordTypes, RecordsOfBorn
  <2>2. ~ Gone(p)
    BY <2>1, LeftStays DEF RecordTypes
  <2> QED
    BY <1>1, <2>2 DEF RecordTypes, RecordedAtHome, Gone
<1>2. CASE Enters(n, p)
  <2>1. Gone(p)
    BY <1>2 DEF Enters, WorkingAt, RecordTypes, LifeTypes, LifeInv, AnnotatedGone
  <2> QED
    BY <1>2, <2>1 DEF Enters, Gone, Exists
<1> QED
  BY <1>1, <1>2, RecordCases

LEMMA RecordsOnTheWayKept ==
  ASSUME OneWay, RecordTypes, Good
  PROVE  RecordsOnTheWay'
<1> SUFFICES ASSUME work' # None, work'.at \in {"leave", "enter"},
                    NEW n \in Networks, NEW p, p = work'.pod, Recorded(n, p)'
             PROVE  work'.at = "leave" /\ n = work'.source
  BY DEF RecordsOnTheWay, WorkingAt, Recorded
<1>1. /\ work # None /\ work.pod = p /\ work.at \in Moving /\ work'.source = work.source
      /\ \/ work' = work
         \/ work.at = "annotate" /\ work'.at = "leave" /\ Renamed(p, pod'[p].obj)
         \/ work.at = "leave" /\ work'.at = "enter" /\ ~ Recorded(work.source, p)'
  <2>1. /\ work # None /\ work.pod = p /\ work.at \in Moving /\ work'.source = work.source
        /\ \/ work' = work
           \/ work.at = "annotate" /\ work'.at = "leave" /\ Renamed(work.pod, pod'[work.pod].obj)
           \/ work.at = "leave" /\ work'.at = "enter" /\ ~ Recorded(work.source, work.pod)'
    BY DEF Good, WorkStep, Advances, Moving
  <2> QED
    BY <2>1 DEF Recorded
<1>2. p \in Pods /\ p \in born /\ Home[p] = work.source
  BY <1>1, MovesAway DEF RecordTypes
<1>3. Recorded(n, p)
  BY <1>2, RecordCases DEF Enters
<1>4. CASE work' = work
  BY <1>1, <1>3, <1>4 DEF RecordTypes, RecordsOnTheWay, WorkingAt
<1>5. CASE work.at = "annotate" /\ work'.at = "leave" /\ Renamed(p, pod'[p].obj)
  BY <1>1, <1>2, <1>3, <1>5 DEF Renamed, Live, RecordTypes, RecordedAtHome
<1>6. CASE work.at = "leave" /\ work'.at = "enter" /\ ~ Recorded(work.source, p)'
  <2>1. n = work.source
    BY <1>1, <1>3, <1>6 DEF RecordTypes, RecordsOnTheWay, WorkingAt
  <2> QED
    BY <1>1, <1>6, <2>1 DEF Recorded
<1> QED
  BY <1>1, <1>4, <1>5, <1>6

LEMMA RecordedOnceKept ==
  ASSUME OneWay, RecordTypes, Good
  PROVE  RecordedOnce'
<1> SUFFICES ASSUME NEW p \in Pods, NEW n \in Networks, NEW m \in Networks,
                    Recorded(n, p)', Recorded(m, p)'
             PROVE  n = m
  BY DEF RecordedOnce, Recorded
<1>1. ASSUME NEW k \in Networks, Recorded(k, p)
      PROVE  p \in born /\ \A l \in Networks : ~ Enters(l, p)
  BY <1>1 DEF RecordTypes, RecordsOfBorn, RecordsOnTheWay, Enters
<1>2. ASSUME NEW k \in Networks, Enters(k, p)
      PROVE  p \in born /\ k = Target[work.req]
  BY <1>2, MovesAway DEF Enters, WorkingAt, Moving, RecordTypes
<1>3. CASE Recorded(n, p) /\ Recorded(m, p)
  BY <1>3 DEF RecordTypes, RecordedOnce, Recorded
<1> QED
  BY <1>1, <1>2, <1>3, RecordCases

-----------------------------------------------------------------------------
(* The invariant, and what it says.                                        *)

LEMMA MoveInvInit == Init => MoveInv
<1> SUFFICES ASSUME Init PROVE MoveInv
  OBVIOUS
<1>1. TypeInv /\ LifeInv
  BY TypeInvInit, LifeInvInit
<1>2. \A p \in Pods : pod[p].obj = None
  BY DEF Init, New
<1>3. ASSUME NEW n \in Networks, NEW p \in Pods PROVE ~ Recorded(n, p)
  <2>1. PICK known \in SUBSET Networks :
          net = [k \in Networks |-> New(IF k \in known THEN NewStatus ELSE None)]
    BY DEF Init
  <2>2. net[n].obj = (IF n \in known THEN NewStatus ELSE None)
    BY <2>1 DEF New
  <2>3. IpOf[p] # None => IpOf[p] \in Ips
    BY ConstantFacts
  <2> QED
    BY <2>2, <2>3, ConstantFacts DEF Recorded, NewStatus
<1>4. RecordsOfBorn /\ RecordedAtHome
  BY <1>3 DEF RecordsOfBorn, RecordedAtHome
<1>5. RecordedOnce
  BY <1>3 DEF RecordedOnce, Recorded
<1>6. PortsOnTheWay /\ RecordsOnTheWay /\ MovedWithPort
  BY <1>2 DEF Init, PortsOnTheWay, RecordsOnTheWay, WorkingAt, MovedWithPort, Moved, Live,
              Exists
<1> QED
  BY <1>1, <1>4, <1>5, <1>6 DEF MoveInv

LEMMA MoveInvStep ==
  ASSUME OneWay
  PROVE  MoveInv /\ [Next]_vars => MoveInv'
<1> SUFFICES ASSUME MoveInv, [Next]_vars PROVE MoveInv'
  OBVIOUS
<1>1. TypeInv' /\ Good
  BY TypeInvStep DEF MoveInv
<1>2. LifeTypes /\ PortTypes /\ RecordTypes
  BY DEF MoveInv, LifeTypes, PortTypes, RecordTypes
<1>3. LifeInv'
  BY <1>1, <1>2, LifeInvKept
<1>4. PortsOnTheWay' /\ MovedWithPort'
  BY <1>1, <1>2, PortsOnTheWayKept, MovedWithPortKept
<1>5. RecordsOfBorn' /\ RecordedAtHome' /\ RecordsOnTheWay' /\ RecordedOnce'
  BY <1>1, <1>2, RecordsOfBornKept, RecordedAtHomeKept, RecordsOnTheWayKept, RecordedOnceKept
<1> QED
  BY <1>1, <1>3, <1>4, <1>5 DEF MoveInv

LEMMA MoveInvAlways ==
  ASSUME OneWay
  PROVE  Spec => []MoveInv
  BY MoveInvInit, MoveInvStep, PTL DEF Spec

-----------------------------------------------------------------------------

(* QuarantinePodRequestReconciler.Reconcile and PodReconciler.Reconcile,   *)
(* side by side, only store objects of their types, and the worker is only *)
(* at a stage with what that stage needs.                                  *)
THEOREM QuarantineTypeCorrect == Spec => []TypeOK
<1>1. TypeInv => TypeOK
  BY DEF TypeInv
<1> QED
  BY <1>1, TypeInvAlways, PTL

(* movePodToTargetNetwork writes the annotation of a pod last: when it     *)
(* names another network than the pod came from, the port is there, and in *)
(* the old network only if the pod controller attached it again.           *)
THEOREM MovedWithPortHolds ==
  ASSUME OneWay
  PROVE  Spec => []MovedWithPort
<1>1. MoveInv => MovedWithPort
  BY DEF MoveInv
<1> QED
  BY <1>1, MoveInvAlways, PTL

(* updateNetworkStatuses takes the address of a pod out of the status of   *)
(* the source before it enters that of the target: it is never in both,    *)
(* whatever fails between the two and whoever writes them meanwhile.       *)
THEOREM RecordedOnceHolds ==
  ASSUME OneWay
  PROVE  Spec => []RecordedOnce
<1>1. MoveInv => RecordedOnce
  BY DEF MoveInv
<1> QED
  BY <1>1, MoveInvAlways, PTL
=============================================================================
