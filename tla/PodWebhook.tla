----------------------------- MODULE PodWebhook -----------------------------
(***************************************************************************)
(* PodAnnotator.Handle, the mutating webhook that admits a pod: it picks a *)
(* node and free network attachment definitions from the cache, computes   *)
(* addresses from its copies of the networks, and then writes back, one    *)
(* network after the other, that the attachment is taken and what the pod  *)
(* was given. The handlers of several pods run at the same time, and every *)
(* failed write is logged and otherwise ignored.                           *)
(***************************************************************************)
EXTENDS Cluster, IPAM

ASSUME WebhookAssumption ==
  /\ Ips = Octets
  /\ NoAddress = None
  /\ {Exhausted, Diverges} \cap (Pods \cup {None}) = {}

VARIABLE hook  \* the handler of each pod's admission

Stages == {"idle", "claim", "record", "reply", "done"}

(* A handler: its stage, what it chose, and the network it is at.          *)
Handler == [at   : Stages,
            node : Nodes \cup {None},
            nads : Seq(Nads),
            ips  : Seq(Answers \cup {None}),
            next : Nat]

NoHandler(stage) ==
  [at |-> stage, node |-> None, nads |-> <<>>, ips |-> <<>>, next |-> 0]

HookTypeOK == hook \in [Pods -> Handler]

HookInit == hook = [p \in Pods |-> NoHandler("idle")]

FreeNetAttachDefs(m) == {v \in Nads : nad[v].cache[m] = None}

(* GetL2NetworksMap stops at the first network that is not in the cache,   *)
(* and its error is ignored: the networks before that one are known.       *)
Known(p, i) == \A j \in 1 .. i : net[Requested[p][j].net].cache # None

IsDynamic(p, i) ==
  Requested[p][i].ip = None /\ Requested[p][i].net \in Layer3

(* The address of p in its i-th network: the one it brings, the next free  *)
(* one of a network that has addresses, or none.                           *)
AddressFor(p, i) ==
  LET status == net[Requested[p][i].net].cache
  IN  IF IsDynamic(p, i) /\ Known(p, i)
      THEN GetNextAvailableIP(status.last,
                              {a \in Ips : status.assigned[a] # None})
      ELSE Requested[p][i].ip

(* Admission of a pod on a node with enough free attachments, in whatever  *)
(* order the cache lists them.                                             *)
Admit(p, m, nads) ==
  /\ hook[p].at = "idle"
  /\ \A i \in Slots(p) : nads[i] \in FreeNetAttachDefs(m)
  /\ \A i, j \in Slots(p) : nads[i] = nads[j] => i = j
  /\ hook' = [hook EXCEPT ![p] =
                [at |-> "claim", node |-> m, nads |-> nads,
                 ips |-> [i \in Slots(p) |-> AddressFor(p, i)], next |-> 1]]
  /\ nad' = [v \in Nads |->
               IF \E i \in Slots(p) : nads[i] = v THEN Copied(nad[v], p)
                                                  ELSE nad[v]]
  /\ net' = [n \in Networks |->
               IF \E i \in Slots(p) : Requested[p][i].net = n /\ Known(p, i)
               THEN Copied(net[n], p) ELSE net[n]]
  /\ UNCHANGED <<pod, queue, faults>>

(* Too few free attachments: the pod is created with an error annotation.  *)
AdmitErrored(p, m) ==
  /\ hook[p].at = "idle"
  /\ Cardinality(FreeNetAttachDefs(m)) < Len(Requested[p])
  /\ hook' = [hook EXCEPT ![p] = [NoHandler("reply") EXCEPT !.node = m]]
  /\ UNCHANGED <<pod, nad, net, queue, faults>>

(* A slip: after a conflict the label is written again, unseen.            *)
ClaimDespiteConflict(p) ==
  LET h == hook[p]
      v == h.nads[h.next]
  IN  /\ h.at = "claim"
      /\ h.ips[h.next] # Diverges
      /\ nad' = [nad EXCEPT ![v] = Write(@, [@.obj EXCEPT ![h.node] = p])]
      /\ hook' = [hook EXCEPT ![p].at = "record"]
      /\ UNCHANGED <<pod, net, queue, faults>>

(* The label of the chosen attachment is set to "true". A handler whose    *)
(* search for an address never returns does not come here.                 *)
ClaimNetAttachDef(p) ==
  LET h == hook[p]
      v == h.nads[h.next]
      claimed == [nad[v].obj EXCEPT ![h.node] = p]
  IN  /\ h.at = "claim"
      /\ h.ips[h.next] # Diverges
      /\ \E o \in UpdateOutcomes(nad[v], p, claimed) :
           /\ nad' = [nad EXCEPT ![v] = Forgotten(o.after, p)]
           /\ faults' = faults + o.cost
      /\ hook' = [hook EXCEPT ![p].at = "record"]
      /\ UNCHANGED <<pod, net, queue>>

(* What is written for an address: the empty string has become "/24".      *)
Recordable(ip) == IF ip \in Ips THEN ip ELSE None

(* The status that counts the pod and records its address. After an error  *)
(* the empty string is LastAssignedIP, and "<nil>" the recorded address.   *)
StatusWith(status, p, i, ip) ==
  LET a == Recordable(ip)
      hasAddress == Requested[p][i].ip # None \/ IsDynamic(p, i)
  IN  [last     |-> IF IsDynamic(p, i) THEN a ELSE status.last,
       assigned |-> IF hasAddress THEN [status.assigned EXCEPT ![a] = p]
                                  ELSE status.assigned,
       count    |-> status.count + 1]

(* A slip: after a conflict the same address is recorded in the new status. *)
RecordDespiteConflict(p) ==
  LET h == hook[p]
      i == h.next
      n == Requested[p][i].net
      last == i = Len(Requested[p])
  IN  /\ h.at = "record"
      /\ net' = IF net[n].obj = None THEN net
                ELSE [net EXCEPT ![n] = Write(@, StatusWith(@.obj, p, i, h.ips[i]))]
      /\ hook' = [hook EXCEPT ![p].at = IF last THEN "reply" ELSE "claim",
                              ![p].next = IF last THEN i ELSE i + 1]
      /\ UNCHANGED <<pod, nad, queue, faults>>

(* The status of the network is updated; without a copy of the network the *)
(* request fails.                                                          *)
RecordInNetwork(p) ==
  LET h == hook[p]
      i == h.next
      n == Requested[p][i].net
      written == IF Current(net[n], p) THEN StatusWith(net[n].obj, p, i, h.ips[i])
                                       ELSE net[n].obj
      last == i = Len(Requested[p])
  IN  /\ h.at = "record"
      /\ \E o \in UpdateOutcomes(net[n], p, written) :
           /\ net' = [net EXCEPT ![n] = Forgotten(o.after, p)]
           /\ faults' = faults + o.cost
      /\ hook' = [hook EXCEPT ![p].at = IF last THEN "reply" ELSE "claim",
                              ![p].next = IF last THEN i ELSE i + 1]
      /\ UNCHANGED <<pod, nad, queue>>

(* The API server creates the pod the webhook returned.                    *)
PersistPod(p) ==
  LET h == hook[p]
      created == [node |-> h.node, nads |-> h.nads,
                  ips |-> [i \in DOMAIN h.ips |-> Recordable(h.ips[i])],
                  fin |-> FALSE, del |-> FALSE]
  IN  /\ h.at = "reply"
      /\ pod' = [pod EXCEPT ![p] = Write(@, created)]
      /\ hook' = [hook EXCEPT ![p] = NoHandler("done")]
      /\ UNCHANGED <<nad, net, queue, faults>>

(* The API server does not create the pod: the webhook's time is up, which *)
(* ends the handler wherever it is, or a later admission plugin refuses.   *)
RefusePod(p) ==
  /\ hook[p].at \in {"claim", "record", "reply"}
  /\ Fault("refuse")
  /\ hook' = [hook EXCEPT ![p] = NoHandler("done")]
  /\ nad' = [v \in Nads |-> Forgotten(nad[v], p)]
  /\ net' = [n \in Networks |-> Forgotten(net[n], p)]
  /\ UNCHANGED <<pod, queue>>

Webhook ==
  \E p \in Pods :
    \/ \E m \in Nodes :
         \/ \E nads \in [Slots(p) -> Nads] : Admit(p, m, nads)
         \/ AdmitErrored(p, m)
    \/ ClaimNetAttachDef(p)
    \/ RecordInNetwork(p)
    \/ PersistPod(p)
    \/ RefusePod(p)
=============================================================================
