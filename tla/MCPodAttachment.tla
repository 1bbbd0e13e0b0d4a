-------------------------- MODULE MCPodAttachment --------------------------
EXTENDS PodAttachment, TLC

CONSTANTS p1, p2, n1, n2

FreeIp(n) == [net |-> n, ip |-> None]

(* Every pod asks for the one network.                                     *)
OneNetwork == [p \in Pods |-> <<FreeIp(n1)>>]

(* Every pod asks for both networks, in the same order.                    *)
TwoNetworks == [p \in Pods |-> <<FreeIp(n1), FreeIp(n2)>>]

(* Pods ask for the same, attachments are alike: sound for safety.         *)
Symmetry == Permutations(Pods) \cup Permutations(Nads)
=============================================================================
