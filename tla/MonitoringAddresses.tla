------------------------ MODULE MonitoringAddresses ------------------------
(***************************************************************************)
(* The addresses of the monitoring network: utils.AllocateIPv4s and the    *)
(* collector configurations that lpminterface builds from them. An address *)
(* is a number below AddressSpace, 2^32 in the code; a CIDR is the address *)
(* that is written in it and the size of its subnet.                       *)
(***************************************************************************)
EXTENDS Naturals, Sequences

CONSTANT AddressSpace

ASSUME SpaceAssumption == AddressSpace \in Nat \ {0}

CIDRs == [ip : 0 .. AddressSpace - 1, size : 1 .. AddressSpace]

(* The collectors get addresses from the second one on.                    *)
DefaultIPStart == 2

(* A slip: the broadcast address counts as usable.                         *)
CanAllocateToTheEnd(cidr, start, count) ==
  /\ count > 0 /\ start >= 1 /\ cidr.size >= 4
  /\ start + count - 1 =< cidr.size - 1

(* Host 0 of a subnet is its network address, the last its broadcast.      *)
CanAllocate(cidr, start, count) ==
  /\ count > 0 /\ start >= 1 /\ cidr.size >= 4
  /\ start + count - 1 =< cidr.size - 2

(* Counted from the address as it is written, in 32 bits.                  *)
AllocateIPv4s(cidr, start, count) ==
  [i \in 1 .. count |-> (cidr.ip + start + (i - 1)) % AddressSpace]

(* The addresses of a subnet that hosts may have; the CIDR is written with *)
(* its network address.                                                    *)
IsNetworkAddress(cidr) ==
  cidr.ip % cidr.size = 0 /\ cidr.ip + cidr.size =< AddressSpace
HostAddresses(cidr) == cidr.ip + 1 .. cidr.ip + cidr.size - 2

-----------------------------------------------------------------------------

(* A node of a list has the address of its last place in it.               *)
NodeIP(nodes, cidr, n) ==
  LET place == CHOOSE i \in DOMAIN nodes :
                 nodes[i] = n /\ \A j \in DOMAIN nodes : nodes[j] = n => j =< i
  IN  AllocateIPv4s(cidr, DefaultIPStart, Len(nodes))[place]

Members(seq) == {seq[i] : i \in DOMAIN seq}

(* A slip: the peers of a node get their addresses in the order of the     *)
(* list without the node.                                                  *)
CollectorConfigByRank(nodes, cidr, n) ==
  LET others == SelectSeq(nodes, LAMBDA m : m # n)
  IN  [ip |-> NodeIP(nodes, cidr, n),
       peers |-> [m \in Members(nodes) \ {n} |-> NodeIP(others, cidr, m)]]

(* What the collector of a node is told: its own address, and those of all *)
(* the others.                                                             *)
CollectorConfig(nodes, cidr, n) ==
  [ip |-> NodeIP(nodes, cidr, n),
   peers |-> [m \in Members(nodes) \ {n} |-> NodeIP(nodes, cidr, m)]]

-----------------------------------------------------------------------------

(* The collectors of a list of nodes have different addresses, those that  *)
(* the others look for them at, and all within the subnet.                 *)
Agree(nodes, cidr) ==
  LET told == [n \in Members(nodes) |-> CollectorConfig(nodes, cidr, n)]
  IN  \A n \in Members(nodes) :
        /\ IsNetworkAddress(cidr) => told[n].ip \in HostAddresses(cidr)
        /\ \A m \in Members(nodes) \ {n} :
             told[m].ip # told[n].ip /\ told[m].peers[n] = told[n].ip
=============================================================================
