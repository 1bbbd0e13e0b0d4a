---------------------------- MODULE MCOverlay ----------------------------
EXTENDS Overlay

CONSTANTS o1, m1, m2

(* A /29 at its network address.                                           *)
Subnet == [ip |-> 0, size |-> 8]

(* A monitored overlay with an interface for pods, and one of two nodes    *)
(* that is not monitored.                                                  *)
Monitored == [nodes |-> <<m1>>, interfaces |-> 1, monitored |-> TRUE,
              cidr |-> Subnet, exported |-> TRUE]
Plain == [nodes |-> <<m1, m2>>, interfaces |-> 0, monitored |-> FALSE,
          cidr |-> Subnet, exported |-> FALSE]
TwoSpecs == {Monitored, Plain}
=============================================================================
