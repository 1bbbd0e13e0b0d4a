---------------------------- MODULE MCQuarantine ----------------------------
EXTENDS Quarantine

CONSTANTS p1, p2, n1, n2, r1, a1

(* The pods of n1 are moved to n2.                                         *)
AllInOne == [p \in Pods |-> n1]
OneAddress == [p \in Pods |-> IF p = p1 THEN a1 ELSE None]
AllSelected == [r \in Requests |-> Pods]
FromOne == [r \in Requests |-> {n1}]
ToTwo == [r \in Requests |-> n2]

ASSUME MovesAreOneWay == OneWay
=============================================================================
