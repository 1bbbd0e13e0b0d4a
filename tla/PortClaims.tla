----------------------------- MODULE PortClaims -----------------------------
(***************************************************************************)
(* What the used-<node> labels promise: the port behind an attachment on a *)
(* node has one owner at a time, taken from the free ports only. Whoever   *)
(* frees a port is not part of the promise.                                *)
(***************************************************************************)
CONSTANTS Owners, Places, Nobody

VARIABLE owner  \* who has each port

Init == owner = [s \in Places |-> Nobody]

Acquire(s, p) ==
  /\ owner[s] = Nobody
  /\ owner' = [owner EXCEPT ![s] = p]

Free(s) ==
  /\ owner[s] # Nobody
  /\ owner' = [owner EXCEPT ![s] = Nobody]

Next == \E s \in Places : Free(s) \/ \E p \in Owners : Acquire(s, p)

Spec == Init /\ [][Next]_owner
=============================================================================
