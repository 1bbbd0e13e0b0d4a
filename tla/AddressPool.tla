---------------------------- MODULE AddressPool ----------------------------
(***************************************************************************)
(* The addresses of one L2Network, as a sequence of admissions that never  *)
(* race leaves them in its status: LastAssignedIP and the keys of          *)
(* AssignedIPs. The composition with concurrent admissions, conflicts and  *)
(* stale caches is PodAttachment.                                          *)
(***************************************************************************)
EXTENDS IPAM

VARIABLES last,      \* Status.LastAssignedIP
          assigned,  \* the keys of Status.AssignedIPs that are addresses
          answer     \* what the last admission got: history, for properties

vars == <<last, assigned, answer>>

Init ==
  /\ last = NoAddress
  /\ assigned = {}
  /\ answer = NoAddress

(* A slip: the error itself becomes LastAssignedIP.                        *)
AllocateKeepingError ==
  LET ip == GetNextAvailableIP(last, assigned)
  IN  /\ answer' = ip
      /\ last' = ip
      /\ assigned' = assigned \cup ({ip} \cap Octets)

(* A pod that asks for no address. On an error the webhook goes on with    *)
(* the empty string, which becomes LastAssignedIP; when the function never *)
(* returns, the admission writes nothing.                                  *)
AllocateDynamic ==
  LET ip == GetNextAvailableIP(last, assigned)
  IN  /\ answer' = ip
      /\ last' = CASE ip \in Octets  -> ip
                   [] ip = Exhausted -> NoAddress
                   [] ip = Diverges  -> last
      /\ assigned' = assigned \cup ({ip} \cap Octets)

(* A slip: an address the pod brings becomes LastAssignedIP.               *)
AssignStaticAsLast(ip) ==
  /\ assigned' = assigned \cup {ip}
  /\ answer' = NoAddress
  /\ last' = ip

(* A pod that brings an address of its own: recorded without a look at who *)
(* has it, LastAssignedIP stays.                                           *)
AssignStatic(ip) ==
  /\ assigned' = assigned \cup {ip}
  /\ answer' = NoAddress
  /\ UNCHANGED last

Next == AllocateDynamic \/ \E ip \in Octets : AssignStatic(ip)

Spec == Init /\ [][Next]_vars

-----------------------------------------------------------------------------

(* last and assigned hold addresses of the block, answer what              *)
(* GetNextAvailableIP can return.                                          *)
TypeOK ==
  /\ last \in Octets \cup {NoAddress}
  /\ assigned \subseteq Octets
  /\ answer \in Answers \cup {NoAddress}

(* An address the webhook chooses is one no pod was recorded with: the     *)
(* loop of GetNextAvailableIP skips every key of AssignedIPs, also after   *)
(* the byte wrapped around and after an error reset LastAssignedIP.        *)
NeverReassigned ==
  [][answer' \in Octets => answer' \notin assigned]_vars

(* GetNextAvailableIP fails only when every address of the range but the   *)
(* network address is recorded, although it looks upwards from the last    *)
(* address alone and never back.                                           *)
RefusesOnlyWhenFull ==
  answer = Exhausted => Subnet \ {Base} \subseteq assigned

(* Every address of the range up to the last one chosen is recorded: why   *)
(* looking upwards only is enough. After the walk has left the range,      *)
(* nothing in the range is free any more.                                  *)
WalkLeavesNoGap ==
  /\ last \in Subnet => (Base + 1) .. last \subseteq assigned
  /\ last \in Octets \ Subnet => Subnet \ {Base} \subseteq assigned
=============================================================================
