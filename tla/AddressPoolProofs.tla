-------------------------- MODULE AddressPoolProofs --------------------------
(***************************************************************************)
(* What AddressPool guarantees for every range and every size of a byte.   *)
(* Why the search, which only looks upwards from the last address, refuses *)
(* nothing that is free: WalkLeavesNoGap is the inductive invariant.       *)
(***************************************************************************)
EXTENDS AddressPool, IPAMProofs

(* One address after another, from the one after start.                    *)
LEMMA StepAfter ==
  ASSUME NEW start \in Octets, NEW j \in Octets
  PROVE  Step(Step(start, 1), j) =
           IF start + 1 + j < Octet THEN start + 1 + j ELSE start + 1 + j - Octet
<1>1. 1 \in 0 .. Octet /\ j \in 0 .. Octet
  BY IPAMAssumption DEF Octets
<1>2. /\ Step(start, 1) = IF start + 1 < Octet THEN start + 1 ELSE start + 1 - Octet
      /\ Step(start, 1) \in Octets
  BY <1>1, StepValue
<1>3. Step(Step(start, 1), j) = IF Step(start, 1) + j < Octet
                                THEN Step(start, 1) + j
                                ELSE Step(start, 1) + j - Octet
  BY <1>1, <1>2, StepValue
<1> QED BY <1>2, <1>3, IPAMAssumption DEF Octets

(* The variables stay in their ranges, whatever order the addresses come in. *)
THEOREM TypeCorrect == Spec => []TypeOK
<1>1. Init => TypeOK
  BY DEF Init, TypeOK
<1>2. TypeOK /\ [Next]_vars => TypeOK'
  <2> SUFFICES ASSUME TypeOK, [Next]_vars PROVE TypeOK'
    OBVIOUS
  <2>1. CASE AllocateDynamic
    <3>1. GetNextAvailableIP(last, assigned) \in Answers
      BY AnswerIsFree DEF TypeOK
    <3> QED BY <2>1, <3>1, IPAMAssumption DEF AllocateDynamic, TypeOK, Answers
  <2>2. ASSUME NEW ip \in Octets, AssignStatic(ip) PROVE TypeOK'
    BY <2>2 DEF AssignStatic, TypeOK
  <2>3. CASE UNCHANGED vars
    BY <2>3 DEF vars, TypeOK
  <2> QED BY <2>1, <2>2, <2>3 DEF Next
<1> QED BY <1>1, <1>2, PTL DEF Spec

(* No admission gets an address that is recorded for a pod.                *)
THEOREM NeverReassignedHolds == Spec => NeverReassigned
<1>1. TypeOK /\ [Next]_vars => [answer' \in Octets => answer' \notin assigned]_vars
  <2> SUFFICES ASSUME TypeOK, Next
               PROVE  answer' \in Octets => answer' \notin assigned
    OBVIOUS
  <2>1. CASE AllocateDynamic
    BY <2>1, AnswerIsFree DEF AllocateDynamic, TypeOK
  <2>2. ASSUME NEW ip \in Octets, AssignStatic(ip) PROVE answer' \notin Octets
    BY <2>2, IPAMAssumption DEF AssignStatic
  <2> QED BY <2>1, <2>2 DEF Next
<1> QED BY <1>1, TypeCorrect, PTL DEF Spec, NeverReassigned

-----------------------------------------------------------------------------

(* The first walk of all, from the network address.                        *)
LEMMA FirstWalkLeavesNoGap ==
  ASSUME TypeOK, AllocateDynamic, last = NoAddress
  PROVE  WalkLeavesNoGap' /\ RefusesOnlyWhenFull'
<1> DEFINE start == Step(Base, 1)
           ip == GetNextAvailableIP(last, assigned)
<1>1. /\ Base \in Octets /\ 1 \in 0 .. Octet /\ Octets \in SUBSET Octets
      /\ Subnet \subseteq Octets
  BY IPAMAssumption DEF Octets, Subnet
<1>2. start \in Octets
  BY <1>1, StepValue
<1>3. ip = Walk(start, Octets, assigned)
  BY DEF GetNextAvailableIP
<1>4. CASE ip = Diverges
  BY <1>4, IPAMAssumption
     DEF AllocateDynamic, WalkLeavesNoGap, RefusesOnlyWhenFull, Subnet, Octets
<1>5. ASSUME NEW k \in Octets,
             \A j \in 0 .. (k - 1) : Step(start, j) \in Octets \cap assigned,
             ip = IF Step(start, k) \in Octets THEN Step(start, k) ELSE Exhausted
      PROVE  WalkLeavesNoGap' /\ RefusesOnlyWhenFull'
  <2>1. \A j \in Octets :
          Step(start, j) = IF Base + 1 + j < Octet THEN Base + 1 + j
                                                   ELSE Base + 1 + j - Octet
    BY <1>1, StepAfter
  <2>2. ip = Step(start, k) /\ ip \in Octets
    <3>1. k \in 0 .. Octet
      BY <1>5, IPAMAssumption DEF Octets
    <3> QED BY <1>2, <1>5, <3>1, StepValue
  <2>3. last' = ip /\ answer' = ip /\ assigned' = assigned \cup {ip}
    BY <2>2, IPAMAssumption DEF AllocateDynamic
  <2>4. ASSUME NEW a \in Octets, Base < a, a =< ip \/ ip =< Base
        PROVE  a \in assigned'
    <3>1. a - Base - 1 \in Octets /\ Step(start, a - Base - 1) = a
      BY <1>1, <2>1, <2>4, IPAMAssumption DEF Octets
    <3>2. a - Base - 1 =< k
      BY <1>1, <1>5, <2>1, <2>2, <2>4, IPAMAssumption DEF Octets
    <3>3. CASE a - Base - 1 = k
      BY <2>2, <2>3, <3>1, <3>3
    <3>4. CASE a - Base - 1 < k
      BY <1>5, <2>3, <3>1, <3>4 DEF Octets
    <3> QED BY <3>2, <3>3, <3>4, <1>1 DEF Octets
  <2>5. WalkLeavesNoGap'
    <3>1. ASSUME last' \in Subnet PROVE (Base + 1) .. last' \subseteq assigned'
      <4>1. ASSUME NEW a \in (Base + 1) .. last' PROVE a \in assigned'
        <5>1. a \in Octets /\ Base < a /\ a =< ip
          BY <1>1, <2>2, <2>3, <4>1, IPAMAssumption DEF Octets
        <5> QED BY <5>1, <2>4
      <4> QED BY <4>1
    <3>2. ASSUME last' \in Octets \ Subnet PROVE Subnet \ {Base} \subseteq assigned'
      <4>1. ASSUME NEW a \in Subnet \ {Base} PROVE a \in assigned'
        <5>1. a \in Octets /\ Base < a /\ (a =< ip \/ ip =< Base)
          BY <1>1, <2>2, <2>3, <3>2, <4>1, IPAMAssumption DEF Octets, Subnet
        <5> QED BY <5>1, <2>4
      <4> QED BY <4>1
    <3> QED BY <3>1, <3>2 DEF WalkLeavesNoGap
  <2> QED BY <2>2, <2>3, <2>5, IPAMAssumption DEF RefusesOnlyWhenFull
<1> QED BY <1>1, <1>2, <1>3, <1>4, <1>5, WalkResult

(* A walk from the last address.                                           *)
LEMMA NextWalkLeavesNoGap ==
  ASSUME TypeOK, WalkLeavesNoGap, AllocateDynamic, last # NoAddress
  PROVE  WalkLeavesNoGap' /\ RefusesOnlyWhenFull'
<1> DEFINE start == Step(last, 1)
           ip == GetNextAvailableIP(last, assigned)
<1>1. last \in Octets /\ 1 \in 0 .. Octet /\ Subnet \in SUBSET Octets
  BY IPAMAssumption DEF Octets, Subnet, TypeOK
<1>2. start \in Octets
  BY <1>1, StepValue
<1>3. ip = Walk(start, Subnet, assigned)
  BY DEF GetNextAvailableIP
<1>4. CASE ip = Diverges
  BY <1>1, <1>4, IPAMAssumption
     DEF AllocateDynamic, WalkLeavesNoGap, RefusesOnlyWhenFull
<1>5. ASSUME NEW k \in Octets,
             \A j \in 0 .. (k - 1) : Step(start, j) \in Subnet \cap assigned,
             ip = IF Step(start, k) \in Subnet THEN Step(start, k) ELSE Exhausted
      PROVE  WalkLeavesNoGap' /\ RefusesOnlyWhenFull'
  <2>1. \A j \in Octets :
          Step(start, j) = IF last + 1 + j < Octet THEN last + 1 + j
                                                   ELSE last + 1 + j - Octet
    BY <1>1, StepAfter
  <2>2. assigned \subseteq assigned' /\ answer' = ip
    BY DEF AllocateDynamic
  (* Everything from the last address up to where the walk stopped.        *)
  <2>3. ASSUME NEW a \in Subnet, last < a, a - last - 1 < k
        PROVE  a \in assigned
    <3>1. a - last - 1 \in Octets /\ Step(start, a - last - 1) = a
      BY <1>1, <2>1, <2>3, IPAMAssumption DEF Octets
    <3> QED BY <1>1, <1>5, <2>3, <3>1 DEF Octets
  <2>4. CASE ip = Exhausted
    <3>1. last' = NoAddress
      BY <2>4, IPAMAssumption DEF AllocateDynamic
    <3>2. Step(start, k) \notin Subnet
      BY <1>1, <1>5, <2>4, IPAMAssumption
    <3>3. ASSUME NEW a \in Subnet \ {Base} PROVE a \in assigned
      <4>1. CASE last \in Subnet /\ a =< last
        BY <4>1, IPAMAssumption DEF WalkLeavesNoGap, Subnet, Octets
      <4>2. CASE last \in Subnet /\ last < a
        <5>1. a - last - 1 < k
          BY <1>1, <2>1, <3>2, <4>2, IPAMAssumption DEF Subnet, Octets
        <5> QED BY <5>1, <4>2, <2>3
      <4>3. CASE last \notin Subnet
        BY <1>1, <4>3 DEF WalkLeavesNoGap
      <4> QED BY <1>1, <4>1, <4>2, <4>3 DEF Octets
    <3> QED BY <2>2, <3>1, <3>3, IPAMAssumption
            DEF WalkLeavesNoGap, RefusesOnlyWhenFull, Subnet, Octets
  <2>5. CASE ip \in Subnet
    <3>1. ip = Step(start, k) /\ ip \in Octets /\ ip # Exhausted
      BY <1>1, <1>5, <2>5, IPAMAssumption
    <3>2. last' = ip /\ assigned' = assigned \cup {ip}
      BY <3>1, IPAMAssumption DEF AllocateDynamic
    <3>3. ASSUME NEW a \in (Base + 1) .. ip PROVE a \in assigned'
      <4>1. a \in Subnet \ {Base} /\ a =< ip
        BY <2>5, <3>3, IPAMAssumption DEF Subnet, Octets
      <4>2. CASE last \notin Subnet
        BY <1>1, <3>2, <4>1, <4>2 DEF WalkLeavesNoGap
      <4>3. CASE last \in Subnet /\ a =< last
        BY <3>2, <3>3, <4>3, IPAMAssumption DEF WalkLeavesNoGap, Subnet, Octets
      <4>4. CASE last \in Subnet /\ last < a /\ a = ip
        BY <3>2, <4>4
      <4>5. CASE last \in Subnet /\ last < a /\ a < ip
        <5>1. a - last - 1 < k
          BY <1>1, <2>1, <3>1, <4>5, IPAMAssumption DEF Subnet, Octets
        <5> QED BY <5>1, <4>1, <4>5, <2>2, <2>3
      <4> QED BY <1>1, <3>1, <4>1, <4>2, <4>3, <4>4, <4>5 DEF Octets
    <3> QED BY <2>2, <2>5, <3>1, <3>2, <3>3 DEF WalkLeavesNoGap, RefusesOnlyWhenFull
  <2> QED BY <1>5, <2>4, <2>5
<1> QED BY <1>1, <1>2, <1>3, <1>4, <1>5, WalkResult

(* An error means that the range is used up, although the search looks     *)
(* upwards only: below the last address everything is recorded.            *)
THEOREM RefusesOnlyWhenFullHolds == Spec => [](WalkLeavesNoGap /\ RefusesOnlyWhenFull)
<1>1. Init => WalkLeavesNoGap /\ RefusesOnlyWhenFull
  BY IPAMAssumption DEF Init, WalkLeavesNoGap, RefusesOnlyWhenFull, Subnet, Octets
<1>2. TypeOK /\ WalkLeavesNoGap /\ RefusesOnlyWhenFull /\ [Next]_vars
        => (WalkLeavesNoGap /\ RefusesOnlyWhenFull)'
  <2> SUFFICES ASSUME TypeOK, WalkLeavesNoGap, RefusesOnlyWhenFull, [Next]_vars
               PROVE  (WalkLeavesNoGap /\ RefusesOnlyWhenFull)'
    OBVIOUS
  <2>1. CASE AllocateDynamic
    BY <2>1, FirstWalkLeavesNoGap, NextWalkLeavesNoGap
  <2>2. ASSUME NEW ip \in Octets, AssignStatic(ip)
        PROVE  (WalkLeavesNoGap /\ RefusesOnlyWhenFull)'
    BY <2>2, IPAMAssumption DEF AssignStatic, WalkLeavesNoGap, RefusesOnlyWhenFull
  <2>3. CASE UNCHANGED vars
    BY <2>3 DEF vars, WalkLeavesNoGap, RefusesOnlyWhenFull
  <2> QED BY <2>1, <2>2, <2>3 DEF Next
<1> QED BY <1>1, <1>2, TypeCorrect, PTL DEF Spec

(* GetNextAvailableIP leaves no hole below the last address it chose: why  *)
(* it may start from there.                                                *)
THEOREM WalkLeavesNoGapHolds == Spec => []WalkLeavesNoGap
  BY RefusesOnlyWhenFullHolds, PTL
=============================================================================
