----------------------------- MODULE IPAMProofs -----------------------------
(***************************************************************************)
(* What the address search returns, for every size of a byte, every range  *)
(* and every set of assigned addresses.                                    *)
(***************************************************************************)
EXTENDS IPAM, WellFoundedInduction, TLAPS

(* A nonempty set of numbers has a least element.                          *)
LEMMA LeastProperty ==
  ASSUME NEW S \in SUBSET Nat, S # {}
  PROVE  Least(S) \in S /\ \A j \in S : Least(S) =< j
<1>1. \E k \in S : \A j \in S : ~ (<<j, k>> \in OpToRel(<, Nat))
  BY NatLessThanWellFounded, WFMin, Zenon
<1>2. PICK k \in S : \A j \in S : ~ (<<j, k>> \in OpToRel(<, Nat))
  BY <1>1, Zenon
<1>3. ASSUME NEW j \in S PROVE k =< j
  <2>1. ~ (<<j, k>> \in OpToRel(<, Nat))
    BY <1>2, Zenon
  <2>2. ~ (j < k)
    BY <2>1 DEF OpToRel
  <2> QED BY <2>2
<1> QED BY <1>3 DEF Least

(* Within one round a byte wraps around at most once.                      *)
LEMMA StepValue ==
  ASSUME NEW start \in Octets, NEW k \in 0 .. Octet
  PROVE  /\ Step(start, k) = IF start + k < Octet THEN start + k
                                                  ELSE start + k - Octet
         /\ Step(start, k) \in Octets
BY IPAMAssumption DEF Step, Octets

(* The walk of the loop in GetNextAvailableIP: unless it never ends, it    *)
(* passes assigned addresses inside the range only, and stops at the first *)
(* that is not one.                                                        *)
LEMMA WalkResult ==
  ASSUME NEW start \in Octets, NEW inside \in SUBSET Octets, NEW assigned
  PROVE  \/ Walk(start, inside, assigned) = Diverges
         \/ \E k \in Octets :
              /\ \A j \in 0 .. (k - 1) : Step(start, j) \in inside \cap assigned
              /\ Step(start, k) \notin inside \cap assigned
              /\ Walk(start, inside, assigned)
                   = IF Step(start, k) \in inside THEN Step(start, k) ELSE Exhausted
<1> DEFINE stops == {k \in Octets : Step(start, k) \notin inside \cap assigned}
           least == Least(stops)
<1>1. CASE stops = {}
  BY <1>1 DEF Walk
<1>2. CASE stops # {}
  <2>1. stops \in SUBSET Nat
    BY DEF Octets
  <2>2. least \in stops /\ \A j \in stops : least =< j
    BY <1>2, <2>1, LeastProperty
  <2>3. least \in Octets /\ Step(start, least) \notin inside \cap assigned
    BY <2>2
  <2>4. ASSUME NEW j \in 0 .. (least - 1)
        PROVE  Step(start, j) \in inside \cap assigned
    <3>1. j \in Octets /\ ~ (least =< j)
      BY <2>3, IPAMAssumption DEF Octets
    <3>2. j \notin stops
      BY <2>2, <3>1
    <3> QED BY <3>1, <3>2
  <2>5. Walk(start, inside, assigned)
          = IF Step(start, least) \in inside THEN Step(start, least) ELSE Exhausted
    BY <1>2 DEF Walk
  <2> QED BY <2>3, <2>4, <2>5
<1> QED BY <1>1, <1>2

(* The answer of GetNextAvailableIP is an address nobody has, an error, or *)
(* none at all.                                                            *)
LEMMA AnswerIsFree ==
  ASSUME NEW last \in Octets \cup {NoAddress}, NEW assigned
  PROVE  /\ GetNextAvailableIP(last, assigned) \in Answers
         /\ GetNextAvailableIP(last, assigned) \in Octets
              => GetNextAvailableIP(last, assigned) \notin assigned
<1> DEFINE Good(ip) == ip \in Answers /\ (ip \in Octets => ip \notin assigned)
<1>1. ASSUME NEW start \in Octets, NEW inside \in SUBSET Octets
      PROVE  Good(Walk(start, inside, assigned))
  <2>1. CASE Walk(start, inside, assigned) = Diverges
    BY <2>1, IPAMAssumption DEF Answers
  <2>2. ASSUME NEW k \in Octets,
               Step(start, k) \notin inside \cap assigned,
               Walk(start, inside, assigned)
                 = IF Step(start, k) \in inside THEN Step(start, k) ELSE Exhausted
        PROVE  Good(Walk(start, inside, assigned))
    BY <2>2, IPAMAssumption DEF Answers
  <2> QED BY <2>1, <2>2, WalkResult
<1>2. Base \in Octets /\ 1 \in 0 .. Octet /\ Octets \in SUBSET Octets
  BY IPAMAssumption DEF Octets
<1>3. Subnet \in SUBSET Octets
  BY IPAMAssumption DEF Subnet, Octets
<1>4. CASE last = NoAddress
  <2>1. Step(Base, 1) \in Octets
    BY <1>2, StepValue
  <2>2. Good(Walk(Step(Base, 1), Octets, assigned))
    BY <1>1, <1>2, <2>1
  <2> QED BY <1>4, <2>2 DEF GetNextAvailableIP
<1>5. CASE last # NoAddress
  <2>1. Step(last, 1) \in Octets
    BY <1>2, <1>5, StepValue
  <2>2. Good(Walk(Step(last, 1), Subnet, assigned))
    BY <1>1, <1>3, <2>1
  <2> QED BY <1>5, <2>2 DEF GetNextAvailableIP
<1> QED BY <1>4, <1>5
=============================================================================
