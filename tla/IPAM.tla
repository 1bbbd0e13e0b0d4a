-------------------------------- MODULE IPAM --------------------------------
(***************************************************************************)
(* The IPv4 arithmetic of the pod webhook: GetNextAvailableIP.             *)
(*                                                                         *)
(* The code only ever increments the last byte of an address, so an        *)
(* address is its last byte: a number below Octet, 256 in the program.     *)
(* Subnet is the part of the pod address range that lies in that block of  *)
(* Octet addresses, from the network address Base upwards: Octet of them   *)
(* for a prefix of 24 bits or fewer, less for a longer prefix.             *)
(***************************************************************************)
EXTENDS Integers

CONSTANTS Octet,      \* the number of values of a byte, 256
          Base,       \* the last byte of the range's network address
          Size,       \* how many addresses of the block are in the range
          NoAddress,  \* the empty string: no address was assigned last
          Exhausted,  \* GetNextAvailableIP returned an error
          Diverges    \* GetNextAvailableIP never returns

Octets == 0 .. (Octet - 1)
Subnet == Base .. (Base + Size - 1)

ASSUME IPAMAssumption ==
  /\ Octet \in Nat \ {0}
  /\ Base \in Octets
  /\ Size \in Nat \ {0}
  /\ Base + Size =< Octet
  /\ {NoAddress, Exhausted, Diverges} \cap Octets = {}
  /\ NoAddress # Exhausted /\ NoAddress # Diverges /\ Exhausted # Diverges

Answers == Octets \cup {Exhausted, Diverges}

(* ip[len(ip)-1]++, k times: a byte wraps around and never carries.        *)
Step(start, k) == (start + k) % Octet

Least(S) == CHOOSE k \in S : \A j \in S : k =< j

(* A slip: the first address inside is the answer, whoever has it.         *)
WalkUnchecked(start, inside, assigned) ==
  IF Step(start, 0) \in inside THEN Step(start, 0) ELSE Exhausted

(* The loop over candidates: it ends at the first one that is outside the  *)
(* addresses "inside" (an error) or that nobody has (the answer). After    *)
(* Octet steps it is back where it started, so it may also never end.      *)
Walk(start, inside, assigned) ==
  LET stops == {k \in Octets : Step(start, k) \notin inside \cap assigned}
      ip    == Step(start, Least(stops))
  IN  IF stops = {} THEN Diverges
      ELSE IF ip \in inside THEN ip ELSE Exhausted

(* A slip: the walk starts one address too far.                            *)
GetNextAvailableIPFromSecond(last, assigned) ==
  IF last = NoAddress
  THEN Walk(Step(Base, 1), Octets, assigned)
  ELSE Walk(Step(last, 2), Subnet, assigned)

(* Without a last address the walk starts at the byte slice of the network *)
(* itself, which it then modifies in place: ipNet.Contains compares that   *)
(* slice with itself, so every address counts as inside.                   *)
GetNextAvailableIP(last, assigned) ==
  IF last = NoAddress
  THEN Walk(Step(Base, 1), Octets, assigned)
  ELSE Walk(Step(last, 1), Subnet, assigned)
=============================================================================
