------------------------------ MODULE MCDevice ------------------------------
(* Instance of Device for TLC.  Addresses have one bit: the networks are   *)
(* everything (cidr 0, given with a host bit set) and the upper half. The  *)
(* index register has two bits: it comes round at the third peer.  The     *)
(* last request means to remove one peer and to add another.               *)
EXTENDS Device

CONSTANTS k1, k2

All == [addr |-> {1}, cidr |-> 0]
Upper == [addr |-> {1}, cidr |-> 1]

Add(k, nets) ==
  [key |-> k, remove |-> None, endpoint |-> FALSE, allowed_ips |-> nets]
Del(k) == [Add(k, {}) EXCEPT !.remove = TRUE]

MCLfsrPoly == {0, 1}
MCSeed == {0}
MCMask == {0}

MCRequests ==
  {<<Add(k1, {All})>>, <<Del(k1)>>,
   <<Add(k1, {Upper}), Add(k2, {All, Upper})>>,
   <<Del(k1), Add(k2, {All})>>}

=============================================================================
