------------------------------ MODULE IndexLfsr ------------------------------
(***************************************************************************)
(* The shift register that gives every peer its index                      *)
(* (boringtun/src/device/mod.rs, IndexLfsr).  A peer keeps its index for   *)
(* life, and the indices of peers that have gone are not given out again:  *)
(* the register panics when it comes round.                                *)
(*                                                                         *)
(* A number is the set of its one bits, so that exclusive or is the        *)
(* symmetric difference and a shift takes one off every bit.  IndexBits is *)
(* 24 and LfsrPoly 0xd80000, the bits {19, 20, 22, 23}, in the code.       *)
(***************************************************************************)
EXTENDS Naturals

CONSTANTS IndexBits, LfsrPoly,
          Seed, Mask            \* what random_index draws

Bits == 0..(IndexBits - 1)
Indices == SUBSET Bits

(* Any index but 0.                                                        *)
random_index == Indices \ {{}}

(* The polynomial flips the top bit.                                       *)
ASSUME IndexLfsrAssumption ==
  /\ IndexBits \in Nat \ {0}
  /\ LfsrPoly \in Indices /\ IndexBits - 1 \in LfsrPoly
  /\ Seed \in random_index /\ Mask \in random_index

Xor(a, b) == (a \ b) \union (b \ a)

(* Minus one: the lowest one bit, and the zeros below it, are flipped.     *)
Decrement(v) == {i \in Bits : i \in v <=> \E j \in v : j < i}

(* A register: its first value, its value and the mask over what it gives. *)
Default == [initial |-> Seed, lfsr |-> Seed, mask |-> Mask]

Shifted(lfsr) ==
  Xor({i \in Bits : i + 1 \in lfsr}, IF 0 \in lfsr THEN LfsrPoly ELSE {})

IndexOf(reg) == Xor(Decrement(reg.lfsr), reg.mask)

next(reg) == [reg EXCEPT !.lfsr = Shifted(@)]

(* assert!(lfsr != initial, "Too many peers created")                      *)
ComesRound(reg) == next(reg).lfsr = reg.initial

==============================================================================
