--------------------------- MODULE BandwidthQuota ---------------------------
(***************************************************************************)
(* The byte quota the server keeps for one peer (payment/quota.rs), as     *)
(* operators on a record.  Every use in the device is made with the peer   *)
(* mutex held, so each method is one step here although its fields are     *)
(* separate atomics.                                                       *)
(***************************************************************************)
EXTENDS Naturals

CONSTANTS Nonces,        \* 32-byte EIP-3009 nonces
          DefaultQuota,  \* DEFAULT_QUOTA_BYTES, granted when a peer is added
          QuotaBytes     \* PaymentConfig.quota_bytes, granted by a payment

ASSUME QuotaAssumption == DefaultQuota \in Nat /\ QuotaBytes \in Nat \ {0}

Quota == [remaining_bytes : Nat,
          blocked         : BOOLEAN,
          total_consumed  : Nat,
          payment_count   : Nat,
          used_nonces     : SUBSET Nonces]

new(initial_bytes) ==
  [remaining_bytes |-> initial_bytes, blocked |-> FALSE, total_consumed |-> 0,
   payment_count |-> 0, used_nonces |-> {}]

(* The Boolean that consume returns.                                       *)
consume_allows(q, bytes) == q.remaining_bytes # 0 /\ bytes <= q.remaining_bytes

(* Mutant: the burnt rest is not counted as consumed.                      *)
consume_uncounted(q, bytes) ==
  IF consume_allows(q, bytes)
    THEN [q EXCEPT !.remaining_bytes = @ - bytes, !.total_consumed = @ + bytes]
  ELSE IF q.remaining_bytes = 0
    THEN q
    ELSE [q EXCEPT !.remaining_bytes = 0, !.blocked = TRUE]

(* A packet larger than what is left burns the rest and blocks the peer; a *)
(* quota already at zero is left as it is, blocked or not.                 *)
consume(q, bytes) ==
  IF consume_allows(q, bytes)
    THEN [q EXCEPT !.remaining_bytes = @ - bytes, !.total_consumed = @ + bytes]
  ELSE IF q.remaining_bytes = 0
    THEN q
    ELSE [q EXCEPT !.remaining_bytes = 0,
                   !.total_consumed = @ + q.remaining_bytes,
                   !.blocked = TRUE]

(* Mutant: a credit leaves the peer blocked.                               *)
credit_blocked(q, bytes) ==
  [q EXCEPT !.remaining_bytes = @ + bytes, !.payment_count = @ + 1]

credit(q, bytes) ==
  [q EXCEPT !.remaining_bytes = @ + bytes, !.payment_count = @ + 1,
            !.blocked = FALSE]

nonce_is_new(q, nonce) == nonce \notin q.used_nonces

record_nonce(q, nonce) == [q EXCEPT !.used_nonces = @ \union {nonce}]

=============================================================================
