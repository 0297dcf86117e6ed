---------------------------- MODULE PaymentProofs ----------------------------
(***************************************************************************)
(* Proofs about the payment channel, for every set of peers and nonces and *)
(* every quota: type correctness, conservation of quota, that a peer is    *)
(* blocked only with nothing left, one credit per confirmed transfer,      *)
(* service only for what was paid, that only a settled payment unblocks,   *)
(* and that a blocked peer has a payment round under way.                  *)
(***************************************************************************)
EXTENDS PaymentChannel, FiniteSetTheorems, TLAPS

(* A step that names no prover is left to Zenon.                           *)
USE ZenonT(30)

-----------------------------------------------------------------------------
(* What the methods of BandwidthQuota do to a quota.                       *)

(* A record with well-typed fields is a quota.                             *)
LEMMA QuotaRecord ==
  ASSUME NEW r \in Nat, NEW b \in BOOLEAN, NEW t \in Nat, NEW c \in Nat,
         NEW u \in SUBSET Nonces
  PROVE  [remaining_bytes |-> r, blocked |-> b, total_consumed |-> t,
          payment_count |-> c, used_nonces |-> u] \in Quota
BY DEF Quota

(* A new peer's quota is the default grant, nothing consumed.              *)
LEMMA NewFacts ==
  /\ new(DefaultQuota) \in Quota
  /\ new(DefaultQuota).remaining_bytes = DefaultQuota
  /\ new(DefaultQuota).total_consumed = 0
  /\ new(DefaultQuota).payment_count = 0
  /\ new(DefaultQuota).used_nonces = {}
  /\ new(DefaultQuota).blocked = FALSE
BY QuotaAssumption DEF new, Quota

(* consume moves bytes from remaining to consumed, never more than there   *)
(* are, leaves payments alone, and never unblocks.                         *)
LEMMA ConsumeFacts ==
  ASSUME NEW q \in Quota, NEW bytes \in Nat
  PROVE  /\ consume(q, bytes) \in Quota
         /\ consume(q, bytes).remaining_bytes + consume(q, bytes).total_consumed
              = q.remaining_bytes + q.total_consumed
         /\ consume(q, bytes).payment_count = q.payment_count
         /\ consume(q, bytes).used_nonces = q.used_nonces
         /\ consume_allows(q, bytes)
              => /\ consume(q, bytes).total_consumed = q.total_consumed + bytes
                 /\ consume(q, bytes).blocked = q.blocked
         /\ q.blocked => consume(q, bytes).blocked
         /\ ~ q.blocked /\ consume(q, bytes).blocked
              => consume(q, bytes).remaining_bytes = 0
         /\ consume(q, bytes).total_consumed >= q.total_consumed
<1> DEFINE c == consume(q, bytes)
<1>q. /\ q.remaining_bytes \in Nat /\ q.total_consumed \in Nat /\ q.payment_count \in Nat
      /\ q.blocked \in BOOLEAN /\ q.used_nonces \in SUBSET Nonces
  BY DEF Quota
<1>1. CASE consume_allows(q, bytes)
  <2>1. c = [q EXCEPT !.remaining_bytes = @ - bytes, !.total_consumed = @ + bytes]
    BY <1>1 DEF consume
  <2>2. /\ c.remaining_bytes = q.remaining_bytes - bytes
        /\ c.total_consumed = q.total_consumed + bytes
        /\ c.payment_count = q.payment_count
        /\ c.used_nonces = q.used_nonces
        /\ c.blocked = q.blocked
    BY <2>1 DEF Quota
  <2>3. q.remaining_bytes - bytes \in Nat
    BY <1>1, <1>q, SMTT(30) DEF consume_allows
  <2>4. c \in Quota
    <3>1. c = [remaining_bytes |-> q.remaining_bytes - bytes,
               blocked |-> q.blocked,
               total_consumed |-> q.total_consumed + bytes,
               payment_count |-> q.payment_count, used_nonces |-> q.used_nonces]
      BY <2>1 DEF Quota
    <3>2. q.total_consumed + bytes \in Nat
      BY <1>q, SMTT(30)
    <3> QED BY <3>1, <3>2, <2>3, <1>q, QuotaRecord, SMTT(30)
  <2> QED BY <2>2, <2>3, <2>4, <1>q, <1>1, SMTT(30)
<1>2. CASE ~ consume_allows(q, bytes) /\ q.remaining_bytes = 0
  <2>1. c = q
    BY <1>2 DEF consume
  <2> QED BY <2>1, <1>q, <1>2, SMTT(30)
<1>3. CASE ~ consume_allows(q, bytes) /\ q.remaining_bytes # 0
  <2>1. c = [q EXCEPT !.remaining_bytes = 0,
                      !.total_consumed = @ + q.remaining_bytes,
                      !.blocked = TRUE]
    BY <1>3 DEF consume
  <2>2. /\ c.remaining_bytes = 0
        /\ c.total_consumed = q.total_consumed + q.remaining_bytes
        /\ c.payment_count = q.payment_count
        /\ c.used_nonces = q.used_nonces
        /\ c.blocked = TRUE
    BY <2>1 DEF Quota
  <2>3. c \in Quota
    <3>1. c = [remaining_bytes |-> 0, blocked |-> TRUE,
               total_consumed |-> q.total_consumed + q.remaining_bytes,
               payment_count |-> q.payment_count, used_nonces |-> q.used_nonces]
      BY <2>1 DEF Quota
    <3>2. q.total_consumed + q.remaining_bytes \in Nat
      BY <1>q, SMTT(30)
    <3> QED BY <3>1, <3>2, <1>q, SMTT(30) DEF Quota
  <2> QED BY <2>2, <2>3, <1>q, <1>3, SMTT(30)
<1> QED BY <1>1, <1>2, <1>3

(* credit adds the bought bytes and one payment, and unblocks.             *)
LEMMA CreditFacts ==
  ASSUME NEW q \in Quota
  PROVE  /\ credit(q, QuotaBytes) \in Quota
         /\ credit(q, QuotaBytes).remaining_bytes = q.remaining_bytes + QuotaBytes
         /\ credit(q, QuotaBytes).total_consumed = q.total_consumed
         /\ credit(q, QuotaBytes).payment_count = q.payment_count + 1
         /\ credit(q, QuotaBytes).used_nonces = q.used_nonces
         /\ credit(q, QuotaBytes).blocked = FALSE
<1> DEFINE c == credit(q, QuotaBytes)
<1>1. /\ c.remaining_bytes = q.remaining_bytes + QuotaBytes
      /\ c.total_consumed = q.total_consumed
      /\ c.payment_count = q.payment_count + 1
      /\ c.used_nonces = q.used_nonces
      /\ c.blocked = FALSE
  BY DEF credit, Quota
<1>2. c = [remaining_bytes |-> q.remaining_bytes + QuotaBytes, blocked |-> FALSE,
           total_consumed |-> q.total_consumed,
           payment_count |-> q.payment_count + 1, used_nonces |-> q.used_nonces]
  <2>1. c = [q EXCEPT !.remaining_bytes = @ + QuotaBytes,
                      !.payment_count = @ + 1, !.blocked = FALSE]
    BY DEF credit
  <2> HIDE DEF c
  <2> QED BY <2>1 DEF Quota
<1>3. /\ q.remaining_bytes + QuotaBytes \in Nat /\ q.total_consumed \in Nat
      /\ q.payment_count + 1 \in Nat /\ q.used_nonces \in SUBSET Nonces
  BY QuotaAssumption, SMTT(30) DEF Quota
<1>4. c \in Quota
  BY <1>2, <1>3, SMTT(30) DEF Quota
<1> QED BY <1>1, <1>4

(* Recording a nonce changes nothing else.                                 *)
LEMMA RecordFacts ==
  ASSUME NEW q \in Quota, NEW n \in Nonces
  PROVE  /\ record_nonce(q, n) \in Quota
         /\ record_nonce(q, n).remaining_bytes = q.remaining_bytes
         /\ record_nonce(q, n).total_consumed = q.total_consumed
         /\ record_nonce(q, n).payment_count = q.payment_count
         /\ record_nonce(q, n).used_nonces = q.used_nonces \union {n}
         /\ record_nonce(q, n).blocked = q.blocked
BY DEF record_nonce, Quota

-----------------------------------------------------------------------------
(* Type correctness.                                                       *)

(* What arrives has a peer and an authorization that was signed.           *)
LEMMA ArrivalFacts ==
  ASSUME TypeOK, NEW m \in Arrivals
  PROVE  /\ m.peer \in present /\ m.peer \in Peers
         /\ m.auth \in signed
         /\ m.auth.nonce \in Nonces /\ m.auth.fault \in Faults \union {"none"}
BY DEF TypeOK, Arrivals, Authorization

(* Counting goes no further than two.                                      *)
LEMMA CountOnFacts ==
  ASSUME NEW k \in 0..2
  PROVE  CountOn(k) \in 0..2 /\ CountOn(k) > 0 /\ (k = 0 => CountOn(k) = 1)
BY SMTT(30) DEF CountOn

(* An empty peer table, an empty wire and empty histories are well typed.  *)
LEMMA InitTypeOK == Init => TypeOK
BY NewFacts, QuotaAssumption, PaymentAssumption, SMTT(30) DEF Init, TypeOK

(* Every handler, UAPI operation and loss keeps the state well typed.      *)
LEMMA NextTypeOK == TypeOK /\ [Next]_vars => TypeOK'
<1> SUFFICES ASSUME TypeOK, [Next]_vars PROVE TypeOK'
  OBVIOUS
<1> USE DEF TypeOK, gatewayVars, wireVars
<1>1. ASSUME NEW p \in Peers, NEW h \in AddedEndpoints, update_peer(p, h)
      PROVE  TypeOK'
  BY <1>1, NewFacts, PaymentAssumption DEF update_peer
<1>2. ASSUME NEW p \in Peers, remove_peer(p) PROVE TypeOK'
  <2>1. [n \in Nonces |-> 0] \in [Nonces -> 0..2]
    BY SMTT(30)
  <2>2. credits' \in [Peers -> [Nonces -> 0..2]]
    BY <1>2, <2>1 DEF remove_peer
  <2>3. forwarded' \in [Peers -> Nat]
    BY <1>2, SMTT(30) DEF remove_peer
  <2> QED BY <1>2, <2>2, <2>3, NewFacts DEF remove_peer
<1>3. ASSUME NEW p \in Peers, set_endpoint(p) PROVE TypeOK'
  BY <1>3 DEF set_endpoint
<1>4. ASSUME NEW p \in Peers, NEW path \in Paths, NEW bytes \in Sizes,
             forward_packet(p, path, bytes)
      PROVE  TypeOK'
  <2>1. bytes \in Nat
    BY PaymentAssumption
  <2>2. consume(quota[p], bytes) \in Quota
    BY <2>1, ConsumeFacts
  <2> QED BY <1>4, <2>1, <2>2, SMTT(30) DEF forward_packet
<1>5. ASSUME NEW p \in Peers, NEW path \in Paths, NEW bytes \in Sizes,
             exhaust_quota(p, path, bytes)
      PROVE  TypeOK'
  <2>1. bytes \in Nat
    BY PaymentAssumption
  <2>2. consume(quota[p], bytes) \in Quota
    BY <2>1, ConsumeFacts
  <2> QED BY <1>5, <2>2, SMTT(30) DEF exhaust_quota, send_payment_required
<1>6. ASSUME NEW p \in Peers, NEW n \in Nonces, NEW f \in Faults \union {"none"},
             handle_payment_signal_client(p, n, f)
      PROVE  TypeOK'
  <2>1. [nonce |-> n, fault |-> f] \in Authorization
    BY DEF Authorization
  <2> HIDE DEF Authorization
  <2> QED BY <1>6, <2>1, SMTT(30) DEF handle_payment_signal_client, Submit
<1>7. ASSUME NEW m \in Arrivals, handle_payment_submit(m) PROVE TypeOK'
  <2>1. m.peer \in Peers /\ m.auth.nonce \in Nonces
    BY ArrivalFacts
  <2> QED BY <1>7, <2>1, RecordFacts DEF handle_payment_submit
<1>8. ASSUME NEW p \in Peers, NEW o \in Outcomes, settle(p, o) PROVE TypeOK'
  <2>1. settling[p] \in Nonces
    BY <1>8 DEF settle
  <2>2. credit(quota[p], QuotaBytes) \in Quota
    BY CreditFacts
  <2>3. credits[p][settling[p]] \in 0..2 /\ total[settling[p]] \in 0..2
    BY <2>1
  <2>4. /\ CountOn(credits[p][settling[p]]) \in 0..2
        /\ CountOn(total[settling[p]]) \in 0..2
    BY <2>3, CountOnFacts
  <2>5. credits' \in [Peers -> [Nonces -> 0..2]] /\ total' \in [Nonces -> 0..2]
    <3>1. CASE o = "success"
      <4>1. /\ credits' = [credits EXCEPT ![p][settling[p]] = CountOn(@)]
            /\ total' = [total EXCEPT ![settling[p]] = CountOn(@)]
        BY <1>8, <3>1 DEF settle
      <4> QED BY <2>1, <2>4, <4>1, SMTT(30)
    <3>2. CASE o # "success"
      BY <1>8, <3>2 DEF settle
    <3> QED BY <3>1, <3>2
  <2>6. executed' \subseteq Nonces /\ again' \subseteq Nonces
    BY <1>8, <2>1 DEF settle, gateway
  <2> QED BY <1>8, <2>2, <2>5, <2>6 DEF settle
<1>9. ASSUME NEW p \in Peers, NEW n \in Nonces, lose_required(p, n) PROVE TypeOK'
  BY <1>9 DEF lose_required
<1>10. ASSUME NEW m \in submits, lose_submit(m) PROVE TypeOK'
  BY <1>10 DEF lose_submit, Submit
<1>11. CASE UNCHANGED vars
  BY <1>11 DEF vars
<1> QED BY <1>1, <1>2, <1>3, <1>4, <1>5, <1>6, <1>7, <1>8, <1>9, <1>10, <1>11
        DEF Next

(* Every reachable state is well typed.                                    *)
THEOREM TypeCorrect == Spec => []TypeOK
BY InitTypeOK, NextTypeOK, PTL DEF Spec

-----------------------------------------------------------------------------
(* The books of a peer: grants = left + consumed, what was passed on was   *)
(* consumed, a blocked peer has nothing left, and a peer that is not in    *)
(* the table starts from nothing.                                          *)
Books(q, f) ==
  /\ q.remaining_bytes + q.total_consumed
       = DefaultQuota + QuotaBytes * q.payment_count
  /\ f <= q.total_consumed
  /\ q.blocked => q.remaining_bytes = 0

BooksInv == \A p \in Peers : /\ Books(quota[p], forwarded[p])
                             /\ p \notin present => forwarded[p] = 0

(* Buying once more adds one grant.                                        *)
LEMMA OneMore ==
  ASSUME NEW a \in Nat, NEW b \in Nat
  PROVE  a * (b + 1) = a * b + a /\ a * b \in Nat
BY SMTT(30)

(* The books of a peer that was just added, or removed.                    *)
LEMMA NewBooks == Books(new(DefaultQuota), 0)
<1>1. QuotaBytes * 0 = 0
  BY QuotaAssumption, SMTT(30)
<1> QED BY <1>1, NewFacts, QuotaAssumption, SMTT(30) DEF Books

(* No peer has used or bought anything yet.                                *)
LEMMA InitBooks == Init => BooksInv
BY NewBooks DEF Init, BooksInv

(* A packet keeps a peer's books, whether it is passed on (g is f plus its *)
(* length) or burns the rest of the quota (g is f).                        *)
LEMMA ConsumeBooks ==
  ASSUME NEW q \in Quota, NEW f \in Nat, NEW bytes \in Nat, Books(q, f)
  PROVE  /\ Books(consume(q, bytes), f)
         /\ consume_allows(q, bytes) => Books(consume(q, bytes), f + bytes)
<1> DEFINE c == consume(q, bytes)
<1>1. /\ c \in Quota
      /\ c.remaining_bytes + c.total_consumed = q.remaining_bytes + q.total_consumed
      /\ c.payment_count = q.payment_count
      /\ consume_allows(q, bytes) => c.total_consumed = q.total_consumed + bytes
      /\ c.total_consumed >= q.total_consumed
  BY ConsumeFacts
<1>2. c.blocked => c.remaining_bytes = 0
  BY DEF Books, consume, consume_allows, Quota
<1>3. q.total_consumed \in Nat /\ c.total_consumed \in Nat
  BY <1>1 DEF Quota
<1> HIDE DEF c
<1>4. c.remaining_bytes + c.total_consumed = DefaultQuota + QuotaBytes * c.payment_count
  BY <1>1 DEF Books
<1>5. /\ f <= c.total_consumed
      /\ consume_allows(q, bytes) => f + bytes <= c.total_consumed
  BY <1>1, <1>3, SMTT(30) DEF Books
<1>6. Books(c, f) /\ (consume_allows(q, bytes) => Books(c, f + bytes))
  BY <1>2, <1>4, <1>5 DEF Books
<1> QED BY <1>6 DEF c

(* A credited payment keeps a peer's books.                                *)
LEMMA CreditBooks ==
  ASSUME NEW q \in Quota, NEW f \in Nat, Books(q, f)
  PROVE  Books(credit(q, QuotaBytes), f)
<1>1. /\ q.payment_count \in Nat /\ q.remaining_bytes \in Nat
      /\ q.total_consumed \in Nat
  BY DEF Quota
<1>2. QuotaBytes * (q.payment_count + 1) = QuotaBytes * q.payment_count + QuotaBytes
      /\ QuotaBytes * q.payment_count \in Nat
  BY <1>1, OneMore, QuotaAssumption
<1> DEFINE c == credit(q, QuotaBytes)
           g == QuotaBytes * q.payment_count
<1>3. /\ c.remaining_bytes = q.remaining_bytes + QuotaBytes
      /\ c.total_consumed = q.total_consumed
      /\ c.payment_count = q.payment_count + 1
      /\ c.blocked = FALSE
  BY CreditFacts
<1>4. q.remaining_bytes + q.total_consumed = DefaultQuota + g
  BY DEF Books
<1>5. QuotaBytes * c.payment_count = g + QuotaBytes /\ g \in Nat
  BY <1>2, <1>3
<1> HIDE DEF c, g
<1>6. c.remaining_bytes + c.total_consumed = DefaultQuota + QuotaBytes * c.payment_count
  BY <1>1, <1>3, <1>4, <1>5, QuotaAssumption, SMTT(30)
<1>7. f <= c.total_consumed
  BY <1>3 DEF Books
<1>8. Books(c, f)
  BY <1>3, <1>6, <1>7 DEF Books
<1> QED BY <1>8 DEF c

(* Every step keeps every peer's books: only packets, settlements and the  *)
(* peer table touch a quota.                                               *)
LEMMA NextBooks == TypeOK /\ BooksInv /\ [Next]_vars => BooksInv'
<1> SUFFICES ASSUME TypeOK, BooksInv, [Next]_vars, NEW r \in Peers
             PROVE  /\ Books(quota'[r], forwarded'[r])
                    /\ r \notin present' => forwarded'[r] = 0
  BY DEF BooksInv
<1>r. /\ Books(quota[r], forwarded[r])
      /\ r \notin present => forwarded[r] = 0
      /\ quota[r] \in Quota /\ forwarded[r] \in Nat
  BY DEF BooksInv, TypeOK
<1> DEFINE Kept == /\ Books(quota'[r], forwarded'[r])
                   /\ r \notin present' => forwarded'[r] = 0
<1>q. /\ quota'[r] = quota[r] /\ forwarded'[r] = forwarded[r]
      /\ r \in present => r \in present'
      => Kept
  BY <1>r
<1> USE DEF gatewayVars, wireVars
<1>1. ASSUME NEW p \in Peers, NEW h \in AddedEndpoints, update_peer(p, h)
      PROVE  Kept
  <2>1. CASE r = p
    <3>1. forwarded'[r] = 0 /\ quota'[r] = new(DefaultQuota)
      BY <1>1, <1>r, <2>1 DEF update_peer, Books, TypeOK
    <3> QED BY <3>1, NewBooks
  <2>2. CASE r # p
    BY <1>1, <1>q, <2>2 DEF update_peer, TypeOK
  <2> QED BY <2>1, <2>2
<1>2. ASSUME NEW p \in Peers, remove_peer(p)
      PROVE  Kept
  <2>1. CASE r = p
    <3>1. forwarded'[r] = 0 /\ quota'[r] = new(DefaultQuota)
      BY <1>2, <2>1 DEF remove_peer, TypeOK
    <3> QED BY <3>1, NewBooks
  <2>2. CASE r # p
    BY <1>2, <1>q, <2>2 DEF remove_peer, TypeOK
  <2> QED BY <2>1, <2>2
<1>3. ASSUME NEW p \in Peers, set_endpoint(p)
      PROVE  Kept
  BY <1>3, <1>q DEF set_endpoint
<1>4. ASSUME NEW p \in Peers, NEW path \in Paths, NEW bytes \in Sizes,
             forward_packet(p, path, bytes)
      PROVE  Kept
  <2>1. CASE r = p
    <3>1. /\ bytes \in Nat /\ r \in present /\ present' = present
          /\ consume_allows(quota[r], bytes)
          /\ quota'[r] = consume(quota[r], bytes)
          /\ forwarded'[r] = forwarded[r] + bytes
      BY <1>4, <2>1, PaymentAssumption DEF forward_packet, reaches_quota, TypeOK
    <3> QED BY <3>1, <1>r, ConsumeBooks
  <2>2. CASE r # p
    BY <1>4, <1>q, <2>2 DEF forward_packet, TypeOK
  <2> QED BY <2>1, <2>2
<1>5. ASSUME NEW p \in Peers, NEW path \in Paths, NEW bytes \in Sizes,
             exhaust_quota(p, path, bytes)
      PROVE  Kept
  <2>1. CASE r = p
    <3>1. /\ bytes \in Nat /\ r \in present /\ present' = present
          /\ quota'[r] = consume(quota[r], bytes)
          /\ forwarded'[r] = forwarded[r]
      BY <1>5, <2>1, PaymentAssumption DEF exhaust_quota, reaches_quota, TypeOK
    <3> QED BY <3>1, <1>r, ConsumeBooks
  <2>2. CASE r # p
    BY <1>5, <1>q, <2>2 DEF exhaust_quota, TypeOK
  <2> QED BY <2>1, <2>2
<1>6. ASSUME NEW p \in Peers, NEW n \in Nonces, NEW f \in Faults \union {"none"},
             handle_payment_signal_client(p, n, f)
      PROVE  Kept
  BY <1>6, <1>q DEF handle_payment_signal_client
<1>7. ASSUME NEW m \in Arrivals, handle_payment_submit(m)
      PROVE  Kept
  <2>1. CASE r = m.peer
    <3>1. /\ m.auth.nonce \in Nonces /\ present' = present /\ forwarded' = forwarded
          /\ quota'[r] = record_nonce(quota[r], m.auth.nonce)
      BY <1>7, <2>1, ArrivalFacts DEF handle_payment_submit, TypeOK
    <3> QED BY <3>1, <1>r, RecordFacts, SMTT(30) DEF Books
  <2>2. CASE r # m.peer
    BY <1>7, <1>q, <2>2 DEF handle_payment_submit, TypeOK
  <2> QED BY <2>1, <2>2
<1>8. ASSUME NEW p \in Peers, NEW o \in Outcomes, settle(p, o)
      PROVE  Kept
  <2>1. CASE r = p /\ o = "success"
    <3>1. /\ present' = present /\ forwarded' = forwarded
          /\ quota'[r] = credit(quota[r], QuotaBytes)
      BY <1>8, <2>1 DEF settle, TypeOK
    <3> QED BY <3>1, <1>r, CreditBooks
  <2>2. CASE ~ (r = p /\ o = "success")
    BY <1>8, <1>q, <2>2 DEF settle, TypeOK
  <2> QED BY <2>1, <2>2
<1>9. ASSUME NEW p \in Peers, NEW n \in Nonces, lose_required(p, n)
      PROVE  Kept
  BY <1>9, <1>q DEF lose_required
<1>10. ASSUME NEW m \in submits, lose_submit(m)
       PROVE  Kept
  BY <1>10, <1>q DEF lose_submit
<1>11. CASE UNCHANGED vars
  BY <1>11, <1>q DEF vars
<1> QED BY <1>1, <1>2, <1>3, <1>4, <1>5, <1>6, <1>7, <1>8, <1>9, <1>10, <1>11
        DEF Next

(* In every reachable state what a peer was granted is what it has left    *)
(* plus what it consumed (BandwidthQuota::consume and credit).             *)
THEOREM QuotaIsConserved == Spec => []QuotaConserved
<1>1. BooksInv => QuotaConserved
  BY DEF BooksInv, Books, QuotaConserved
<1> QED BY <1>1, InitTypeOK, NextTypeOK, InitBooks, NextBooks, PTL DEF Spec

(* In every reachable state a blocked peer has nothing left.               *)
THEOREM BlockedPeersAreSpent == Spec => []BlockedIsSpent
<1>1. BooksInv => BlockedIsSpent
  BY DEF BooksInv, Books, BlockedIsSpent
<1> QED BY <1>1, InitTypeOK, NextTypeOK, InitBooks, NextBooks, PTL DEF Spec

-----------------------------------------------------------------------------
(* The life of a nonce.                                                    *)

(* No nonce has been drawn.                                                *)
LEMMA InitNonces == Init => NonceLifecycle
BY NewFacts, SMTT(30) DEF Init, NonceLifecycle, Arrivals

(* Only the server draws, only a client signs, and only what was signed    *)
(* is submitted and recorded.                                              *)
LEMMA NextNonces == TypeOK /\ NonceLifecycle /\ [Next]_vars => NonceLifecycle'
<1> SUFFICES ASSUME TypeOK, NonceLifecycle, [Next]_vars PROVE NonceLifecycle'
  OBVIOUS
<1> DEFINE Kept == /\ UNCHANGED <<drawn, signed>> /\ required' \subseteq required
                   /\ submits' \subseteq Arrivals'
                   /\ \A r \in Peers : quota'[r].used_nonces \subseteq quota[r].used_nonces
<1>k. ASSUME Kept PROVE NonceLifecycle'
  BY <1>k DEF NonceLifecycle
<1>s. submits \subseteq Arrivals
  BY DEF NonceLifecycle
<1> USE DEF gatewayVars, wireVars
<1>n. ASSUME NEW p \in Peers, quota' = [quota EXCEPT ![p] = new(DefaultQuota)]
      PROVE  \A r \in Peers : quota'[r].used_nonces \subseteq quota[r].used_nonces
  BY <1>n, NewFacts DEF TypeOK
<1>c. ASSUME NEW p \in Peers, NEW bytes \in Sizes,
             quota' = [quota EXCEPT ![p] = consume(@, bytes)]
      PROVE  \A r \in Peers : quota'[r].used_nonces = quota[r].used_nonces
  <2>1. bytes \in Nat /\ quota[p] \in Quota
    BY PaymentAssumption DEF TypeOK
  <2>2. consume(quota[p], bytes).used_nonces = quota[p].used_nonces
    BY <2>1, ConsumeFacts
  <2> QED BY <1>c, <2>2 DEF TypeOK
<1>1. ASSUME NEW p \in Peers, NEW h \in AddedEndpoints, update_peer(p, h)
      PROVE  NonceLifecycle'
  BY <1>1, <1>k, <1>n, <1>s DEF update_peer, Arrivals
<1>2. ASSUME NEW p \in Peers, remove_peer(p) PROVE NonceLifecycle'
  <2>1. submits' \subseteq Arrivals'
    BY <1>2, <1>s DEF remove_peer, Arrivals
  <2> QED BY <1>2, <1>k, <1>n, <2>1 DEF remove_peer
<1>3. ASSUME NEW p \in Peers, set_endpoint(p) PROVE NonceLifecycle'
  BY <1>3, <1>k, <1>s DEF set_endpoint, Arrivals
<1>4. ASSUME NEW p \in Peers, NEW path \in Paths, NEW bytes \in Sizes,
             forward_packet(p, path, bytes)
      PROVE  NonceLifecycle'
  BY <1>4, <1>k, <1>c, <1>s DEF forward_packet, Arrivals
<1>5. ASSUME NEW p \in Peers, NEW path \in Paths, NEW bytes \in Sizes,
             exhaust_quota(p, path, bytes)
      PROVE  NonceLifecycle'
  <2>1. \A r \in Peers : quota'[r].used_nonces = quota[r].used_nonces
    BY <1>5, <1>c DEF exhaust_quota
  <2>2. UNCHANGED <<present, signed, submits>>
    BY <1>5 DEF exhaust_quota
  <2>3. submits' \subseteq Arrivals'
    BY <1>s, <2>2 DEF Arrivals
  <2>4. CASE asks_for_payment(p, path)
    <3>1. PICK n \in Nonces \ drawn : /\ drawn' = drawn \union {n}
                                      /\ required' = required \union {<<p, n>>}
      BY <1>5, <2>4 DEF exhaust_quota, send_payment_required
    <3>2. \A a \in signed : a.nonce # n
      BY <3>1 DEF NonceLifecycle
    <3>3. \A r \in required : r[2] # n
      BY <3>1 DEF NonceLifecycle
    <3>4. \A r \in required' : r[2] \in drawn' /\ \A a \in signed' : a.nonce # r[2]
      BY <2>2, <3>1, <3>2, SMTT(30) DEF NonceLifecycle
    <3>5. \A q, r \in required' : q[2] = r[2] => q = r
      BY <3>1, <3>3, SMTT(30) DEF NonceLifecycle
    <3> QED BY <2>1, <2>2, <2>3, <3>1, <3>4, <3>5 DEF NonceLifecycle
  <2>5. CASE ~ asks_for_payment(p, path)
    BY <1>5, <1>k, <2>1, <2>2, <2>3, <2>5 DEF exhaust_quota
  <2> QED BY <2>4, <2>5
<1>6. ASSUME NEW p \in Peers, NEW n \in Nonces, NEW f \in Faults \union {"none"},
             handle_payment_signal_client(p, n, f)
      PROVE  NonceLifecycle'
  <2> DEFINE a == [nonce |-> n, fault |-> f]
             r0 == <<p, n>>
  <2>1. /\ r0 \in required /\ required' = required \ {r0}
        /\ signed' = signed \union {a}
        /\ submits' \subseteq submits \union {[peer |-> p, auth |-> a]}
        /\ p \notin present => submits' = submits
        /\ UNCHANGED <<present, quota, drawn>>
    BY <1>6 DEF handle_payment_signal_client
  <2>2. a.nonce = n /\ r0[2] = n
    OBVIOUS
  <2> HIDE DEF a, r0
  <2>3. n \in drawn /\ \A b \in signed : b.nonce # n
    BY <2>1, <2>2 DEF NonceLifecycle
  <2>4. \A r \in required' : r[2] # n
    BY <2>1, <2>2 DEF NonceLifecycle
  <2>5. \A r \in required' : r[2] \in drawn' /\ \A b \in signed' : b.nonce # r[2]
    BY <2>1, <2>2, <2>4 DEF NonceLifecycle
  <2>6. \A b \in signed' : b.nonce \in drawn'
    BY <2>1, <2>2, <2>3 DEF NonceLifecycle
  <2>7. \A b, c \in signed' : b.nonce = c.nonce => b = c
    BY <2>1, <2>2, <2>3, SMTT(30) DEF NonceLifecycle
  <2>8. submits' \subseteq Arrivals'
    <3>1. Arrivals \subseteq Arrivals'
      BY <2>1 DEF Arrivals
    <3>2. p \in present => [peer |-> p, auth |-> a] \in Arrivals'
      BY <2>1 DEF Arrivals
    <3> QED BY <1>s, <2>1, <3>1, <3>2
  <2>9. \A q \in Peers : \A k \in quota'[q].used_nonces : \E b \in signed' : b.nonce = k
    BY <2>1 DEF NonceLifecycle
  <2>10. \A q, r \in required' : q[2] = r[2] => q = r
    BY <2>1 DEF NonceLifecycle
  <2> QED BY <2>5, <2>6, <2>7, <2>8, <2>9, <2>10 DEF NonceLifecycle
<1>7. ASSUME NEW m \in Arrivals, handle_payment_submit(m) PROVE NonceLifecycle'
  <2>1. /\ m.peer \in Peers /\ m.auth \in signed /\ m.auth.nonce \in Nonces
        /\ quota[m.peer] \in Quota
    BY ArrivalFacts DEF TypeOK
  <2>2. record_nonce(quota[m.peer], m.auth.nonce).used_nonces
          = quota[m.peer].used_nonces \union {m.auth.nonce}
    BY <2>1, RecordFacts
  <2>3. /\ UNCHANGED <<present, required, drawn, signed>> /\ submits' \subseteq submits
        /\ quota' = [quota EXCEPT ![m.peer] = record_nonce(@, m.auth.nonce)]
    BY <1>7 DEF handle_payment_submit
  <2>4. \A r \in Peers : \A n \in quota'[r].used_nonces :
          n \in quota[r].used_nonces \/ n = m.auth.nonce
    BY <2>1, <2>2, <2>3 DEF TypeOK
  <2>5. \A r \in Peers : \A n \in quota'[r].used_nonces : \E a \in signed' : a.nonce = n
    BY <2>1, <2>3, <2>4 DEF NonceLifecycle
  <2>6. submits' \subseteq Arrivals'
    BY <1>s, <2>3 DEF Arrivals
  <2> QED BY <2>3, <2>5, <2>6 DEF NonceLifecycle
<1>8. ASSUME NEW p \in Peers, NEW o \in Outcomes, settle(p, o) PROVE NonceLifecycle'
  <2>1. quota[p] \in Quota
    BY DEF TypeOK
  <2>2. credit(quota[p], QuotaBytes).used_nonces = quota[p].used_nonces
    BY <2>1, CreditFacts
  <2>3. \A r \in Peers : quota'[r].used_nonces = quota[r].used_nonces
    BY <1>8, <2>2 DEF settle, TypeOK
  <2> QED BY <1>8, <1>k, <1>s, <2>3 DEF settle, Arrivals
<1>9. ASSUME NEW p \in Peers, NEW n \in Nonces, lose_required(p, n) PROVE NonceLifecycle'
  BY <1>9, <1>k, <1>s DEF lose_required, Arrivals
<1>10. ASSUME NEW m \in submits, lose_submit(m) PROVE NonceLifecycle'
  BY <1>10, <1>k, <1>s DEF lose_submit, Arrivals
<1>11. CASE UNCHANGED vars
  BY <1>11, <1>k, <1>s DEF vars, Arrivals
<1> QED BY <1>1, <1>2, <1>3, <1>4, <1>5, <1>6, <1>7, <1>8, <1>9, <1>10, <1>11
        DEF Next

-----------------------------------------------------------------------------
(* Credits.                                                                *)

CreditInv == CreditRecorded /\ CreditedOnce

(* Nothing has been credited.                                              *)
LEMMA InitCredits == Init => CreditInv
BY NewFacts, SMTT(30) DEF Init, CreditInv, CreditRecorded, CreditedOnce

(* What a peer has bought and is buying, by itself.                        *)
Bought(p) ==
  /\ settling[p] # NoNonce => /\ ~ nonce_is_new(quota[p], settling[p])
                              /\ credits[p][settling[p]] = 0
  /\ \A n \in Nonces : /\ nonce_is_new(quota[p], n) => credits[p][n] = 0
                       /\ credits[p][n] > 0 => total[n] > 0
  /\ p \notin present => /\ settling[p] = NoNonce
                         /\ \A n \in Nonces : credits[p][n] = 0

(* What CreditInv says of one nonce and one peer.                          *)
LEMMA CreditOf ==
  ASSUME CreditInv, NEW p \in Peers, NEW n \in Nonces
  PROVE  /\ nonce_is_new(quota[p], n) => credits[p][n] = 0
         /\ credits[p][n] > 0 => total[n] > 0
         /\ total[n] > 0 => n \in executed
<1>1. Bought(p)
  BY DEF CreditInv, CreditRecorded, Bought
<1>2. total[n] > 0 => n \in executed
  BY DEF CreditInv, CreditedOnce
<1>3. \A k \in Nonces : /\ nonce_is_new(quota[p], k) => credits[p][k] = 0
                        /\ credits[p][k] > 0 => total[k] > 0
  BY <1>1 DEF Bought
<1> QED BY <1>2, <1>3

(* A step that credits nothing: a peer keeps its nonces, credits and       *)
(* settlement, or starts afresh.                                           *)
LEMMA CreditFrame ==
  ASSUME TypeOK, CreditInv, UNCHANGED <<executed, again, total>>,
         \A p \in Peers :
           \/ /\ credits'[p] = credits[p] /\ settling'[p] = settling[p]
              /\ quota'[p].used_nonces = quota[p].used_nonces
              /\ p \in present => p \in present'
           \/ settling'[p] = NoNonce /\ \A n \in Nonces : credits'[p][n] = 0
  PROVE  CreditInv'
<1>1. \A p \in Peers, n \in Nonces : credits'[p][n] = credits[p][n] \/ credits'[p][n] = 0
  OBVIOUS
<1>2. CreditedOnce'
  BY <1>1, SMTT(30) DEF CreditInv, CreditedOnce
<1>3. ASSUME NEW p \in Peers PROVE Bought(p)'
  <2>1. CASE /\ credits'[p] = credits[p] /\ settling'[p] = settling[p]
             /\ quota'[p].used_nonces = quota[p].used_nonces
             /\ p \in present => p \in present'
    BY <2>1 DEF CreditInv, CreditRecorded, Bought, nonce_is_new
  <2>2. CASE settling'[p] = NoNonce /\ \A n \in Nonces : credits'[p][n] = 0
    BY <2>2, SMTT(30) DEF Bought
  <2> QED BY <2>1, <2>2
<1>4. CreditRecorded'
  BY <1>3 DEF CreditRecorded, Bought
<1> QED BY <1>2, <1>4 DEF CreditInv

(* The nonce is recorded before the gateway is asked, so while a peer is   *)
(* in the table it settles each nonce once; and the gateway confirms one   *)
(* it has executed only by confirming it again.                            *)
LEMMA NextCredits == TypeOK /\ CreditInv /\ [Next]_vars => CreditInv'
<1> SUFFICES ASSUME TypeOK, CreditInv, [Next]_vars PROVE CreditInv'
  OBVIOUS
<1> USE DEF gatewayVars, wireVars
<1>c. ASSUME NEW p \in Peers, NEW bytes \in Sizes,
             quota' = [quota EXCEPT ![p] = consume(@, bytes)]
      PROVE  \A r \in Peers : quota'[r].used_nonces = quota[r].used_nonces
  <2>1. bytes \in Nat /\ quota[p] \in Quota
    BY PaymentAssumption DEF TypeOK
  <2>2. consume(quota[p], bytes).used_nonces = quota[p].used_nonces
    BY <2>1, ConsumeFacts
  <2> QED BY <1>c, <2>2 DEF TypeOK
<1>1. ASSUME NEW p \in Peers, NEW h \in AddedEndpoints, update_peer(p, h)
      PROVE  CreditInv'
  <2>1. settling[p] = NoNonce /\ \A n \in Nonces : credits[p][n] = 0
    BY <1>1 DEF update_peer, CreditInv, CreditRecorded
  <2> QED BY <1>1, <2>1, CreditFrame DEF update_peer, TypeOK
<1>2. ASSUME NEW p \in Peers, remove_peer(p) PROVE CreditInv'
  <2>1. settling'[p] = NoNonce /\ \A n \in Nonces : credits'[p][n] = 0
    BY <1>2 DEF remove_peer, NoHandlerRuns, TypeOK
  <2>2. \A r \in Peers : r # p =>
          /\ credits'[r] = credits[r] /\ settling'[r] = settling[r]
          /\ quota'[r].used_nonces = quota[r].used_nonces
          /\ r \in present => r \in present'
    BY <1>2 DEF remove_peer, TypeOK
  <2>3. UNCHANGED <<executed, again, total>>
    BY <1>2 DEF remove_peer
  <2> QED BY <2>1, <2>2, <2>3, CreditFrame
<1>3. ASSUME NEW p \in Peers, set_endpoint(p) PROVE CreditInv'
  BY <1>3, CreditFrame DEF set_endpoint
<1>4. ASSUME NEW p \in Peers, NEW path \in Paths, NEW bytes \in Sizes,
             forward_packet(p, path, bytes)
      PROVE  CreditInv'
  BY <1>4, <1>c, CreditFrame DEF forward_packet
<1>5. ASSUME NEW p \in Peers, NEW path \in Paths, NEW bytes \in Sizes,
             exhaust_quota(p, path, bytes)
      PROVE  CreditInv'
  BY <1>5, <1>c, CreditFrame DEF exhaust_quota
<1>6. ASSUME NEW p \in Peers, NEW n \in Nonces, NEW f \in Faults \union {"none"},
             handle_payment_signal_client(p, n, f)
      PROVE  CreditInv'
  BY <1>6, CreditFrame DEF handle_payment_signal_client
<1>7. ASSUME NEW m \in Arrivals, handle_payment_submit(m) PROVE CreditInv'
  <2> DEFINE p == m.peer
             n == m.auth.nonce
  <2>1. p \in Peers /\ p \in present /\ n \in Nonces /\ quota[p] \in Quota
    BY ArrivalFacts DEF TypeOK
  <2>2. record_nonce(quota[p], n).used_nonces = quota[p].used_nonces \union {n}
    BY <2>1, RecordFacts
  <2>3. /\ UNCHANGED <<present, executed, again, credits, total>>
        /\ quota' = [quota EXCEPT ![p] = record_nonce(@, n)]
        /\ \/ settling' = settling
           \/ settling' = [settling EXCEPT ![p] = n]
        /\ nonce_is_new(quota[p], n) /\ settling[p] = NoNonce
    BY <1>7 DEF handle_payment_submit
  <2> HIDE DEF p, n
  <2>4. credits[p][n] = 0
    BY <2>1, <2>3, CreditOf
  <2>5. quota'[p].used_nonces = quota[p].used_nonces \union {n}
    BY <2>1, <2>2, <2>3 DEF TypeOK
  <2>6. settling'[p] = NoNonce \/ settling'[p] = n
    BY <2>1, <2>3 DEF TypeOK
  <2>7. \A r \in Peers : r # p => quota'[r] = quota[r] /\ settling'[r] = settling[r]
    BY <2>1, <2>3 DEF TypeOK
  <2>8. ASSUME NEW r \in Peers PROVE Bought(r)'
    <3>1. CASE r = p
      <4>1. settling'[p] # NoNonce => /\ ~ nonce_is_new(quota'[p], settling'[p])
                                      /\ credits'[p][settling'[p]] = 0
        BY <2>3, <2>4, <2>5, <2>6 DEF nonce_is_new
      <4>2. \A k \in Nonces : nonce_is_new(quota'[p], k) => nonce_is_new(quota[p], k)
        BY <2>5 DEF nonce_is_new
      <4>3. \A k \in Nonces : /\ nonce_is_new(quota'[p], k) => credits'[p][k] = 0
                              /\ credits'[p][k] > 0 => total'[k] > 0
        BY <2>1, <2>3, <4>2, CreditOf
      <4> QED BY <2>1, <2>3, <3>1, <4>1, <4>3 DEF Bought
    <3>2. CASE r # p
      BY <2>3, <2>7, <3>2 DEF CreditInv, CreditRecorded, Bought
    <3> QED BY <3>1, <3>2
  <2>9. CreditedOnce'
    BY <2>3 DEF CreditInv, CreditedOnce
  <2>10. CreditRecorded'
    BY <2>8 DEF CreditRecorded, Bought
  <2> QED BY <2>9, <2>10 DEF CreditInv
<1>8. ASSUME NEW p \in Peers, NEW o \in Outcomes, settle(p, o) PROVE CreditInv'
  <2> DEFINE n == settling[p]
  <2>1. /\ n \in Nonces /\ credits[p][n] = 0 /\ ~ nonce_is_new(quota[p], n)
        /\ p \in present
    BY <1>8 DEF settle, TypeOK, CreditInv, CreditRecorded
  <2>2. \A r \in Peers : quota'[r].used_nonces = quota[r].used_nonces
    <3>1. credit(quota[p], QuotaBytes).used_nonces = quota[p].used_nonces
      BY CreditFacts DEF TypeOK
    <3> QED BY <1>8, <3>1 DEF settle, TypeOK
  <2>3. settling'[p] = NoNonce /\ \A r \in Peers : r # p => settling'[r] = settling[r]
    BY <1>8 DEF settle, TypeOK
  <2>4. CASE o # "success"
    <3>1. UNCHANGED <<present, again, credits, total>> /\ executed \subseteq executed'
      BY <1>8, <2>4 DEF settle, gateway
    <3>2. ASSUME NEW r \in Peers PROVE Bought(r)'
      BY <2>2, <2>3, <3>1 DEF CreditInv, CreditRecorded, Bought, nonce_is_new
    <3>3. CreditRecorded'
      BY <3>2 DEF CreditRecorded, Bought
    <3>4. CreditedOnce'
      BY <3>1 DEF CreditInv, CreditedOnce
    <3> QED BY <3>3, <3>4 DEF CreditInv
  <2>5. CASE o = "success"
    <3>1. /\ present' = present /\ executed' = executed \union {n}
          /\ again' = IF n \in executed THEN again \union {n} ELSE again
          /\ credits' = [credits EXCEPT ![p][n] = CountOn(@)]
          /\ total' = [total EXCEPT ![n] = CountOn(@)]
      BY <1>8, <2>5 DEF settle, gateway
    <3> HIDE DEF n
    <3>2. credits'[p][n] = 1
      <4>1. CountOn(credits[p][n]) = 1
        BY <2>1, CountOnFacts DEF CountOn
      <4> QED BY <2>1, <3>1, <4>1 DEF TypeOK
    <3>3. \A r \in Peers, k \in Nonces : r # p \/ k # n => credits'[r][k] = credits[r][k]
      BY <2>1, <3>1 DEF TypeOK
    <3>4. \A k \in Nonces : k # n => total'[k] = total[k]
      BY <3>1 DEF TypeOK
    <3>5. total'[n] > 0 /\ (total[n] = 0 => total'[n] = 1)
      <4>1. total[n] \in 0..2
        BY <2>1 DEF TypeOK
      <4>2. total'[n] = CountOn(total[n])
        BY <2>1, <3>1 DEF TypeOK
      <4> QED BY <4>1, <4>2, CountOnFacts
    <3>6. n \notin again' => total[n] = 0
      <4>1. n \notin again' => n \notin executed
        BY <3>1
      <4>2. total[n] \in 0..2 /\ (total[n] > 0 => n \in executed)
        BY <2>1 DEF TypeOK, CreditInv, CreditedOnce
      <4> QED BY <4>1, <4>2, SMTT(30)
    <3>7. CreditedOnce'
      <4>1. ASSUME NEW k \in Nonces, k # n
            PROVE  /\ total'[k] > 0 => k \in executed'
                   /\ \A r \in Peers : credits'[r][k] <= 1
                   /\ k \notin again' => total'[k] <= 1
        BY <3>1, <3>3, <3>4, <4>1 DEF CreditInv, CreditedOnce
      <4>2. \A r \in Peers : credits'[r][n] <= 1
        <5>1. \A r \in Peers : credits[r][n] <= 1
          BY <2>1 DEF CreditInv, CreditedOnce
        <5>2. credits'[p][n] <= 1
          BY <3>2, SMTT(30)
        <5> QED BY <2>1, <3>3, <5>1, <5>2
      <4>3. n \notin again' => total'[n] <= 1
        BY <3>5, <3>6, SMTT(30)
      <4>4. n \in executed'
        BY <3>1
      <4> QED BY <4>1, <4>2, <4>3, <4>4 DEF CreditedOnce
    <3>8. ASSUME NEW r \in Peers PROVE Bought(r)'
      <4>1. \A k \in Nonces : total[k] > 0 => total'[k] > 0
        BY <3>4, <3>5
      <4>2. CASE r # p
        <5>1. credits'[r] = credits[r] /\ settling'[r] = settling[r]
          BY <2>3, <3>1, <4>2 DEF TypeOK
        <5> QED BY <2>2, <3>1, <4>1, <5>1
                DEF CreditInv, CreditRecorded, Bought, nonce_is_new
      <4>3. CASE r = p
        <5>1. ~ nonce_is_new(quota'[p], n)
          BY <2>1, <2>2 DEF nonce_is_new
        <5>2. \A k \in Nonces : nonce_is_new(quota'[p], k) => credits'[p][k] = 0
          <6>1. \A k \in Nonces : nonce_is_new(quota'[p], k) => nonce_is_new(quota[p], k)
            BY <2>2 DEF nonce_is_new
          <6> QED BY <3>3, <5>1, <6>1, CreditOf
        <5>3. \A k \in Nonces : credits'[p][k] > 0 => total'[k] > 0
          BY <3>3, <3>5, <4>1, CreditOf
        <5> QED BY <2>1, <2>3, <3>1, <4>3, <5>2, <5>3 DEF Bought
      <4> QED BY <4>2, <4>3
    <3>9. CreditRecorded'
      BY <3>8 DEF CreditRecorded, Bought
    <3> QED BY <3>7, <3>9 DEF CreditInv
  <2> QED BY <2>4, <2>5
<1>9. ASSUME NEW p \in Peers, NEW n \in Nonces, lose_required(p, n) PROVE CreditInv'
  BY <1>9, CreditFrame DEF lose_required
<1>10. ASSUME NEW m \in submits, lose_submit(m) PROVE CreditInv'
  BY <1>10, CreditFrame DEF lose_submit
<1>11. CASE UNCHANGED vars
  BY <1>11, CreditFrame DEF vars
<1> QED BY <1>1, <1>2, <1>3, <1>4, <1>5, <1>6, <1>7, <1>8, <1>9, <1>10, <1>11
        DEF Next

(* However often, and through whichever peers, an authorization arrives,   *)
(* and whatever the gateway answers: it is credited only if its transfer   *)
(* was made, once to a peer while it is in the table, and once altogether  *)
(* unless the gateway confirms it again (handle_payment_submit).           *)
THEOREM AuthorizationsCreditedOnce == Spec => []CreditedOnce
<1>1. CreditInv => CreditedOnce
  BY DEF CreditInv
<1> QED BY <1>1, InitTypeOK, NextTypeOK, InitCredits, NextCredits, PTL DEF Spec

-----------------------------------------------------------------------------
(* Every credit is backed by a transfer of the peer's own: the payments    *)
(* counted in a quota are the nonces in its set that were credited.        *)
PaidCounted ==
  \A p \in Peers : /\ IsFiniteSet(quota[p].used_nonces)
                   /\ quota[p].payment_count = Cardinality(Paid(p))

(* Nobody has paid yet.                                                    *)
LEMMA InitPaid == Init => PaidCounted
<1> SUFFICES ASSUME Init, NEW p \in Peers
             PROVE  /\ IsFiniteSet(quota[p].used_nonces)
                    /\ quota[p].payment_count = Cardinality(Paid(p))
  BY DEF PaidCounted
<1>1. quota[p].used_nonces = {} /\ quota[p].payment_count = 0
  BY NewFacts DEF Init
<1>2. Paid(p) = {}
  BY <1>1 DEF Paid
<1> QED BY <1>1, <1>2, FS_EmptySet

(* A step that leaves a peer's nonces, payments and their credits alone.   *)
LEMMA PaidFrame ==
  ASSUME PaidCounted, NEW r \in Peers,
         quota'[r].used_nonces = quota[r].used_nonces,
         quota'[r].payment_count = quota[r].payment_count,
         \A n \in quota[r].used_nonces :
           (credits'[r][n] = 1 /\ n \in executed')
             <=> (credits[r][n] = 1 /\ n \in executed)
  PROVE  /\ IsFiniteSet(quota'[r].used_nonces)
         /\ quota'[r].payment_count = Cardinality(Paid(r)')
<1>1. Paid(r)' = Paid(r)
  BY DEF Paid
<1> QED BY <1>1 DEF PaidCounted

(* A credit is counted together with the nonce that paid for it, and both  *)
(* leave with the peer.                                                    *)
LEMMA NextPaid ==
  TypeOK /\ CreditInv /\ PaidCounted /\ [Next]_vars => PaidCounted'
<1> SUFFICES ASSUME TypeOK, CreditInv, PaidCounted, [Next]_vars,
                    NEW r \in Peers
             PROVE  /\ IsFiniteSet(quota'[r].used_nonces)
                    /\ quota'[r].payment_count = Cardinality(Paid(r)')
  BY DEF PaidCounted
<1> DEFINE Kept == /\ IsFiniteSet(quota'[r].used_nonces)
                   /\ quota'[r].payment_count = Cardinality(Paid(r)')
<1>q. quota[r] \in Quota
  BY DEF TypeOK
<1>f. ASSUME quota'[r].used_nonces = quota[r].used_nonces,
             quota'[r].payment_count = quota[r].payment_count,
             credits'[r] = credits[r], executed' = executed
      PROVE  Kept
  BY <1>f, PaidFrame
<1>n. ASSUME quota'[r] = new(DefaultQuota) PROVE Kept
  <2>1. quota'[r].used_nonces = {} /\ quota'[r].payment_count = 0
    BY <1>n, NewFacts
  <2>2. Paid(r)' = {}
    BY <2>1 DEF Paid
  <2> QED BY <2>1, <2>2, FS_EmptySet
<1> HIDE DEF Kept
<1> USE DEF gatewayVars, wireVars
<1>1. ASSUME NEW p \in Peers, NEW h \in AddedEndpoints, update_peer(p, h) PROVE Kept
  BY <1>1, <1>f, <1>n DEF update_peer, TypeOK
<1>2. ASSUME NEW p \in Peers, remove_peer(p) PROVE Kept
  BY <1>2, <1>f, <1>n DEF remove_peer, TypeOK
<1>3. ASSUME NEW p \in Peers, set_endpoint(p) PROVE Kept
  BY <1>3, <1>f DEF set_endpoint
<1>c. ASSUME NEW p \in Peers, NEW bytes \in Sizes,
             quota' = [quota EXCEPT ![p] = consume(@, bytes)],
             credits' = credits, executed' = executed
      PROVE  Kept
  <2>1. bytes \in Nat
    BY PaymentAssumption
  <2>2. /\ consume(quota[r], bytes).used_nonces = quota[r].used_nonces
        /\ consume(quota[r], bytes).payment_count = quota[r].payment_count
    BY <1>q, <2>1, ConsumeFacts
  <2>3. quota'[r] = consume(quota[r], bytes) \/ quota'[r] = quota[r]
    BY <1>c DEF TypeOK
  <2> QED BY <1>c, <1>f, <2>2, <2>3
<1>4. ASSUME NEW p \in Peers, NEW path \in Paths, NEW bytes \in Sizes,
             forward_packet(p, path, bytes)
      PROVE  Kept
  BY <1>4, <1>c DEF forward_packet
<1>5. ASSUME NEW p \in Peers, NEW path \in Paths, NEW bytes \in Sizes,
             exhaust_quota(p, path, bytes)
      PROVE  Kept
  BY <1>5, <1>c DEF exhaust_quota
<1>6. ASSUME NEW p \in Peers, NEW n \in Nonces, NEW f \in Faults \union {"none"},
             handle_payment_signal_client(p, n, f)
      PROVE  Kept
  BY <1>6, <1>f DEF handle_payment_signal_client
<1>7. ASSUME NEW m \in Arrivals, handle_payment_submit(m) PROVE Kept
  <2>1. m.auth.nonce \in Nonces /\ credits' = credits /\ executed' = executed
    BY <1>7, ArrivalFacts DEF handle_payment_submit
  <2>2. CASE r # m.peer
    BY <1>7, <1>f, <2>1, <2>2 DEF handle_payment_submit, TypeOK
  <2>3. CASE r = m.peer
    <3>1. quota'[r] = record_nonce(quota[r], m.auth.nonce)
      BY <1>7, <2>3 DEF handle_payment_submit, TypeOK
    <3>2. /\ quota'[r].used_nonces = quota[r].used_nonces \union {m.auth.nonce}
          /\ quota'[r].payment_count = quota[r].payment_count
      BY <1>q, <2>1, <3>1, RecordFacts, SMTT(30)
    <3>3. credits[r][m.auth.nonce] = 0
      BY <1>7, <2>1, <2>3, CreditOf DEF handle_payment_submit
    <3>4. Paid(r)' = Paid(r)
      BY <2>1, <3>2, <3>3, SMTT(30) DEF Paid
    <3>5. IsFiniteSet(quota'[r].used_nonces)
      BY <3>2, FS_AddElement, SMTT(30) DEF PaidCounted
    <3> QED BY <3>2, <3>4, <3>5 DEF PaidCounted, Kept
  <2> QED BY <2>2, <2>3
<1>8. ASSUME NEW p \in Peers, NEW o \in Outcomes, settle(p, o) PROVE Kept
  <2> DEFINE n == settling[p]
  <2>1. n \in Nonces /\ credits[p][n] = 0 /\ n \in quota[p].used_nonces
    <3>1. settling[p] # NoNonce
      BY <1>8 DEF settle
    <3>2. n \in Nonces
      BY <3>1 DEF TypeOK
    <3> QED BY <3>1, <3>2 DEF CreditInv, CreditRecorded, nonce_is_new
  <2>2. \A k \in Nonces : k # n => /\ credits'[r][k] = credits[r][k]
                                   /\ k \in executed' <=> k \in executed
    <3>1. \A k \in Nonces : k # n => (k \in executed' <=> k \in executed)
      BY <1>8 DEF settle, gateway
    <3>2. \A k \in Nonces : k # n => credits'[r][k] = credits[r][k]
      BY <1>8, SMTT(30) DEF settle, TypeOK
    <3> QED BY <3>1, <3>2
  <2>3. quota[r].used_nonces \subseteq Nonces
    BY <1>q DEF Quota
  <2>4. CASE r # p
    <3>1. quota'[r] = quota[r] /\ credits'[r] = credits[r] /\ executed \subseteq executed'
      BY <1>8, <2>4 DEF settle, gateway, TypeOK
    <3>2. \A k \in Nonces : credits[r][k] = 1 => k \in executed
      <4>1. \A k \in Nonces : credits[r][k] = 1 => credits[r][k] > 0
        BY SMTT(30)
      <4> QED BY <4>1, CreditOf
    <3> QED BY <2>3, <3>1, <3>2, PaidFrame DEF Kept
  <2>5. CASE r = p /\ o # "success"
    <3>1. quota'[r] = quota[r] /\ credits' = credits
      BY <1>8, <2>5 DEF settle
    <3> QED BY <2>1, <2>2, <2>3, <2>5, <3>1, PaidFrame, SMTT(30) DEF Kept
  <2>6. CASE r = p /\ o = "success"
    <3>1. /\ quota'[r] = credit(quota[r], QuotaBytes)
          /\ credits'[r][n] = 1 /\ n \in executed'
      BY <1>8, <2>1, <2>6, SMTT(30) DEF settle, gateway, CountOn, TypeOK
    <3>2. /\ quota'[r].used_nonces = quota[r].used_nonces
          /\ quota'[r].payment_count = quota[r].payment_count + 1
      BY <1>q, <3>1, CreditFacts
    <3>3. Paid(r)' = Paid(r) \union {n} /\ n \notin Paid(r)
      BY <2>1, <2>2, <2>3, <2>6, <3>1, <3>2, SMTT(30) DEF Paid
    <3>4. IsFiniteSet(Paid(r))
      <4>1. Paid(r) \subseteq quota[r].used_nonces
        BY DEF Paid
      <4> QED BY <4>1, FS_Subset DEF PaidCounted
    <3>5. Cardinality(Paid(r)') = Cardinality(Paid(r)) + 1
      BY <3>3, <3>4, FS_AddElement
    <3> QED BY <3>2, <3>5 DEF PaidCounted, Kept
  <2> QED BY <2>4, <2>5, <2>6
<1>9. ASSUME NEW p \in Peers, NEW n \in Nonces, lose_required(p, n) PROVE Kept
  BY <1>9, <1>f DEF lose_required
<1>10. ASSUME NEW m \in submits, lose_submit(m) PROVE Kept
  BY <1>10, <1>f DEF lose_submit
<1>11. CASE UNCHANGED vars
  BY <1>11, <1>f DEF vars, Kept
<1> QED BY <1>1, <1>2, <1>3, <1>4, <1>5, <1>6, <1>7, <1>8, <1>9, <1>10, <1>11
        DEF Next, Kept

(* The handlers never pass on more bytes for a peer than its free grant    *)
(* and the transfers made for it have paid for.                            *)
THEOREM ServiceIsFunded == Spec => []ForwardedIsFunded
<1>1. TypeOK /\ BooksInv /\ PaidCounted => ForwardedIsFunded
  <2> SUFFICES ASSUME TypeOK, BooksInv, PaidCounted, NEW p \in Peers
               PROVE  forwarded[p] <= DefaultQuota + QuotaBytes * Cardinality(Paid(p))
    BY DEF ForwardedIsFunded
  <2> DEFINE g == QuotaBytes * quota[p].payment_count
  <2>1. /\ quota[p].remaining_bytes \in Nat /\ quota[p].total_consumed \in Nat
        /\ quota[p].payment_count \in Nat /\ forwarded[p] \in Nat
    BY DEF TypeOK, Quota
  <2>2. g \in Nat
    BY <2>1, OneMore, QuotaAssumption
  <2>3. /\ quota[p].remaining_bytes + quota[p].total_consumed = DefaultQuota + g
        /\ forwarded[p] <= quota[p].total_consumed
    BY DEF BooksInv, Books
  <2>4. g = QuotaBytes * Cardinality(Paid(p))
    BY DEF PaidCounted
  <2> HIDE DEF g
  <2>5. forwarded[p] <= DefaultQuota + g
    BY <2>1, <2>2, <2>3, QuotaAssumption, SMTT(30)
  <2> QED BY <2>4, <2>5
<1> QED BY <1>1, InitTypeOK, NextTypeOK, InitBooks, NextBooks, InitCredits,
           NextCredits, InitPaid, NextPaid, PTL DEF Spec

-----------------------------------------------------------------------------
(* A peer that stays in the table is unblocked by nothing but the gateway's *)
(* answer to the nonce it is settling, with the transfer made.             *)
THEOREM PaymentUnblocks == Spec => OnlyPaymentUnblocks
<1> DEFINE A == \A p \in present \intersect present' :
                  quota[p].blocked /\ ~ quota'[p].blocked
                    => settling[p] # NoNonce /\ settling[p] \in executed'
<1>1. TypeOK /\ [Next]_vars => [A]_vars
  <2> SUFFICES ASSUME TypeOK, [Next]_vars,
                      NEW r \in present, r \in present',
                      quota[r].blocked, ~ quota'[r].blocked
               PROVE  settling[r] # NoNonce /\ settling[r] \in executed'
    OBVIOUS
  <2>r. r \in Peers /\ quota[r] \in Quota
    BY DEF TypeOK
  <2> DEFINE Goal == settling[r] # NoNonce /\ settling[r] \in executed'
  <2> HIDE DEF Goal
  <2>1. ASSUME NEW p \in Peers, NEW h \in AddedEndpoints, update_peer(p, h) PROVE Goal
    BY <2>1, <2>r DEF update_peer, TypeOK
  <2>2. ASSUME NEW p \in Peers, remove_peer(p) PROVE Goal
    BY <2>2, <2>r DEF remove_peer, TypeOK
  <2>3. ASSUME NEW p \in Peers, set_endpoint(p) PROVE Goal
    BY <2>3 DEF set_endpoint
  <2>c. ASSUME NEW p \in Peers, NEW bytes \in Sizes,
               quota' = [quota EXCEPT ![p] = consume(@, bytes)]
        PROVE  Goal
    <3>1. bytes \in Nat
      BY PaymentAssumption
    <3>2. consume(quota[r], bytes).blocked
      BY <2>r, <3>1, ConsumeFacts
    <3>3. quota'[r] = consume(quota[r], bytes) \/ quota'[r] = quota[r]
      BY <2>c, <2>r DEF TypeOK
    <3> QED BY <3>2, <3>3
  <2>4. ASSUME NEW p \in Peers, NEW path \in Paths, NEW bytes \in Sizes,
               forward_packet(p, path, bytes)
        PROVE  Goal
    BY <2>4, <2>c DEF forward_packet
  <2>5. ASSUME NEW p \in Peers, NEW path \in Paths, NEW bytes \in Sizes,
               exhaust_quota(p, path, bytes)
        PROVE  Goal
    BY <2>5, <2>c DEF exhaust_quota
  <2>6. ASSUME NEW p \in Peers, NEW n \in Nonces, NEW f \in Faults \union {"none"},
               handle_payment_signal_client(p, n, f)
        PROVE  Goal
    BY <2>6 DEF handle_payment_signal_client
  <2>7. ASSUME NEW m \in Arrivals, handle_payment_submit(m) PROVE Goal
    <3>1. m.auth.nonce \in Nonces
      BY ArrivalFacts
    <3>2. record_nonce(quota[r], m.auth.nonce).blocked
      BY <2>r, <3>1, RecordFacts
    <3>3. quota'[r] = record_nonce(quota[r], m.auth.nonce) \/ quota'[r] = quota[r]
      BY <2>7, <2>r DEF handle_payment_submit, TypeOK
    <3> QED BY <3>2, <3>3
  <2>8. ASSUME NEW p \in Peers, NEW o \in Outcomes, settle(p, o) PROVE Goal
    <3>1. r = p /\ o = "success"
      BY <2>8, <2>r DEF settle, TypeOK
    <3> QED BY <2>8, <3>1 DEF settle, gateway, Goal
  <2>9. ASSUME NEW p \in Peers, NEW n \in Nonces, lose_required(p, n) PROVE Goal
    BY <2>9 DEF lose_required
  <2>10. ASSUME NEW m \in submits, lose_submit(m) PROVE Goal
    BY <2>10 DEF lose_submit
  <2>11. CASE UNCHANGED vars
    BY <2>11 DEF vars
  <2> QED BY <2>1, <2>2, <2>3, <2>4, <2>5, <2>6, <2>7, <2>8, <2>9, <2>10, <2>11,
          Zenon DEF Next, Goal
<1> QED BY <1>1, InitTypeOK, NextTypeOK, PTL DEF Spec, OnlyPaymentUnblocks

-----------------------------------------------------------------------------
(* The payment round.                                                      *)

(* Nobody is blocked.                                                      *)
LEMMA InitRound == Init => BlockedHasLiveRound
BY DEF Init, BlockedHasLiveRound

(* What blocks a peer starts a round or excuses it, and what takes a       *)
(* round's packet away puts the next one in its place, or excuses it.      *)
LEMMA NextRound ==
  TypeOK /\ NonceLifecycle /\ BlockedHasLiveRound /\ [Next]_vars
    => BlockedHasLiveRound'
<1> SUFFICES ASSUME TypeOK, NonceLifecycle, BlockedHasLiveRound, [Next]_vars,
                    NEW r \in present', quota'[r].blocked
             PROVE  LiveRound(r)' \/ r \in excused'
  BY DEF BlockedHasLiveRound
<1> USE DEF gatewayVars, wireVars
<1> DEFINE Goal == LiveRound(r)' \/ r \in excused'
<1>r. r \in Peers /\ (r \in present => quota[r] \in Quota)
  BY NextTypeOK DEF TypeOK
<1>b. r \in present /\ quota[r].blocked => LiveRound(r) \/ r \in excused
  BY DEF BlockedHasLiveRound
<1>0. ASSUME r \in present, quota[r].blocked,
             quota'[r].used_nonces = quota[r].used_nonces, settling'[r] = settling[r],
             \A n \in Nonces : <<r, n>> \in required => <<r, n>> \in required',
             \A m \in submits : m.peer = r => m \in submits',
             r \in excused => r \in excused'
      PROVE  Goal
  BY <1>0, <1>b DEF LiveRound, Promising, nonce_is_new
<1> HIDE DEF Goal
<1>1. ASSUME NEW p \in Peers, NEW h \in AddedEndpoints, update_peer(p, h) PROVE Goal
  <2>1. r # p
    BY <1>1, <1>r, NewFacts DEF update_peer, TypeOK
  <2> QED BY <1>0, <1>1, <1>r, <2>1 DEF update_peer, TypeOK
<1>2. ASSUME NEW p \in Peers, remove_peer(p) PROVE Goal
  <2>1. r # p
    BY <1>2 DEF remove_peer
  <2> QED BY <1>0, <1>2, <1>r, <2>1 DEF remove_peer, TypeOK
<1>3. ASSUME NEW p \in Peers, set_endpoint(p) PROVE Goal
  BY <1>0, <1>3 DEF set_endpoint
<1>c. ASSUME NEW p \in Peers, NEW bytes \in Sizes, ~ quota[p].blocked,
             quota' = [quota EXCEPT ![p] = consume(@, bytes)]
      PROVE  /\ quota'[r].used_nonces = quota[r].used_nonces
             /\ r # p => quota'[r] = quota[r]
             /\ consume_allows(quota[p], bytes) => r # p
  <2>1. bytes \in Nat /\ quota[p] \in Quota
    BY PaymentAssumption DEF TypeOK
  <2>2. r # p => quota'[r] = quota[r]
    BY <1>c, <1>r DEF TypeOK
  <2>3. r = p => quota'[r] = consume(quota[p], bytes)
    BY <1>c, <1>r DEF TypeOK
  <2> QED BY <1>c, <2>1, <2>2, <2>3, ConsumeFacts, SMTT(30)
<1>4. ASSUME NEW p \in Peers, NEW path \in Paths, NEW bytes \in Sizes,
             forward_packet(p, path, bytes)
      PROVE  Goal
  <2>1. r # p /\ quota'[r] = quota[r]
    BY <1>c, <1>4 DEF forward_packet, reaches_quota
  <2> QED BY <1>0, <1>4, <2>1 DEF forward_packet
<1>5. ASSUME NEW p \in Peers, NEW path \in Paths, NEW bytes \in Sizes,
             exhaust_quota(p, path, bytes)
      PROVE  Goal
  <2>1. r # p => quota'[r] = quota[r]
    BY <1>c, <1>5 DEF exhaust_quota, reaches_quota
  <2>2. required \subseteq required' /\ excused \subseteq excused'
    BY <1>5 DEF exhaust_quota, send_payment_required
  <2>3. CASE r # p
    BY <1>0, <1>5, <2>1, <2>2, <2>3 DEF exhaust_quota
  <2>4. CASE r = p /\ asks_for_payment(p, path)
    <3>1. \E n \in Nonces : <<r, n>> \in required'
      BY <1>5, <2>4 DEF exhaust_quota, send_payment_required
    <3> QED BY <3>1 DEF Goal, LiveRound
  <2>5. CASE r = p /\ ~ asks_for_payment(p, path)
    BY <1>5, <2>5 DEF exhaust_quota, Goal
  <2> QED BY <2>3, <2>4, <2>5
<1>6. ASSUME NEW p \in Peers, NEW n \in Nonces, NEW f \in Faults \union {"none"},
             handle_payment_signal_client(p, n, f)
      PROVE  Goal
  <2>1. CASE r # p
    <3>1. \A k \in Nonces : <<r, k>> \in required => <<r, k>> \in required'
      BY <1>6, <2>1 DEF handle_payment_signal_client
    <3> QED BY <1>0, <1>6, <3>1 DEF handle_payment_signal_client
  <2>2. CASE r = p /\ f # "none"
    BY <1>6, <2>2 DEF handle_payment_signal_client, Goal
  <2>3. CASE r = p /\ f = "none"
    <3> DEFINE m == [peer |-> p, auth |-> [nonce |-> n, fault |-> f]]
    <3>1. m \in submits' /\ UNCHANGED quota /\ <<p, n>> \in required
      BY <1>6, <2>3 DEF handle_payment_signal_client
    <3>2. nonce_is_new(quota[p], n)
      <4> DEFINE r0 == <<p, n>>
      <4>1. r0 \in required /\ r0[2] = n
        BY <3>1
      <4> HIDE DEF r0
      <4>2. \A a \in signed : a.nonce # n
        BY <4>1 DEF NonceLifecycle
      <4> QED BY <4>2 DEF NonceLifecycle, nonce_is_new
    <3>3. m.peer = r /\ m.auth.fault = "none" /\ m.auth.nonce = n
      BY <2>3
    <3> HIDE DEF m
    <3>4. Promising(m)'
      BY <2>3, <3>1, <3>2, <3>3 DEF Promising, nonce_is_new
    <3> QED BY <3>1, <3>3, <3>4 DEF Goal, LiveRound
  <2> QED BY <2>1, <2>2, <2>3
<1>7. ASSUME NEW m \in Arrivals, handle_payment_submit(m) PROVE Goal
  <2>1. /\ m.peer \in Peers /\ m.auth \in signed /\ m.auth.nonce \in Nonces
        /\ quota[m.peer] \in Quota
    BY ArrivalFacts DEF TypeOK
  <2>2. CASE r # m.peer
    <3>1. quota'[r] = quota[r] /\ settling'[r] = settling[r]
      BY <1>7, <1>r, <2>1, <2>2 DEF handle_payment_submit, TypeOK
    <3> QED BY <1>0, <1>7, <2>2, <3>1 DEF handle_payment_submit
  <2>3. CASE r = m.peer /\ m.auth.fault # "sig"
    <3>1. settling'[r] # NoNonce
      BY <1>7, <2>1, <2>3, PaymentAssumption DEF handle_payment_submit, TypeOK
    <3> QED BY <3>1 DEF Goal, LiveRound
  <2>4. CASE r = m.peer /\ m.auth.fault = "sig"
    <3>1. quota'[r] = record_nonce(quota[r], m.auth.nonce)
      BY <1>7, <2>1, <2>4 DEF handle_payment_submit, TypeOK
    <3>2. /\ quota[r].blocked
          /\ quota'[r].used_nonces = quota[r].used_nonces \union {m.auth.nonce}
      BY <2>1, <2>4, <3>1, RecordFacts, SMTT(30)
    <3>3. UNCHANGED <<present, required, excused, settling>> /\ submits' = submits \ {m}
      BY <1>7, <2>4 DEF handle_payment_submit
    <3>4. ASSUME NEW k \in submits, k.peer = r, Promising(k)
          PROVE  k \in submits' /\ Promising(k)'
      <4>1. k \in Arrivals
        BY DEF NonceLifecycle
      <4>2. k.auth \in signed /\ k.auth.fault # "sig"
        BY <3>4, <4>1, ArrivalFacts DEF Promising
      <4>3. k.auth.nonce # m.auth.nonce
        BY <2>1, <2>4, <4>2 DEF NonceLifecycle
      <4> QED BY <3>2, <3>3, <3>4, <4>3 DEF Promising, nonce_is_new
    <3> QED BY <1>b, <2>4, <3>2, <3>3, <3>4, <1>7
            DEF Goal, LiveRound, handle_payment_submit
  <2> QED BY <2>2, <2>3, <2>4
<1>8. ASSUME NEW p \in Peers, NEW o \in Outcomes, settle(p, o) PROVE Goal
  <2>1. CASE r # p
    <3>1. quota'[r] = quota[r] /\ settling'[r] = settling[r] /\ (r \in excused => r \in excused')
      BY <1>8, <1>r, <2>1 DEF settle, TypeOK
    <3> QED BY <1>0, <1>8, <3>1 DEF settle
  <2>2. CASE r = p /\ o = "success"
    <3>1. quota'[r] = credit(quota[r], QuotaBytes) /\ quota[r] \in Quota
      BY <1>8, <2>2 DEF settle, TypeOK
    <3> QED BY <3>1, CreditFacts
  <2>3. CASE r = p /\ o # "success"
    BY <1>8, <2>3 DEF settle, Goal
  <2> QED BY <2>1, <2>2, <2>3
<1>9. ASSUME NEW p \in Peers, NEW n \in Nonces, lose_required(p, n) PROVE Goal
  <2>1. CASE r # p
    <3>1. \A k \in Nonces : <<r, k>> \in required => <<r, k>> \in required'
      BY <1>9, <2>1 DEF lose_required
    <3> QED BY <1>0, <1>9, <3>1 DEF lose_required
  <2>2. CASE r = p
    BY <1>9, <2>2 DEF lose_required, Goal
  <2> QED BY <2>1, <2>2
<1>10. ASSUME NEW m \in submits, lose_submit(m) PROVE Goal
  <2>1. CASE r # m.peer
    BY <1>0, <1>10, <2>1 DEF lose_submit
  <2>2. CASE r = m.peer /\ Promising(m)
    BY <1>10, <2>2 DEF lose_submit, Goal
  <2>3. CASE r = m.peer /\ ~ Promising(m)
    <3>1. UNCHANGED <<quota, settling, required, excused>> /\ submits' = submits \ {m}
      BY <1>10, <2>3 DEF lose_submit
    <3>2. r \in present
      BY <1>10 DEF lose_submit
    <3>3. \A k \in submits : k.peer = r /\ Promising(k) => k \in submits' /\ Promising(k)'
      BY <2>3, <3>1 DEF Promising, nonce_is_new
    <3> QED BY <1>b, <3>1, <3>2, <3>3 DEF Goal, LiveRound
  <2> QED BY <2>1, <2>2, <2>3
<1>11. ASSUME UNCHANGED vars PROVE Goal
  BY <1>0, <1>11 DEF vars
<1>12. Goal
  BY <1>1, <1>2, <1>3, <1>4, <1>5, <1>6, <1>7, <1>8, <1>9, <1>10, <1>11 DEF Next
<1> QED BY <1>12 DEF Goal

(* A blocked peer has a payment round under way, or the round was broken   *)
(* off by a loss, a fault or the gateway, or nobody could be asked: the    *)
(* handlers forget no peer (handle_payment_submit, settle, and the quota   *)
(* checks of device/mod.rs).                                               *)
THEOREM NobodyIsForgotten == Spec => []BlockedHasLiveRound
BY InitTypeOK, NextTypeOK, InitNonces, NextNonces, InitRound, NextRound, PTL DEF Spec

=============================================================================
