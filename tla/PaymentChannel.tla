--------------------------- MODULE PaymentChannel ---------------------------
(***************************************************************************)
(* The pay-per-use loop of a server: the quota checks in the three packet  *)
(* handlers of device/mod.rs, the PaymentRequired / PaymentSubmit exchange *)
(* with the clients through the tunnel, and settlement at the gateway.     *)
(*                                                                         *)
(* A handler runs with the peer mutex and the device read lock held.  It   *)
(* is one step, except that handle_payment_submit keeps both locks while   *)
(* it waits for the gateway: settling[p] is the nonce it waits for.        *)
(* Tunnel packets may be lost and reordered.  The server does not check    *)
(* that it asked for a nonce, nor whom: an authorization that was signed   *)
(* may reach the handler any number of times, from the peer that was asked *)
(* for it, the same one added again, or another one.                       *)
(* PaymentAccepted is only logged by the client and is left out.           *)
(***************************************************************************)
EXTENDS BandwidthQuota, FiniteSets

CONSTANTS Peers,
          V4Peers,       \* peers whose first allowed IP is an IPv4 address
          NoNonce,       \* settling[p] when no settlement is in progress
          Sizes,         \* packet lengths
          Paths,         \* subset of {"in_v4", "in_v6", "out"}
          AddedEndpoints,\* subset of BOOLEAN: update_peer's endpoint is Some
          Faults,        \* subset of {"to", "value", "sig"}
          Outcomes,      \* subset of {"success", "rejected", "error", "late"}
          Lossy          \* may tunnel packets be lost

ASSUME PaymentAssumption ==
  /\ V4Peers \subseteq Peers
  /\ NoNonce \notin Nonces
  /\ Sizes \subseteq Nat
  /\ AddedEndpoints \subseteq BOOLEAN
  /\ Lossy \in BOOLEAN

VARIABLES present,   \* Device.peers
          quota,     \* Peer.quota
          endpoint,  \* is Peer.endpoint.addr known
          settling,  \* nonce a handler is settling with peer p locked
          required,  \* PaymentRequired packets on their way to the clients
          submits,   \* PaymentSubmit packets on their way to the server
          drawn,     \* nonces the server has drawn
          signed,    \* authorizations the clients have signed
          executed,  \* nonces whose transfer the gateway has made
          again,     \* nonces of which it has confirmed more than that
          credits,   \* history: credits the peer, as it is, was given for a nonce
          total,     \* history: credits given for a nonce, to whomever
          forwarded, \* history: bytes passed on for the peer since it was added
          excused    \* history: blocked peers whose payment round was broken off

gatewayVars == <<executed, again, credits, total>>
wireVars == <<required, submits, drawn, signed>>
vars == <<present, quota, endpoint, settling, wireVars, gatewayVars, forwarded,
          excused>>

(* An authorization: fault is the first check of handle_payment_submit,    *)
(* nonce replay apart, that it fails.                                      *)
Authorization == [nonce : Nonces, fault : Faults \union {"none"}]
Submit == [peer : Peers, auth : Authorization]

Init ==
  /\ present = {}
  /\ quota = [p \in Peers |-> new(DefaultQuota)]
  /\ endpoint = [p \in Peers |-> FALSE]
  /\ settling = [p \in Peers |-> NoNonce]
  /\ required = {}
  /\ submits = {}
  /\ drawn = {} /\ signed = {}
  /\ executed = {} /\ again = {}
  /\ credits = [p \in Peers |-> [n \in Nonces |-> 0]]
  /\ total = [n \in Nonces |-> 0]
  /\ forwarded = [p \in Peers |-> 0]
  /\ excused = {}

-----------------------------------------------------------------------------
(* Peer table.  update_peer runs under the device write lock, so no        *)
(* handler is waiting for the gateway.                                     *)

NoHandlerRuns == \A p \in Peers : settling[p] = NoNonce

update_peer(p, has_endpoint) ==
  /\ p \notin present
  /\ NoHandlerRuns
  /\ present' = present \union {p}
  /\ quota' = [quota EXCEPT ![p] = new(DefaultQuota)]
  /\ endpoint' = [endpoint EXCEPT ![p] = has_endpoint]
  /\ excused' = excused \ {p}
  /\ UNCHANGED <<settling, wireVars, gatewayVars, forwarded>>

(* With the peer go the nonces it has used and its session keys: what its  *)
(* client had on the wire can no longer be decrypted.                      *)
remove_peer(p) ==
  /\ p \in present
  /\ NoHandlerRuns
  /\ present' = present \ {p}
  /\ quota' = [quota EXCEPT ![p] = new(DefaultQuota)]
  /\ endpoint' = [endpoint EXCEPT ![p] = FALSE]
  /\ submits' = {m \in submits : m.peer # p}
  /\ credits' = [credits EXCEPT ![p] = [n \in Nonces |-> 0]]
  /\ forwarded' = [forwarded EXCEPT ![p] = 0]
  /\ excused' = excused \ {p}
  /\ UNCHANGED <<settling, required, drawn, signed, executed, again, total>>

(* A handshake packet from the client: the UDP handler learns its address. *)
set_endpoint(p) ==
  /\ p \in present
  /\ settling[p] = NoNonce
  /\ endpoint' = [endpoint EXCEPT ![p] = TRUE]
  /\ UNCHANGED <<present, quota, settling, wireVars, gatewayVars, forwarded,
                 excused>>

-----------------------------------------------------------------------------
(* Data packets.  Blocked peers' packets are dropped without a trace.      *)

(* Does the path ask the client for a payment when the quota runs out?     *)
(* IPv6 inbound never does, outbound only if an endpoint is known, and     *)
(* send_payment_required gives up unless the peer's first IP is IPv4.  A   *)
(* connected socket's handler does as the anonymous one does.              *)
asks_for_payment(p, path) ==
  /\ p \in V4Peers
  /\ path = "in_v4" \/ (path = "out" /\ endpoint[p])

(* The handlers reach the quota for an unblocked peer whose mutex is free. *)
(* An inbound packet decrypts only after a handshake.                      *)
reaches_quota(p, path) ==
  /\ p \in present
  /\ settling[p] = NoNonce
  /\ ~ quota[p].blocked
  /\ path # "out" => endpoint[p]

forward_packet(p, path, bytes) ==
  /\ reaches_quota(p, path)
  /\ consume_allows(quota[p], bytes)
  /\ quota' = [quota EXCEPT ![p] = consume(@, bytes)]
  /\ forwarded' = [forwarded EXCEPT ![p] = @ + bytes]
  /\ UNCHANGED <<present, endpoint, settling, wireVars, gatewayVars, excused>>

(* The nonce is random: it has never been drawn before.                    *)
send_payment_required(p) ==
  \E n \in Nonces \ drawn :
    /\ drawn' = drawn \union {n}
    /\ required' = required \union {<<p, n>>}

(* Mutant: no request when the packet burns the rest of the quota.         *)
exhaust_quota_silent(p, path, bytes) ==
  /\ reaches_quota(p, path)
  /\ ~ consume_allows(quota[p], bytes)
  /\ quota' = [quota EXCEPT ![p] = consume(@, bytes)]
  /\ IF asks_for_payment(p, path) /\ quota[p].remaining_bytes = 0
       THEN send_payment_required(p)
       ELSE UNCHANGED <<drawn, required>>
  /\ UNCHANGED <<present, endpoint, settling, submits, signed, gatewayVars,
                 forwarded, excused>>

exhaust_quota(p, path, bytes) ==
  /\ reaches_quota(p, path)
  /\ ~ consume_allows(quota[p], bytes)
  /\ quota' = [quota EXCEPT ![p] = consume(@, bytes)]
  /\ IF asks_for_payment(p, path)
       THEN send_payment_required(p) /\ UNCHANGED excused
       ELSE /\ excused' = excused \union {p}
            /\ UNCHANGED <<drawn, required>>
  /\ UNCHANGED <<present, endpoint, settling, submits, signed, gatewayVars,
                 forwarded>>

-----------------------------------------------------------------------------
(* The client signs every request it gets and submits the authorization.   *)
handle_payment_signal_client(p, n, fault) ==
  LET a == [nonce |-> n, fault |-> fault]
  IN  /\ <<p, n>> \in required
      /\ required' = required \ {<<p, n>>}
      /\ signed' = signed \union {a}
      /\ submits' = IF p \in present
                      THEN submits \union {[peer |-> p, auth |-> a]} ELSE submits
      /\ excused' = IF fault = "none" THEN excused ELSE excused \union {p}
      /\ UNCHANGED <<present, quota, endpoint, settling, drawn, gatewayVars,
                     forwarded>>

(* What the handler may be given: the submissions on their way, and any    *)
(* authorization signed before, over the session of any peer.              *)
Arrivals == [peer : present, auth : signed]

(* Mutant: no nonce replay check.                                          *)
handle_payment_submit_replay(m) ==
  /\ m \in Arrivals
  /\ settling[m.peer] = NoNonce
  /\ m.auth.fault \notin {"to", "value"}
  /\ quota' = [quota EXCEPT ![m.peer] = record_nonce(@, m.auth.nonce)]
  /\ settling' = IF m.auth.fault = "sig" THEN settling
                 ELSE [settling EXCEPT ![m.peer] = m.auth.nonce]
  /\ submits' = submits \ {m}
  /\ UNCHANGED <<present, endpoint, required, drawn, signed, gatewayVars,
                 forwarded, excused>>

(* Up to the call of settle.  A wrong recipient or amount and a nonce this *)
(* peer has used before change nothing; the nonce is recorded before the   *)
(* signature is verified.                                                  *)
handle_payment_submit(m) ==
  /\ m \in Arrivals
  /\ settling[m.peer] = NoNonce
  /\ m.auth.fault \notin {"to", "value"}
  /\ nonce_is_new(quota[m.peer], m.auth.nonce)
  /\ quota' = [quota EXCEPT ![m.peer] = record_nonce(@, m.auth.nonce)]
  /\ settling' = IF m.auth.fault = "sig" THEN settling
                 ELSE [settling EXCEPT ![m.peer] = m.auth.nonce]
  /\ submits' = submits \ {m}
  /\ UNCHANGED <<present, endpoint, required, drawn, signed, gatewayVars,
                 forwarded, excused>>

(* What the gateway does: the transfer is made once ("late": its answer    *)
(* does not come within the ten seconds of the timeout), but a success may *)
(* be reported for one that had been made.                                 *)
gateway(n, outcome) ==
  /\ executed' = IF outcome \in {"success", "late"} THEN executed \union {n}
                 ELSE executed
  /\ again' = IF outcome = "success" /\ n \in executed THEN again \union {n}
              ELSE again

(* None, one, or more.                                                     *)
CountOn(k) == IF k = 0 THEN 1 ELSE 2

(* Mutant: a rejected settlement is credited like an accepted one.         *)
settle_unchecked(p, outcome) ==
  /\ settling[p] # NoNonce
  /\ settling' = [settling EXCEPT ![p] = NoNonce]
  /\ gateway(settling[p], outcome)
  /\ IF outcome \in {"success", "rejected"}
       THEN /\ quota' = [quota EXCEPT ![p] = credit(@, QuotaBytes)]
            /\ credits' = [credits EXCEPT ![p][settling[p]] = CountOn(@)]
            /\ total' = [total EXCEPT ![settling[p]] = CountOn(@)]
            /\ excused' = excused \ {p}
       ELSE /\ excused' = excused \union {p}
            /\ UNCHANGED <<quota, credits, total>>
  /\ UNCHANGED <<present, endpoint, wireVars, forwarded>>

(* The gateway's answer, or none in time: only a success is credited.      *)
settle(p, outcome) ==
  /\ settling[p] # NoNonce
  /\ settling' = [settling EXCEPT ![p] = NoNonce]
  /\ gateway(settling[p], outcome)
  /\ IF outcome = "success"
       THEN /\ quota' = [quota EXCEPT ![p] = credit(@, QuotaBytes)]
            /\ credits' = [credits EXCEPT ![p][settling[p]] = CountOn(@)]
            /\ total' = [total EXCEPT ![settling[p]] = CountOn(@)]
            /\ excused' = excused \ {p}
       ELSE /\ excused' = excused \union {p}
            /\ UNCHANGED <<quota, credits, total>>
  /\ UNCHANGED <<present, endpoint, wireVars, forwarded>>

-----------------------------------------------------------------------------
(* UDP loses packets, and nothing in the code sends them again.            *)
lose_required(p, n) ==
  /\ Lossy
  /\ <<p, n>> \in required
  /\ required' = required \ {<<p, n>>}
  /\ excused' = excused \union {p}
  /\ UNCHANGED <<present, quota, endpoint, settling, submits, drawn, signed,
                 gatewayVars, forwarded>>

(* Could this submission pay for its peer's next quota?                    *)
Promising(m) == m.auth.fault = "none" /\ nonce_is_new(quota[m.peer], m.auth.nonce)

lose_submit(m) ==
  /\ Lossy
  /\ m \in submits
  /\ submits' = submits \ {m}
  /\ excused' = IF Promising(m) THEN excused \union {m.peer} ELSE excused
  /\ UNCHANGED <<present, quota, endpoint, settling, required, drawn, signed,
                 gatewayVars, forwarded>>

-----------------------------------------------------------------------------
Next ==
  \/ \E p \in Peers, has_endpoint \in AddedEndpoints : update_peer(p, has_endpoint)
  \/ \E p \in Peers : remove_peer(p)
  \/ \E p \in Peers : set_endpoint(p)
  \/ \E p \in Peers, path \in Paths, bytes \in Sizes : forward_packet(p, path, bytes)
  \/ \E p \in Peers, path \in Paths, bytes \in Sizes : exhaust_quota(p, path, bytes)
  \/ \E p \in Peers, n \in Nonces, fault \in Faults \union {"none"} :
        handle_payment_signal_client(p, n, fault)
  \/ \E m \in Arrivals : handle_payment_submit(m)
  \/ \E p \in Peers, outcome \in Outcomes : settle(p, outcome)
  \/ \E p \in Peers, n \in Nonces : lose_required(p, n)
  \/ \E m \in submits : lose_submit(m)

Spec == Init /\ [][Next]_vars

(* The event loop keeps serving readable sockets and the settlement call   *)
(* returns within its timeout.                                             *)
Fairness ==
  /\ \A p \in Peers :
       /\ WF_vars(\E n \in Nonces : handle_payment_signal_client(p, n, "none"))
       /\ WF_vars(\E m \in submits : m.peer = p /\ handle_payment_submit(m))
       /\ WF_vars(\E outcome \in Outcomes : settle(p, outcome))

FairSpec == Spec /\ Fairness

-----------------------------------------------------------------------------
(* Type invariant of the server's peer table, the wire and the histories.  *)
TypeOK ==
  /\ present \subseteq Peers
  /\ quota \in [Peers -> Quota]
  /\ endpoint \in [Peers -> BOOLEAN]
  /\ settling \in [Peers -> Nonces \union {NoNonce}]
  /\ required \subseteq Peers \X Nonces
  /\ submits \subseteq Submit
  /\ drawn \subseteq Nonces /\ signed \subseteq Authorization
  /\ executed \subseteq Nonces /\ again \subseteq Nonces
  /\ credits \in [Peers -> [Nonces -> 0..2]]
  /\ total \in [Nonces -> 0..2]
  /\ forwarded \in [Peers -> Nat]
  /\ excused \subseteq Peers

(* No sequence of consume and credit calls creates or destroys bytes: what *)
(* is left and what was consumed add up to the grants (quota.rs).          *)
QuotaConserved ==
  \A p \in Peers :
    quota[p].remaining_bytes + quota[p].total_consumed
      = DefaultQuota + QuotaBytes * quota[p].payment_count

(* Payments that were credited to peer p and that the gateway has made.    *)
Paid(p) == {n \in quota[p].used_nonces : credits[p][n] = 1 /\ n \in executed}

(* The handlers pass on no more bytes for a peer than its free grant and   *)
(* the transfers really made for the authorizations it submitted pay for.  *)
ForwardedIsFunded ==
  \A p \in Peers :
    forwarded[p] <= DefaultQuota + QuotaBytes * Cardinality(Paid(p))

(* However often an authorization is received, from the same peer, from    *)
(* others at the same time or from one that was removed and added again,   *)
(* it buys quota only if its transfer was made; a peer, while it is in the *)
(* table, gets it once; and all peers together get it once, unless the     *)
(* gateway confirms a transfer more than once (the nonces are kept per     *)
(* Peer: nothing else in handle_payment_submit stands in the way).         *)
CreditedOnce ==
  \A n \in Nonces :
    /\ total[n] > 0 => n \in executed
    /\ \A p \in Peers : credits[p][n] <= 1
    /\ n \notin again => total[n] <= 1

(* The life of a nonce: it is drawn, asked for, signed once, and only then *)
(* submitted, by whomever, and recorded.                                   *)
NonceLifecycle ==
  /\ \A r \in required : r[2] \in drawn /\ \A a \in signed : a.nonce # r[2]
  /\ \A q, r \in required : q[2] = r[2] => q = r
  /\ \A a \in signed : a.nonce \in drawn
  /\ \A a, b \in signed : a.nonce = b.nonce => a = b
  /\ submits \subseteq Arrivals
  /\ \A p \in Peers : \A n \in quota[p].used_nonces : \E a \in signed : a.nonce = n

(* A nonce is recorded before it is settled, and unless the peer has       *)
(* recorded it as used, it has bought that peer nothing; the peers in the  *)
(* table alone have bought anything.                                       *)
CreditRecorded ==
  \A p \in Peers :
    /\ settling[p] # NoNonce => /\ ~ nonce_is_new(quota[p], settling[p])
                                /\ credits[p][settling[p]] = 0
    /\ \A n \in Nonces : /\ nonce_is_new(quota[p], n) => credits[p][n] = 0
                         /\ credits[p][n] > 0 => total[n] > 0
    /\ p \notin present => /\ settling[p] = NoNonce
                           /\ \A n \in Nonces : credits[p][n] = 0

(* A peer is cut off only when nothing is left of its quota.               *)
BlockedIsSpent ==
  \A p \in Peers : quota[p].blocked => quota[p].remaining_bytes = 0

(* A payment round that can still unblock p: a request or a fresh          *)
(* submission is on the wire, or the gateway is being asked.               *)
LiveRound(p) ==
  \/ \E n \in Nonces : <<p, n>> \in required
  \/ \E m \in submits : m.peer = p /\ Promising(m)
  \/ settling[p] # NoNonce

(* A blocked peer always has a payment round under way, unless a packet of *)
(* the round was lost, its submission was at fault, the gateway did not    *)
(* accept it, or the quota ran out on a path that sends no request (IPv6   *)
(* inbound, outbound without endpoint, a peer without IPv4 address).       *)
BlockedHasLiveRound ==
  \A p \in present : quota[p].blocked => LiveRound(p) \/ p \in excused

(* A peer that stays in the table is unblocked only by the gateway's       *)
(* answer to the nonce being settled for it, its transfer made.            *)
OnlyPaymentUnblocks ==
  [][\A p \in present \intersect present' :
       quota[p].blocked /\ ~ quota'[p].blocked
         => settling[p] # NoNonce /\ settling[p] \in executed']_vars

(* A peer that was cut off is served again (or removed), unless its        *)
(* payment round was broken off: a datagram lost, a submission or a        *)
(* settlement refused, no address to send the request to.                  *)
ServedAgain ==
  \A p \in Peers :
    (p \in present /\ quota[p].blocked)
      ~> (~ (p \in present /\ quota[p].blocked) \/ p \in excused)

=============================================================================
