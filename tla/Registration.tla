---------------------------- MODULE Registration ----------------------------
(***************************************************************************)
(* Peer registration on a server (device/http_api.rs): the HTTP thread,    *)
(* the reaper thread and the device, which both threads drive through the  *)
(* UAPI socket.  The inner mutex is held by the HTTP thread from register  *)
(* to its answer, and by the reaper while it removes stale peers; it is    *)
(* not held while the reaper queries the device.                           *)
(*                                                                         *)
(* A UAPI request is queued at the socket and handled in order.  A thread  *)
(* that has waited UAPI_TIMEOUT gives up, but the request it has written   *)
(* stays queued, and the device will handle it.  Time is abstracted to     *)
(* which side of a threshold an age is on.                                 *)
(***************************************************************************)
EXTENDS Naturals, FiniteSets, Sequences

CONSTANTS Keys,      \* WireGuard public keys of clients
          Octets,    \* last octets of the addresses in the pool (2..254)
          Humans,    \* World ID nullifiers
          None,
          human_only,         \* BT_HUMAN_ONLY
          WorldIdConfigured,  \* BT_WORLD_RP_ID is set
          Backlog,   \* bound on the requests queued at the UAPI socket
          MaxLate    \* bound on the requests that outlast UAPI_TIMEOUT

ASSUME RegistrationAssumption ==
  /\ None \notin Keys \union Octets \union Humans
  /\ {human_only, WorldIdConfigured} \subseteq BOOLEAN
  /\ Backlog \in Nat
  /\ MaxLate \in Nat

VARIABLES registered_peers, available_ips, peer_to_octet, used_nullifiers,
          registered_long,  \* peers registered STALE_NEVER_CONNECTED_SECS ago
          server_known,     \* is server_pubkey_cache filled
          http,             \* the HTTP thread
          reaper,           \* the reaper thread
          snapshot,         \* what the device last told the reaper
          late,             \* requests given up so far
          uapi,             \* requests queued at the UAPI socket
          device_peers,     \* Device.peers: each peer's allowed IP
          peers_by_ip,      \* Device.peers_by_ip
          handshake,        \* last_handshake_time_sec of a device peer
          panicked          \* update_peer has panicked

registryVars == <<registered_peers, available_ips, peer_to_octet, registered_long>>
deviceVars == <<device_peers, peers_by_ip, handshake, panicked>>
vars == <<registryVars, used_nullifiers, server_known, http, reaper, snapshot,
          late, uapi, deviceVars>>

Idle == [stage |-> "idle", key |-> None, octet |-> None, reply |-> "none"]
NoPeers == [k \in Keys |-> "absent"]
Asleep == [stage |-> "sleep", key |-> None, todo |-> {}, reply |-> "none"]

Init ==
  /\ registered_peers = {}
  /\ available_ips = Octets
  /\ peer_to_octet = [k \in Keys |-> None]
  /\ used_nullifiers = {}
  /\ registered_long = {}
  /\ server_known = FALSE
  /\ http = Idle
  /\ reaper = Asleep
  /\ snapshot = NoPeers
  /\ late = 0
  /\ uapi = <<>>
  /\ device_peers = [k \in Keys |-> None]
  /\ peers_by_ip = [o \in Octets |-> None]
  /\ handshake = [k \in Keys |-> "none"]
  /\ panicked = FALSE

-----------------------------------------------------------------------------
(* UAPI clients *)

(* Neither thread holds the inner mutex.                                   *)
InnerFree == http.stage \in {"idle", "register"} /\ reaper.stage # "reap"

uapi_send(op, key, octet, from) ==
  /\ Len(uapi) < Backlog
  /\ uapi' = Append(uapi, [op |-> op, key |-> key, octet |-> octet,
                           from |-> from, awaited |-> TRUE])

(* The thread gives up on its request; the request stays where it is.      *)
uapi_forget(from) ==
  uapi' = [i \in DOMAIN uapi |->
             IF uapi[i].from = from THEN [uapi[i] EXCEPT !.awaited = FALSE]
                                    ELSE uapi[i]]

-----------------------------------------------------------------------------
(* The HTTP thread *)

(* The nullifier World answers with for the proof of human h, or None: the *)
(* proof is missing or rejected, the service does not answer or is not     *)
(* configured.                                                             *)
verify_world_proof(h) == IF WorldIdConfigured THEN {h, None} ELSE {None}

(* POST /v1/register with public key k, from human h.  A human-only node   *)
(* records the nullifier, known or not, and releases the inner mutex       *)
(* before it registers the key.  Without a nullifier the answer is 400 and *)
(* nothing changes.                                                        *)
handle_registration_v2(k, h) ==
  /\ http.stage = "idle"
  /\ IF human_only
       THEN /\ InnerFree
            /\ \E nullifier \in verify_world_proof(h) :
                 /\ nullifier # None
                 /\ used_nullifiers' = used_nullifiers \union {nullifier}
       ELSE UNCHANGED used_nullifiers
  /\ http' = [Idle EXCEPT !.stage = "register", !.key = k]
  /\ UNCHANGED <<late, registryVars, server_known, reaper, snapshot, uapi, deviceVars>>

(* The inner mutex is taken; the device is asked for its public key unless *)
(* it is in server_pubkey_cache.                                           *)
handle_registration ==
  /\ http.stage = "register" /\ InnerFree
  /\ http' = [http EXCEPT !.stage = IF server_known THEN "allocate" ELSE "lookup",
                          !.reply = IF server_known THEN "none" ELSE "pending"]
  /\ IF server_known THEN UNCHANGED uapi ELSE uapi_send("get", None, None, "http")
  /\ UNCHANGED <<late, registryVars, used_nullifiers, server_known, reaper, snapshot,
                 deviceVars>>

(* The device has told its public key, or that it has none yet (503).      *)
lookup_done(configured) ==
  /\ http.stage = "lookup" /\ http.reply = "ok"
  /\ server_known' = configured
  /\ http' = IF configured THEN [http EXCEPT !.stage = "allocate", !.reply = "none"]
                           ELSE Idle
  /\ UNCHANGED <<late, registryVars, used_nullifiers, reaper, snapshot, uapi,
                 deviceVars>>

(* The peer has a registration, with its address.                          *)
AlreadyRegistered == http.key \in registered_peers /\ peer_to_octet[http.key] # None

(* 200 with the address the peer has, or 503 when the pool is empty.       *)
answer_at_once ==
  /\ http.stage = "allocate"
  /\ AlreadyRegistered \/ available_ips = {}
  /\ http' = Idle
  /\ UNCHANGED <<registryVars, late, used_nullifiers, server_known, reaper, snapshot,
                 uapi, deviceVars>>

(* Mutant: a registered key is not recognised.                             *)
allocate_again(o) ==
  /\ http.stage = "allocate"
  /\ o \in available_ips
  /\ uapi_send("set", http.key, o, "http")
  /\ http' = [http EXCEPT !.stage = "set", !.octet = o, !.reply = "pending"]
  /\ UNCHANGED <<registryVars, late, used_nullifiers, server_known, reaper, snapshot,
                 deviceVars>>

allocate(o) ==
  /\ http.stage = "allocate"
  /\ ~ AlreadyRegistered
  /\ o \in available_ips
  /\ uapi_send("set", http.key, o, "http")
  /\ http' = [http EXCEPT !.stage = "set", !.octet = o, !.reply = "pending"]
  /\ UNCHANGED <<registryVars, late, used_nullifiers, server_known, reaper, snapshot,
                 deviceVars>>

(* errno=0: commit the registration and answer 200.                        *)
commit_registration ==
  /\ http.stage = "set" /\ http.reply = "ok"
  /\ available_ips' = available_ips \ {http.octet}
  /\ registered_peers' = registered_peers \union {http.key}
  /\ peer_to_octet' = [peer_to_octet EXCEPT ![http.key] = http.octet]
  /\ registered_long' = registered_long \ {http.key}
  /\ http' = Idle
  /\ UNCHANGED <<late, used_nullifiers, server_known, reaper, snapshot, uapi,
                 deviceVars>>

(* UAPI_TIMEOUT: answer 500, change nothing.                               *)
http_timeout ==
  /\ late < MaxLate /\ late' = late + 1
  /\ http.reply = "pending"
  /\ http' = Idle
  /\ uapi_forget("http")
  /\ UNCHANGED <<registryVars, used_nullifiers, server_known, reaper, snapshot,
                 deviceVars>>

-----------------------------------------------------------------------------
(* The reaper thread *)

reaper_query ==
  /\ reaper.stage = "sleep"
  /\ uapi_send("get", None, None, "reaper")
  /\ reaper' = [reaper EXCEPT !.stage = "query", !.reply = "pending"]
  /\ UNCHANGED <<registryVars, late, used_nullifiers, server_known, http, snapshot,
                 deviceVars>>

(* Mutant: peers that are gone from the device are left in the registry.   *)
stale_found_only(k) ==
  /\ k \in registered_peers
  /\ \/ snapshot[k] = "stale"
     \/ snapshot[k] \in {"none", "now"} /\ k \in registered_long

(* What the reaper removes, given what the device said before it took the  *)
(* inner mutex.  A handshake time of 0 counts as no handshake.             *)
stale(k) ==
  /\ k \in registered_peers
  /\ \/ snapshot[k] = "stale"
     \/ snapshot[k] \in {"none", "now"} /\ k \in registered_long
     \/ snapshot[k] = "absent"

(* The next peer, or back to sleep with the inner mutex released and what  *)
(* the device said forgotten.                                              *)
go_on_with(todo) ==
  IF todo = {} THEN reaper' = Asleep /\ snapshot' = NoPeers
               ELSE /\ reaper' = [Asleep EXCEPT !.stage = "reap", !.todo = todo]
                    /\ UNCHANGED snapshot

identify_stale ==
  /\ reaper.stage = "query" /\ reaper.reply = "ok" /\ InnerFree
  /\ go_on_with({k \in Keys : stale(k)})
  /\ UNCHANGED <<registryVars, late, used_nullifiers, server_known, http, uapi,
                 deviceVars>>

uapi_remove_peer(k) == uapi_send("remove", k, None, "reaper")

reaper_remove(k) ==
  /\ reaper.stage = "reap" /\ reaper.key = None
  /\ k \in reaper.todo
  /\ uapi_remove_peer(k)
  /\ reaper' = [reaper EXCEPT !.key = k, !.reply = "pending"]
  /\ UNCHANGED <<registryVars, late, used_nullifiers, server_known, http, snapshot,
                 deviceVars>>

(* Mutant: the address is not given back.                                  *)
commit_removal_leaking ==
  /\ reaper.stage = "reap" /\ reaper.reply = "ok"
  /\ registered_peers' = registered_peers \ {reaper.key}
  /\ peer_to_octet' = [peer_to_octet EXCEPT ![reaper.key] = None]
  /\ registered_long' = registered_long \ {reaper.key}
  /\ go_on_with(reaper.todo \ {reaper.key})
  /\ UNCHANGED <<available_ips, late, used_nullifiers, server_known, http, uapi,
                 deviceVars>>

commit_removal ==
  /\ reaper.stage = "reap" /\ reaper.reply = "ok"
  /\ available_ips' = available_ips \union {peer_to_octet[reaper.key]}
  /\ registered_peers' = registered_peers \ {reaper.key}
  /\ peer_to_octet' = [peer_to_octet EXCEPT ![reaper.key] = None]
  /\ registered_long' = registered_long \ {reaper.key}
  /\ go_on_with(reaper.todo \ {reaper.key})
  /\ UNCHANGED <<late, used_nullifiers, server_known, http, uapi, deviceVars>>

(* A query or a removal took too long: try again in the next round.        *)
reaper_timeout ==
  /\ late < MaxLate /\ late' = late + 1
  /\ reaper.reply = "pending"
  /\ uapi_forget("reaper")
  /\ go_on_with(reaper.todo \ {reaper.key})
  /\ UNCHANGED <<registryVars, used_nullifiers, server_known, http, deviceVars>>

-----------------------------------------------------------------------------
(* The device *)

(* The answer reaches the thread if it is still waiting.                   *)
reply_to(r) ==
  /\ http' = IF r.awaited /\ r.from = "http" THEN [http EXCEPT !.reply = "ok"] ELSE http
  /\ reaper' = IF r.awaited /\ r.from = "reaper" THEN [reaper EXCEPT !.reply = "ok"]
                                                 ELSE reaper

(* What the reaper reads in the answer to get=1: the peers the device has, *)
(* each with the handshake time of its block, if one is printed.  Without  *)
(* a session none is printed; "now" is printed as 0.                       *)
uapi_get_peers ==
  [k \in Keys |-> IF device_peers[k] = None THEN "absent" ELSE handshake[k]]

api_get ==
  /\ uapi # <<>> /\ Head(uapi).op = "get" /\ ~ panicked
  /\ snapshot' = IF Head(uapi).awaited /\ Head(uapi).from = "reaper"
                   THEN uapi_get_peers ELSE snapshot
  /\ reply_to(Head(uapi))
  /\ uapi' = Tail(uapi)
  /\ UNCHANGED <<registryVars, late, used_nullifiers, server_known, deviceVars>>

(* Adding a peer takes its address over from whoever had it.               *)
api_set ==
  /\ uapi # <<>> /\ Head(uapi).op = "set" /\ ~ panicked
  /\ LET r == Head(uapi)
     IN  IF device_peers[r.key] # None
           THEN /\ panicked' = TRUE
                /\ UNCHANGED <<device_peers, peers_by_ip, handshake, http, reaper>>
           ELSE /\ device_peers' = [device_peers EXCEPT ![r.key] = r.octet]
                /\ peers_by_ip' = [peers_by_ip EXCEPT ![r.octet] = r.key]
                /\ handshake' = [handshake EXCEPT ![r.key] = "none"]
                /\ reply_to(r)
                /\ UNCHANGED panicked
  /\ uapi' = Tail(uapi)
  /\ UNCHANGED <<registryVars, late, used_nullifiers, server_known, snapshot>>

(* Mutant: remove=true on a peer that exists updates it instead.           *)
api_remove_ignored ==
  /\ uapi # <<>> /\ Head(uapi).op = "remove" /\ ~ panicked
  /\ reply_to(Head(uapi))
  /\ uapi' = Tail(uapi)
  /\ UNCHANGED <<registryVars, late, used_nullifiers, server_known, snapshot, deviceVars>>

(* Removing a peer that is not there succeeds.                             *)
api_remove ==
  /\ uapi # <<>> /\ Head(uapi).op = "remove" /\ ~ panicked
  /\ LET r == Head(uapi)
     IN  /\ device_peers' = [device_peers EXCEPT ![r.key] = None]
         /\ peers_by_ip' = [o \in Octets |->
                              IF peers_by_ip[o] = r.key THEN None ELSE peers_by_ip[o]]
         /\ handshake' = [handshake EXCEPT ![r.key] = "none"]
         /\ reply_to(r)
  /\ uapi' = Tail(uapi)
  /\ UNCHANGED <<registryVars, late, used_nullifiers, server_known, snapshot, panicked>>

(* A peer completes a handshake; the handshake ages, past STALE_PEER_SECS  *)
(* no sooner than its registration does; the session expires.              *)
handshake_event(k, to) ==
  /\ device_peers[k] # None /\ ~ panicked
  /\ to = "stale" => k \notin registered_peers \ registered_long
  /\ <<handshake[k], to>> \in {<<"none", "now">>, <<"recent", "now">>,
       <<"stale", "now">>, <<"now", "recent">>, <<"recent", "stale">>,
       <<"recent", "none">>, <<"stale", "none">>}
  /\ handshake' = [handshake EXCEPT ![k] = to]
  /\ UNCHANGED <<registryVars, late, used_nullifiers, server_known, http, reaper,
                 snapshot, uapi, device_peers, peers_by_ip, panicked>>

(* STALE_NEVER_CONNECTED_SECS pass after a registration.                   *)
grow_old(k) ==
  /\ k \in registered_peers \ registered_long
  /\ registered_long' = registered_long \union {k}
  /\ UNCHANGED <<registered_peers, available_ips, peer_to_octet, late, used_nullifiers,
                 server_known, http, reaper, snapshot, uapi, deviceVars>>

-----------------------------------------------------------------------------
Next ==
  \/ \E k \in Keys, h \in Humans : handle_registration_v2(k, h)
  \/ handle_registration
  \/ \E configured \in BOOLEAN : lookup_done(configured)
  \/ answer_at_once
  \/ \E o \in Octets : allocate(o)
  \/ commit_registration
  \/ http_timeout
  \/ reaper_query
  \/ identify_stale
  \/ \E k \in Keys : reaper_remove(k)
  \/ commit_removal
  \/ reaper_timeout
  \/ api_get \/ api_set \/ api_remove
  \/ \E k \in Keys, to \in {"none", "now", "recent", "stale"} : handshake_event(k, to)
  \/ \E k \in Keys : grow_old(k)

Spec == Init /\ [][Next]_vars

(* The reaper wakes up, the device serves its socket, the HTTP thread goes *)
(* on.  The reaper gets the inner mutex between two registrations (SF).    *)
Fairness ==
  /\ WF_vars(handle_registration \/ (\E configured \in BOOLEAN : lookup_done(configured))
             \/ answer_at_once \/ (\E o \in Octets : allocate(o)) \/ commit_registration)
  /\ WF_vars(reaper_query \/ (\E k \in Keys : reaper_remove(k)) \/ commit_removal)
  /\ SF_vars(identify_stale)
  /\ WF_vars(api_get \/ api_set \/ api_remove)

FairSpec == Spec /\ Fairness

-----------------------------------------------------------------------------
(* The pool neither loses an address nor gives one out twice, whatever     *)
(* registrations, removals and timeouts come in between: an address is     *)
(* either free or belongs to exactly one registered peer.                  *)
PoolPartition ==
  /\ registered_peers = {k \in Keys : peer_to_octet[k] # None}
  /\ available_ips = Octets \ {peer_to_octet[k] : k \in registered_peers}
  /\ \A k, j \in registered_peers : peer_to_octet[k] = peer_to_octet[j] => k = j

(* While UAPI requests are answered in time, whoever takes the inner mutex *)
(* finds registry and device in agreement: the peers registered are the    *)
(* peers the device has, each reached at the address it was given.         *)
RegistryMatchesDevice ==
  InnerFree /\ late = 0 =>
    \A k \in Keys :
      /\ device_peers[k] = peer_to_octet[k]
      /\ k \in registered_peers => peers_by_ip[peer_to_octet[k]] = k

(* While UAPI requests are answered in time, no registration makes         *)
(* update_peer panic on a key the device already has.                      *)
NoPanicInTime == late = 0 => ~ panicked

(* A registration the reaper should end: its client has been silent for    *)
(* STALE_PEER_SECS, or never connected, or the device has lost the peer.   *)
Abandoned(k) ==
  /\ k \in registered_peers
  /\ \/ handshake[k] = "stale"
     \/ k \in registered_long /\ handshake[k] = "none"
     \/ device_peers[k] = None

(* Every abandoned registration ends, or its client comes back, also when  *)
(* requests time out and are carried out later (run_reaper): until then    *)
(* its address is not free, and a client whose peer the device has lost is *)
(* told 200 for a peer that does not exist.                                *)
AbandonedPeersLeave ==
  \A k \in Keys : Abandoned(k) ~> (~ Abandoned(k) \/ panicked)

-----------------------------------------------------------------------------
(* What comments say of this code, and the code does not do.               *)

(* handle_registration's check "prevents update_peer panic" (P0-1 fix).    *)
NoPanic == ~ panicked

(* "10 min for peers that never handshaked": the reaper takes for stale no *)
(* peer registered less than ten minutes ago, and none the device reports  *)
(* a handshake for within the last second.                                 *)
OnlyIdleReaped ==
  \A k \in reaper.todo : k \in registered_long /\ snapshot[k] # "now"

=============================================================================
