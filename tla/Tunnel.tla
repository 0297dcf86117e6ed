------------------------------- MODULE Tunnel -------------------------------
(***************************************************************************)
(* Two WireGuard endpoints (noise/mod.rs, noise/handshake.rs) over a       *)
(* network that loses, repeats and reorders: the handshake with its two    *)
(* outgoing initiations, the ring of sessions and the choice of the        *)
(* current one, and the queue of packets that wait for a session.          *)
(*                                                                         *)
(* Cryptography is abstracted to identity: an initiation is known by its   *)
(* sender and timestamp, a session's keys by the initiation they come      *)
(* from, and what was not made with the right keys does not decrypt.       *)
(* Packet counters are ReplayWindow's subject; here a data packet arrives  *)
(* once or never.  Any timer that the handshake state allows may be due.   *)
(***************************************************************************)
EXTENDS Integers, Sequences

CONSTANTS Ends,             \* the two endpoints
          N_SESSIONS,       \* slots in the ring of sessions
          IndexCount,       \* cyclic session indices (2^8 in the code)
          MAX_QUEUE_DEPTH,
          Payloads,         \* packets read from the interfaces
          None, Expired,    \* not a session or handshake; HandshakeState::Expired
          MaxStamp,         \* bound on the initiations of each endpoint
          MaxTime           \* bound on the TimeCurrent of each endpoint

ASSUME TunnelAssumption ==
  /\ \E e, f \in Ends : e # f /\ Ends = {e, f}
  /\ {N_SESSIONS, IndexCount} \subseteq Nat \ {0} /\ IndexCount % N_SESSIONS = 0
  /\ MAX_QUEUE_DEPTH \in Nat /\ MaxStamp \in [Ends -> Nat] /\ MaxTime \in [Ends -> Nat]
  /\ "keepalive" \notin Payloads
  /\ None # Expired
  /\ \A x \in {None, Expired} :
       /\ x \notin [index : Nat, stamp : Nat]
       /\ x \notin [key : Ends \X Nat, receiving : Nat, sending : Nat]

VARIABLES tunn,       \* the Tunn of each endpoint
          inits,      \* handshake initiations sent
          responses,  \* handshake responses sent
          data,       \* data packets in flight
          taken,      \* history: packets read from the interface
          delivered,  \* history: packets written to the other interface
          made        \* history: sessions each endpoint has created

vars == <<tunn, inits, responses, data, taken, delivered, made>>

Keepalive == "keepalive"
Slots == 0..(N_SESSIONS - 1)
NoIndex == -N_SESSIONS     \* current, before there was a session: slot 0
Slot(index) == index % N_SESSIONS

peer(e) == CHOOSE f \in Ends : f # e

Init ==
  /\ tunn = [e \in Ends |->
       [state |-> None, previous |-> None, next_index |-> 0,
        stamp |-> 0, last_handshake_timestamp |-> 0,
        sessions |-> [s \in Slots |-> None], session_timers |-> [s \in Slots |-> 0],
        current |-> NoIndex, packet_queue |-> <<>>, time |-> 0]]
  /\ inits = {} /\ responses = {} /\ data = {}
  /\ taken = {} /\ delivered = {}
  /\ made = [e \in Ends |-> {}]

-----------------------------------------------------------------------------
(* Operators on one Tunn *)

is_in_progress(t) == t.state \notin {None, Expired}

inc_index(t) == (t.next_index + 1) % IndexCount

(* The session encapsulate would use.                                      *)
CurrentSession(t) == t.sessions[Slot(t.current)]

queue_packet(t, p) ==
  IF Len(t.packet_queue) < MAX_QUEUE_DEPTH
    THEN [t EXCEPT !.packet_queue = Append(@, p)] ELSE t

(* A new initiation; the one in progress becomes the previous one.         *)
initiate(t) ==
  [t EXCEPT !.previous = t.state,
            !.state = [index |-> inc_index(t), stamp |-> t.stamp + 1],
            !.next_index = inc_index(t),
            !.stamp = @ + 1]

store_session(t, session) ==
  [t EXCEPT !.sessions[Slot(session.receiving)] = session,
            !.session_timers[Slot(session.receiving)] = t.time]

set_current_session(t, index) ==
  IF t.current # index /\ (\/ CurrentSession(t) = None
                           \/ t.session_timers[Slot(index)] >= t.session_timers[Slot(t.current)])
    THEN [t EXCEPT !.current = index] ELSE t

(* Packets encrypted with a session, as the network carries them.          *)
Sealed(e, session, packets) ==
  {[to |-> peer(e), key |-> session.key, receiver |-> session.sending, packet |-> p] :
     p \in packets}

Elements(q) == {q[i] : i \in DOMAIN q}

(* n packets from the front of the queue to its back.                      *)
Rotated(q, n) == [i \in DOMAIN q |-> q[((i - 1 + n) % Len(q)) + 1]]

(* Mutant: queued packets are sent and kept.                               *)
flush_keeping(e, t) ==
  [tunn |-> t,
   sent |-> IF CurrentSession(t) = None THEN {}
            ELSE Sealed(e, CurrentSession(t), Elements(t.packet_queue))]

(* Mutant: only a session empties the queue; else it is left alone.        *)
flush_patient(e, t) ==
  IF CurrentSession(t) # None
    THEN [tunn |-> [t EXCEPT !.packet_queue = <<>>],
          sent |-> Sealed(e, CurrentSession(t), Elements(t.packet_queue))]
    ELSE [tunn |-> t, sent |-> {}]

(* The handler's loop over decapsulate with an empty datagram.  Without a  *)
(* session each packet taken from the front is queued again at the back,   *)
(* until no initiation is left to be sent.                                 *)
flush(e, t) ==
  IF CurrentSession(t) # None
    THEN [tunn |-> [t EXCEPT !.packet_queue = <<>>],
          sent |-> Sealed(e, CurrentSession(t), Elements(t.packet_queue))]
  ELSE IF t.packet_queue = <<>>
    THEN [tunn |-> t, sent |-> {}]
  ELSE IF is_in_progress(t)
    THEN [tunn |-> [t EXCEPT !.packet_queue = Rotated(@, 1)], sent |-> {}]
  ELSE   [tunn |-> initiate([t EXCEPT !.packet_queue = Rotated(@, 2)]), sent |-> {}]

-----------------------------------------------------------------------------
(* Sending *)

(* What an endpoint has become is on the network: its initiation, if new.  *)
Become(e, t) ==
  /\ t.stamp <= MaxStamp[e]
  /\ tunn' = [tunn EXCEPT ![e] = t]
  /\ inits' = IF t.stamp > tunn[e].stamp
                THEN inits \union {[from |-> e, stamp |-> t.stamp, index |-> t.state.index]}
                ELSE inits

(* With a session the packet is sent, else it is queued and a handshake is *)
(* started unless one is in progress.                                      *)
encapsulate(e, p) ==
  LET t == tunn[e]
      queued == queue_packet(t, p)
  IN  IF CurrentSession(t) # None
        THEN data' = data \union Sealed(e, CurrentSession(t), {p}) /\ UNCHANGED <<tunn, inits>>
        ELSE Become(e, IF is_in_progress(t) THEN queued ELSE initiate(queued)) /\ UNCHANGED data

send_packet(e, p) ==
  /\ p \in Payloads \ taken
  /\ taken' = taken \union {p}
  /\ encapsulate(e, p)
  /\ UNCHANGED <<responses, delivered, made>>

-----------------------------------------------------------------------------
(* Receiving *)

after(stamp, last) == stamp > last

(* The responder's session from initiation m.                              *)
Accepted(t, m) ==
  [key |-> <<m.from, m.stamp>>, receiving |-> inc_index(t), sending |-> m.index]

(* Mutant: the responder uses its session at once.                         *)
answer_and_use(t, m) ==
  set_current_session(
    store_session([t EXCEPT !.last_handshake_timestamp = m.stamp, !.previous = t.state,
                            !.state = None, !.next_index = inc_index(t)],
                  Accepted(t, m)),
    inc_index(t))

(* Its session is stored, but does not become the current one.  Our own    *)
(* initiation, if any, becomes the previous one.                           *)
answer(t, m) ==
  store_session([t EXCEPT !.last_handshake_timestamp = m.stamp, !.previous = t.state,
                          !.state = None, !.next_index = inc_index(t)],
                Accepted(t, m))

(* An initiation newer than the last one is answered.                      *)
handle_handshake_init(e, m) ==
  LET session == Accepted(tunn[e], m)
      done == flush(e, answer(tunn[e], m))
  IN  /\ m.from # e
      /\ after(m.stamp, tunn[e].last_handshake_timestamp)
      /\ Become(e, done.tunn)
      /\ data' = data \union done.sent
      /\ responses' = responses \union
           {[to |-> m.from, key |-> session.key, index |-> session.receiving,
             receiver |-> m.index]}
      /\ made' = [made EXCEPT ![e] = @ \union {session}]
      /\ UNCHANGED <<taken, delivered>>

(* Is h the initiation with that index?                                    *)
Awaits(h, index) == h \notin {None, Expired} /\ h.index = index

(* Mutant: an answered initiation still waits for its response.            *)
settle_not(t, index) == t

(* The initiation that was answered waits no longer.                       *)
settle(t, index) ==
  IF Awaits(t.state, index) THEN [t EXCEPT !.state = None]
                            ELSE [t EXCEPT !.previous = None]

(* Mutant: the last index handed out, not the answered initiation's.       *)
Completed_last(t, m) ==
  [key |-> m.key, receiving |-> t.next_index, sending |-> m.index]

(* The initiator's session from response m.                                *)
Completed(t, m) ==
  [key |-> m.key, receiving |-> m.receiver, sending |-> m.index]

(* A response to the initiation in progress, or to the previous one, made  *)
(* with that initiation's keys: its session becomes the current one and a  *)
(* keepalive confirms it.                                                  *)
handle_handshake_response(e, m) ==
  LET t == tunn[e]
      h == IF Awaits(t.state, m.receiver) THEN t.state ELSE t.previous
      session == Completed(t, m)
      stored == store_session(settle(t, m.receiver), session)
      done == flush(e, set_current_session(stored, session.receiving))
  IN  /\ m.to = e
      /\ Awaits(h, m.receiver)
      /\ m.key = <<e, h.stamp>>
      /\ Become(e, done.tunn)
      /\ data' = data \union done.sent \union Sealed(e, session, {Keepalive})
      /\ made' = [made EXCEPT ![e] = @ \union {session}]
      /\ UNCHANGED <<responses, taken, delivered>>

(* A data packet for the session in its slot.  It confirms the session.    *)
handle_data(e, m) ==
  LET session == tunn[e].sessions[Slot(m.receiver)]
  IN  /\ m.to = e
      /\ session # None
      /\ session.receiving = m.receiver /\ session.key = m.key
      /\ tunn' = [tunn EXCEPT ![e] = set_current_session(@, m.receiver)]
      /\ delivered' = delivered \union ({m.packet} \ {Keepalive})
      /\ data' = data \ {m}
      /\ UNCHANGED <<inits, responses, taken, made>>

-----------------------------------------------------------------------------
(* update_timers *)

(* REJECT_AFTER_TIME: sessions older than the cutoff are dropped.          *)
update_session_timers(t, cutoff) ==
  LET old == {s \in Slots : t.session_timers[s] < cutoff}
  IN  [t EXCEPT !.sessions = [s \in Slots |-> IF s \in old THEN None ELSE @[s]],
                !.session_timers = [s \in Slots |-> IF s \in old THEN t.time ELSE @[s]]]

(* REKEY_ATTEMPT_TIME or 3 * REJECT_AFTER_TIME: everything is dropped.     *)
set_expired(t) ==
  [t EXCEPT !.state = Expired, !.previous = Expired,
            !.sessions = [s \in Slots |-> None], !.packet_queue = <<>>]

(* Time passes and old sessions are dropped.  Unless the connection has    *)
(* expired, it then expires, or sends an initiation (again, if one is in   *)
(* progress), or, with none in progress, a keepalive, which waits for a    *)
(* session like any other packet; or nothing is due.                       *)
update_timers(e, time, cutoff) ==
  LET t == update_session_timers([tunn[e] EXCEPT !.time = time], cutoff)
      queued == queue_packet(t, Keepalive)
  IN  /\ time >= tunn[e].time /\ cutoff <= time
      /\ \/ Become(e, t) /\ UNCHANGED data
         \/ t.state # Expired /\ Become(e, set_expired(t)) /\ UNCHANGED data
         \/ t.state # Expired /\ Become(e, initiate(t)) /\ UNCHANGED data
         \/ /\ t.state # Expired /\ ~ is_in_progress(t)
            /\ IF CurrentSession(t) # None
                 THEN /\ Become(e, t)
                      /\ data' = data \union Sealed(e, CurrentSession(t), {Keepalive})
                 ELSE Become(e, initiate(queued)) /\ UNCHANGED data
      /\ UNCHANGED <<responses, taken, delivered, made>>

Next ==
  \/ \E e \in Ends, p \in Payloads : send_packet(e, p)
  \/ \E e \in Ends, m \in inits : handle_handshake_init(e, m)
  \/ \E e \in Ends, m \in responses : handle_handshake_response(e, m)
  \/ \E e \in Ends, m \in data : handle_data(e, m)
  \/ \E e \in Ends : \E time, cutoff \in 0..MaxTime[e] : update_timers(e, time, cutoff)

Spec == Init /\ [][Next]_vars

-----------------------------------------------------------------------------
(* Sessions with the same keys are the two sides of one connection: each   *)
(* sends to the index at which the other receives, although responses may  *)
(* arrive late, twice, or after a newer initiation.                        *)
SessionsMatch ==
  \A e \in Ends : \A s \in made[e], r \in made[peer(e)] :
    s.key = r.key => s.sending = r.receiving /\ s.receiving = r.sending

(* An endpoint makes at most one session from a handshake, so that keys    *)
(* and counters are never used twice: no initiation that still waits for a *)
(* response has made one, and none that made one would be accepted again   *)
(* (the state given up by receive_handshake_response, and                  *)
(* last_handshake_timestamp), however often messages are repeated.         *)
KeysUsedOnce ==
  \A e \in Ends : \A s \in made[e] :
    /\ \A r \in made[e] : s.key = r.key => s = r
    /\ \A h \in {tunn[e].state, tunn[e].previous} \ {None, Expired} : s.key # <<e, h.stamp>>
    /\ s.key[1] # e => s.key[2] <= tunn[e].last_handshake_timestamp

(* A packet is never in two places: queued, in flight, delivered.          *)
Places(p) ==
  (UNION {{<<"queued", e, i>> : i \in {j \in DOMAIN tunn[e].packet_queue :
                                         tunn[e].packet_queue[j] = p}} : e \in Ends})
  \union {<<"in flight", m>> : m \in {n \in data : n.packet = p}}
  \union {<<"delivered", q>> : q \in {p} \intersect delivered}

PacketsConserved == \A p \in taken : \A x, y \in Places(p) : x = y

(* Packets wait for a session only while an initiation is in progress, so  *)
(* that retransmission, and at last expiry, comes for them: no crossing    *)
(* of initiations, late response or dropped session strands the queue.     *)
WaitingIsInProgress ==
  \A e \in Ends : tunn[e].packet_queue # <<>> => is_in_progress(tunn[e])

(* An endpoint makes a session its current one only if the other has it    *)
(* too: the responder waits until the initiator's first packet confirms    *)
(* that the response arrived.                                              *)
ConfirmedBeforeCurrent ==
  [][\A e \in Ends : tunn'[e].current # tunn[e].current =>
       \E r \in made[peer(e)] : r.key = tunn'[e].sessions[Slot(tunn'[e].current)].key]_vars

=============================================================================
