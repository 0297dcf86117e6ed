---------------------------- MODULE TunnelProofs ----------------------------
(***************************************************************************)
(* What holds of the two endpoints of Tunnel for any number of slots,      *)
(* indices and packets, any queue and any length of the run.               *)
(*                                                                         *)
(* Keyed says of one endpoint, with the sessions M it has made, how the    *)
(* initiations that still wait and last_handshake_timestamp keep a         *)
(* handshake from being completed twice; Paired says how the sessions of   *)
(* one endpoint, and the messages on their way to it, go back to sessions  *)
(* of the other.  PlaceInv says where a packet can be: in one place at     *)
(* most, whatever is flushed, rotated, dropped or sent.                    *)
(***************************************************************************)
EXTENDS Tunnel, TLAPS

(* A step that names no prover is left to Zenon.                           *)
USE ZenonT(30)

Initiation == [index : Nat, stamp : Nat]
Session == [key : Ends \X Nat, receiving : Nat, sending : Nat]
Packets == Payloads \union {Keepalive}

Tunn == [state : Initiation \union {None, Expired},
         previous : Initiation \union {None, Expired},
         next_index : Nat, stamp : Nat, last_handshake_timestamp : Nat,
         sessions : [Slots -> Session \union {None}], session_timers : [Slots -> Nat],
         current : Int, packet_queue : Seq(Packets), time : Nat]

InitMessage == [from : Ends, stamp : Nat, index : Nat]
ResponseMessage == [to : Ends, key : Ends \X Nat, index : Nat, receiver : Nat]
DataMessage == [to : Ends, key : Ends \X Nat, receiver : Nat, packet : Packets]

TunnelType ==
  /\ tunn \in [Ends -> Tunn]
  /\ inits \subseteq InitMessage /\ responses \subseteq ResponseMessage /\ data \subseteq DataMessage
  /\ taken \subseteq Payloads
  /\ made \in [Ends -> SUBSET Session]

(* The initiations that wait for a response.                               *)
Open(t) == {t.state, t.previous} \ {None, Expired}

(* An endpoint e in state t that has made the sessions M.                  *)
Keyed(e, t, M) ==
  /\ t \in Tunn /\ M \subseteq Session
  /\ \A i \in Slots : t.sessions[i] # None => t.sessions[i] \in M
  /\ \A h \in Open(t) : h.stamp <= t.stamp
  /\ t.state \in Open(t) /\ t.previous \in Open(t) => t.state.stamp # t.previous.stamp
  /\ \A s \in M :
       /\ s.key[1] = e => s.key[2] <= t.stamp
       /\ s.key[1] # e => s.key[2] <= t.last_handshake_timestamp
       /\ \A r \in M : s.key = r.key => s = r
       /\ \A h \in Open(t) : s.key # <<e, h.stamp>>

(* A session that M has the other side of.                                 *)
Other(M, key, sending, receiving) ==
  \E r \in M : r.key = key /\ r.receiving = sending /\ r.sending = receiving

Paired(e) ==
  /\ \A s \in made[e] :
       s.key[1] = e => Other(made[peer(e)], s.key, s.sending, s.receiving)
  /\ \A m \in responses :
       m.to = e => Other(made[peer(e)], m.key, m.index, m.receiver)
  /\ \A m \in data : m.to = e => \E r \in made[peer(e)] : r.key = m.key

KeysInv ==
  /\ TunnelType
  /\ \A e \in Ends : Keyed(e, tunn[e], made[e]) /\ Paired(e)

-----------------------------------------------------------------------------
(* Constants and operators *)

LEMMA Peers ==
  \A e \in Ends : /\ peer(e) \in Ends /\ peer(e) # e /\ peer(peer(e)) = e
                  /\ \A f \in Ends : f # e => f = peer(e)
<1>1. PICK a, b \in Ends : a # b /\ Ends = {a, b}
  BY TunnelAssumption
<1>2. peer(a) = b /\ peer(b) = a
  BY <1>1 DEF peer
<1> QED BY <1>1, <1>2

LEMMA SlotOf == \A index \in Int : Slot(index) \in Slots
<1> SUFFICES ASSUME NEW index \in Int PROVE Slot(index) \in Slots
  OBVIOUS
<1> QED BY TunnelAssumption, SMTT(30) DEF Slot, Slots

LEMMA NextIndex == \A t \in Tunn : inc_index(t) \in Nat
BY TunnelAssumption, SMTT(30) DEF inc_index, Tunn

LEMMA NotNone == \A x \in {None, Expired} : x \notin Initiation /\ x \notin Session
BY TunnelAssumption DEF Initiation, Session

(* What initiate does, and what it leaves alone.                           *)
LEMMA Initiates ==
  ASSUME NEW t \in Tunn
  PROVE  /\ initiate(t) \in Tunn
         /\ initiate(t).state \in Initiation /\ initiate(t).previous = t.state
         /\ initiate(t).state.stamp = t.stamp + 1 /\ initiate(t).stamp = t.stamp + 1
         /\ initiate(t).last_handshake_timestamp = t.last_handshake_timestamp
         /\ initiate(t).sessions = t.sessions /\ initiate(t).current = t.current
         /\ initiate(t).packet_queue = t.packet_queue
<1> DEFINE h == [index |-> inc_index(t), stamp |-> t.stamp + 1]
<1>1. inc_index(t) \in Nat /\ t.stamp + 1 \in Nat
  BY NextIndex, SMTT(30) DEF Tunn
<1>2. h \in Initiation /\ h.stamp = t.stamp + 1
  BY <1>1 DEF Initiation
<1>3. initiate(t) = [t EXCEPT !.previous = t.state, !.state = h,
                              !.next_index = inc_index(t), !.stamp = t.stamp + 1]
  BY DEF initiate, Tunn
<1> HIDE DEF h
<1> QED BY <1>1, <1>2, <1>3 DEF Tunn

(* The operators that leave the handshake and the sessions alone.          *)
SameKeys(t, u) ==
  /\ u \in Tunn
  /\ u.state = t.state /\ u.previous = t.previous /\ u.stamp = t.stamp
  /\ u.last_handshake_timestamp = t.last_handshake_timestamp
  /\ u.sessions = t.sessions

LEMMA QueuesPacket ==
  ASSUME NEW t \in Tunn, NEW p \in Packets
  PROVE  /\ SameKeys(t, queue_packet(t, p)) /\ queue_packet(t, p).current = t.current
         /\ queue_packet(t, p).packet_queue \in {t.packet_queue, Append(t.packet_queue, p)}
<1>1. t.packet_queue \in Seq(Packets) /\ Append(t.packet_queue, p) \in Seq(Packets)
  BY SMTT(30) DEF Tunn
<1> DEFINE u == [t EXCEPT !.packet_queue = Append(t.packet_queue, p)]
<1>2. SameKeys(t, t) /\ SameKeys(t, u) /\ u.current = t.current
      /\ u.packet_queue = Append(t.packet_queue, p)
  BY <1>1 DEF SameKeys, Tunn
<1>3. queue_packet(t, p) = t \/ queue_packet(t, p) = u
  BY DEF queue_packet, Tunn
<1> HIDE DEF u
<1> QED BY <1>2, <1>3

LEMMA SetsCurrent ==
  ASSUME NEW t \in Tunn, NEW index \in Nat
  PROVE  /\ SameKeys(t, set_current_session(t, index))
         /\ set_current_session(t, index).packet_queue = t.packet_queue
         /\ set_current_session(t, index).current \in {t.current, index}
         /\ t.sessions[Slot(index)] # None =>
              t.sessions[Slot(set_current_session(t, index).current)] # None
<1> DEFINE u == [t EXCEPT !.current = index]
<1>1. SameKeys(t, t) /\ SameKeys(t, u) /\ u.current = index
      /\ u.packet_queue = t.packet_queue
  <2>1. index \in Int
    BY SMTT(30)
  <2>2. u \in Tunn
    BY <2>1 DEF Tunn
  <2> QED BY <2>2 DEF SameKeys, Tunn
<1>2. \/ set_current_session(t, index) = u
      \/ /\ set_current_session(t, index) = t
         /\ t.current = index \/ t.sessions[Slot(t.current)] # None
  BY DEF set_current_session, CurrentSession
<1> HIDE DEF u
<1> QED BY <1>1, <1>2

LEMMA Stores ==
  ASSUME NEW t \in Tunn, NEW s \in Session
  PROVE  /\ store_session(t, s) \in Tunn
         /\ store_session(t, s).state = t.state /\ store_session(t, s).previous = t.previous
         /\ store_session(t, s).stamp = t.stamp /\ store_session(t, s).current = t.current
         /\ store_session(t, s).last_handshake_timestamp = t.last_handshake_timestamp
         /\ store_session(t, s).packet_queue = t.packet_queue
         /\ store_session(t, s).sessions = [t.sessions EXCEPT ![Slot(s.receiving)] = s]
<1>1. Slot(s.receiving) \in Slots
  BY SlotOf, SMTT(30) DEF Session
<1> QED BY <1>1 DEF store_session, Tunn

(* A rotated queue is another order of the same packets.                   *)
LEMMA Rotates ==
  ASSUME NEW q \in Seq(Packets), q # <<>>, NEW n \in {1, 2}
  PROVE  /\ Rotated(q, n) \in Seq(Packets) /\ Rotated(q, n) # <<>>
         /\ \A i \in DOMAIN Rotated(q, n) :
              \E k \in DOMAIN q : Rotated(q, n)[i] = q[k]
         /\ \A i, j \in DOMAIN Rotated(q, n) : i # j =>
              \E k, l \in DOMAIN q : k # l /\ Rotated(q, n)[i] = q[k] /\ Rotated(q, n)[j] = q[l]
<1> DEFINE L == Len(q)
           P(i) == ((i - 1 + n) % L) + 1
<1>1. L \in Nat \ {0} /\ DOMAIN q = 1..L
  BY SMTT(30)
<1>2. ASSUME NEW i \in 1..L PROVE P(i) \in 1..L
  BY <1>1, SMTT(30)
<1>3. ASSUME NEW i \in 1..L, NEW j \in 1..L, P(i) = P(j) PROVE i = j
  <2>1. \A k \in 1..L : \E a \in {0, 1, 2} : (k - 1) + n = (a * L) + (P(k) - 1)
    BY <1>1, SMTT(30)
  <2>2. PICK a \in {0, 1, 2} : (i - 1) + n = (a * L) + (P(i) - 1)
    BY <2>1
  <2>3. PICK b \in {0, 1, 2} : (j - 1) + n = (b * L) + (P(j) - 1)
    BY <2>1
  <2> HIDE DEF P, L
  <2>4. 0 * L = 0 /\ 1 * L = L /\ 2 * L = L + L
    BY <1>1, SMTT(30)
  <2>5. P(i) \in Int /\ P(j) \in Int
    BY <1>1, <1>2, SMTT(30)
  <2> QED BY <1>1, <1>3, <2>2, <2>3, <2>4, <2>5, SMTT(30)
<1>4. Rotated(q, n) = [i \in 1..L |-> q[P(i)]]
  BY <1>1 DEF Rotated
<1>5. Rotated(q, n) \in Seq(Packets) /\ Len(Rotated(q, n)) = L
  BY <1>1, <1>2, <1>4, SMTT(30)
<1> DEFINE r == Rotated(q, n)
<1>6. DOMAIN r = 1..L /\ r # <<>> /\ \A i \in 1..L : r[i] = q[P(i)]
  BY <1>1, <1>4, SMTT(30)
<1> HIDE DEF P, L, r
<1>7. \A i \in DOMAIN r : \E k \in DOMAIN q : r[i] = q[k]
  BY <1>1, <1>2, <1>6
<1>8. ASSUME NEW i \in DOMAIN r, NEW j \in DOMAIN r, i # j
      PROVE  \E k, l \in DOMAIN q : k # l /\ r[i] = q[k] /\ r[j] = q[l]
  BY <1>1, <1>2, <1>3, <1>6, <1>8, SMTT(30)
<1> QED BY <1>5, <1>6, <1>7, <1>8 DEF r

(* flush leaves t as it is, its queue apart, or it starts a handshake; and *)
(* what still waits afterwards waits for a handshake.                      *)
LEMMA Flushes ==
  ASSUME NEW e \in Ends, NEW t \in Tunn
  PROVE  /\ \E v \in Tunn : /\ SameKeys(t, v) /\ v.current = t.current
                            /\ flush(e, t).tunn \in {v, initiate(v)}
         /\ flush(e, t).tunn.packet_queue # <<>> => is_in_progress(flush(e, t).tunn)
         /\ \/ flush(e, t).sent = {}
            \/ /\ CurrentSession(t) # None
               /\ flush(e, t).sent = Sealed(e, CurrentSession(t), Elements(t.packet_queue))
<1> DEFINE W(q) == [t EXCEPT !.packet_queue = q]
<1>1. ASSUME NEW q \in Seq(Packets)
      PROVE  /\ W(q) \in Tunn /\ SameKeys(t, W(q)) /\ W(q).current = t.current
             /\ W(q).packet_queue = q /\ W(q).state = t.state
  BY DEF SameKeys, Tunn
<1>2. t.packet_queue \in Seq(Packets) /\ <<>> \in Seq(Packets) /\ SameKeys(t, t)
  BY SMTT(30) DEF SameKeys, Tunn
<1>3. CASE CurrentSession(t) # None
  <2>1. flush(e, t).tunn = W(<<>>)
        /\ flush(e, t).sent = Sealed(e, CurrentSession(t), Elements(t.packet_queue))
    BY <1>3 DEF flush
  <2> HIDE DEF W
  <2> QED BY <1>1, <1>2, <1>3, <2>1
<1>4. CASE CurrentSession(t) = None /\ t.packet_queue = <<>>
  <2>1. flush(e, t).tunn = t /\ flush(e, t).sent = {}
    BY <1>4 DEF flush
  <2> QED BY <1>2, <1>4, <2>1
<1>5. CASE CurrentSession(t) = None /\ t.packet_queue # <<>> /\ is_in_progress(t)
  <2>1. flush(e, t).tunn = W(Rotated(t.packet_queue, 1)) /\ flush(e, t).sent = {}
    BY <1>5 DEF flush, Tunn
  <2>2. Rotated(t.packet_queue, 1) \in Seq(Packets)
    BY <1>2, <1>5, Rotates
  <2> HIDE DEF W
  <2> QED BY <1>1, <1>5, <2>1, <2>2 DEF is_in_progress
<1>6. CASE CurrentSession(t) = None /\ t.packet_queue # <<>> /\ ~ is_in_progress(t)
  <2>1. flush(e, t).tunn = initiate(W(Rotated(t.packet_queue, 2))) /\ flush(e, t).sent = {}
    BY <1>6 DEF flush, Tunn
  <2>2. Rotated(t.packet_queue, 2) \in Seq(Packets)
    BY <1>2, <1>6, Rotates
  <2> HIDE DEF W
  <2>3. is_in_progress(flush(e, t).tunn)
    BY <1>1, <2>1, <2>2, Initiates, NotNone DEF is_in_progress
  <2> QED BY <1>1, <2>1, <2>2, <2>3
<1> QED BY <1>3, <1>4, <1>5, <1>6

-----------------------------------------------------------------------------
(* Keyed, operator by operator *)

LEMMA KeyedSame ==
  ASSUME NEW e \in Ends, NEW t, NEW u, NEW M, Keyed(e, t, M), SameKeys(t, u)
  PROVE  Keyed(e, u, M)
BY DEF Keyed, SameKeys, Open

(* The new initiation's timestamp is newer than that of any session.       *)
LEMMA KeyedInitiate ==
  ASSUME NEW e \in Ends, NEW t, NEW M, Keyed(e, t, M)
  PROVE  Keyed(e, initiate(t), M)
<1> DEFINE u == initiate(t)
<1>1. t \in Tunn /\ t.stamp \in Nat /\ M \subseteq Session
  BY DEF Keyed, Tunn
<1>2. /\ u \in Tunn /\ u.state \in Initiation /\ u.previous = t.state
      /\ u.state.stamp = t.stamp + 1 /\ u.stamp = t.stamp + 1
      /\ u.last_handshake_timestamp = t.last_handshake_timestamp
      /\ u.sessions = t.sessions
  BY <1>1, Initiates
<1> HIDE DEF u
<1>3. Open(u) \subseteq {u.state} \union Open(t)
  BY <1>2 DEF Open
<1>4. \A h \in Open(t) : h.stamp \in Nat /\ h.stamp <= t.stamp
  BY <1>1 DEF Keyed, Open, Tunn, Initiation
<1>5. \A h \in Open(u) : h.stamp <= u.stamp
  BY <1>1, <1>2, <1>3, <1>4, SMTT(30)
<1>6. u.previous \in Open(u) => u.state.stamp # u.previous.stamp
  BY <1>1, <1>2, <1>4, SMTT(30) DEF Open
<1>7. ASSUME NEW s \in M
      PROVE  /\ s.key[1] = e => s.key[2] <= u.stamp
             /\ \A h \in Open(u) : s.key # <<e, h.stamp>>
  <2>1. s.key[2] \in Nat /\ (s.key[1] = e => s.key[2] <= t.stamp)
    BY <1>1 DEF Keyed, Session
  <2>2. s.key # <<e, u.state.stamp>>
    BY <1>1, <1>2, <2>1, SMTT(30)
  <2> QED BY <1>1, <1>2, <1>3, <2>1, <2>2, SMTT(30) DEF Keyed
<1> QED BY <1>1, <1>2, <1>5, <1>6, <1>7 DEF Keyed, u

LEMMA KeyedFlush ==
  ASSUME NEW e \in Ends, NEW t, NEW M, Keyed(e, t, M)
  PROVE  Keyed(e, flush(e, t).tunn, M)
<1>1. t \in Tunn
  BY DEF Keyed
<1>2. PICK v \in Tunn : SameKeys(t, v) /\ flush(e, t).tunn \in {v, initiate(v)}
  BY <1>1, Flushes
<1> QED BY <1>2, KeyedSame, KeyedInitiate

(* Time passes and sessions are dropped.                                   *)
LEMMA KeyedDrop ==
  ASSUME NEW e \in Ends, NEW t, NEW M, Keyed(e, t, M), NEW time \in Nat, NEW cutoff \in Nat
  PROVE  LET u == update_session_timers([t EXCEPT !.time = time], cutoff)
         IN  /\ Keyed(e, u, M) /\ u.state = t.state /\ u.current = t.current
             /\ u.packet_queue = t.packet_queue /\ u.stamp = t.stamp
<1> DEFINE w == [t EXCEPT !.time = time]
           old == {s \in Slots : w.session_timers[s] < cutoff}
           S == [s \in Slots |-> IF s \in old THEN None ELSE w.sessions[s]]
           C == [s \in Slots |-> IF s \in old THEN w.time ELSE w.session_timers[s]]
           u == update_session_timers(w, cutoff)
<1>1. w \in Tunn /\ SameKeys(t, w) /\ w.current = t.current /\ w.packet_queue = t.packet_queue
  BY DEF Keyed, SameKeys, Tunn
<1>2. u = [w EXCEPT !.sessions = S, !.session_timers = C]
  BY <1>1 DEF update_session_timers, Tunn
<1>3. Keyed(e, w, M)
  BY <1>1, KeyedSame
<1> HIDE DEF w
<1>4. S \in [Slots -> Session \union {None}] /\ C \in [Slots -> Nat]
      /\ \A s \in Slots : S[s] # None => S[s] = w.sessions[s]
  BY <1>1 DEF Tunn
<1> HIDE DEF S, C, old, u
<1>5. /\ u \in Tunn /\ u.sessions = S
      /\ u.state = w.state /\ u.previous = w.previous /\ u.stamp = w.stamp
      /\ u.last_handshake_timestamp = w.last_handshake_timestamp
      /\ u.current = w.current /\ u.packet_queue = w.packet_queue
  BY <1>1, <1>2, <1>4 DEF Tunn
<1>6. Keyed(e, u, M)
  BY <1>3, <1>4, <1>5 DEF Keyed, Open
<1> QED BY <1>1, <1>5, <1>6 DEF u, w, SameKeys

LEMMA KeyedExpire ==
  ASSUME NEW e \in Ends, NEW t, NEW M, Keyed(e, t, M)
  PROVE  Keyed(e, set_expired(t), M) /\ set_expired(t).packet_queue = <<>>
         /\ set_expired(t).current = t.current /\ set_expired(t).stamp = t.stamp
<1> DEFINE S == [s \in Slots |-> None]
           u == set_expired(t)
<1>1. S \in [Slots -> Session \union {None}] /\ \A s \in Slots : S[s] = None
  OBVIOUS
<1>2. u = [t EXCEPT !.state = Expired, !.previous = Expired, !.sessions = S,
                    !.packet_queue = <<>>]
  BY DEF set_expired
<1>3. <<>> \in Seq(Packets)
  BY SMTT(30)
<1> HIDE DEF S, u
<1>4. /\ u \in Tunn /\ u.state = Expired /\ u.previous = Expired /\ u.sessions = S
      /\ u.packet_queue = <<>> /\ u.stamp = t.stamp /\ u.current = t.current
      /\ u.last_handshake_timestamp = t.last_handshake_timestamp
  BY <1>1, <1>2, <1>3 DEF Tunn, Keyed
<1>5. Open(u) = {}
  BY <1>4 DEF Open
<1>6. Keyed(e, u, M)
  BY <1>1, <1>4, <1>5 DEF Keyed
<1> QED BY <1>4, <1>6 DEF u

(* The responder's session is of an initiation newer than any before.      *)
LEMMA KeyedAnswer ==
  ASSUME NEW e \in Ends, NEW t, NEW M, Keyed(e, t, M),
         NEW m \in InitMessage, m.from # e, after(m.stamp, t.last_handshake_timestamp)
  PROVE  /\ Accepted(t, m) \in Session /\ Accepted(t, m).key = <<m.from, m.stamp>>
         /\ Keyed(e, answer(t, m), M \union {Accepted(t, m)})
         /\ answer(t, m).current = t.current /\ answer(t, m).stamp = t.stamp
         /\ answer(t, m).packet_queue = t.packet_queue
<1> DEFINE n == Accepted(t, m)
           w == [t EXCEPT !.last_handshake_timestamp = m.stamp, !.previous = t.state,
                          !.state = None, !.next_index = inc_index(t)]
           u == answer(t, m)
<1>1. t \in Tunn /\ M \subseteq Session /\ inc_index(t) \in Nat
  BY NextIndex DEF Keyed
<1>2. m.from \in Ends /\ m.stamp \in Nat /\ m.index \in Nat
      /\ m.stamp > t.last_handshake_timestamp /\ t.last_handshake_timestamp \in Nat
  BY <1>1 DEF InitMessage, after, Tunn
<1>3. n \in Session /\ n.key = <<m.from, m.stamp>>
  BY <1>1, <1>2 DEF Accepted, Session
<1>4. /\ w \in Tunn /\ w.state = None /\ w.previous = t.state /\ w.stamp = t.stamp
      /\ w.last_handshake_timestamp = m.stamp /\ w.sessions = t.sessions
      /\ w.current = t.current /\ w.packet_queue = t.packet_queue
  BY <1>1, <1>2 DEF Tunn
<1>5. u = store_session(w, n)
  BY DEF answer
<1> HIDE DEF n, w, u
<1>6. /\ u \in Tunn /\ u.state = None /\ u.previous = t.state /\ u.stamp = t.stamp
      /\ u.last_handshake_timestamp = m.stamp
      /\ u.current = t.current /\ u.packet_queue = t.packet_queue
      /\ u.sessions = [t.sessions EXCEPT ![Slot(n.receiving)] = n]
  BY <1>3, <1>4, <1>5, Stores, SMTT(30)
<1>7. \A i \in Slots : u.sessions[i] # None => u.sessions[i] \in M \union {n}
  BY <1>1, <1>6 DEF Keyed, Tunn
<1>8. Open(u) \subseteq Open(t) /\ u.state \notin Open(u)
  BY <1>6 DEF Open
<1>9. \A s \in M : s.key # n.key
  BY <1>1, <1>2, <1>3, SMTT(30) DEF Keyed, Session
<1>10. ASSUME NEW s \in M \union {n}
       PROVE  /\ s.key[1] = e => s.key[2] <= u.stamp
              /\ s.key[1] # e => s.key[2] <= u.last_handshake_timestamp
              /\ \A r \in M \union {n} : s.key = r.key => s = r
              /\ \A h \in Open(u) : s.key # <<e, h.stamp>>
  <2>1. CASE s = n
    BY <1>2, <1>3, <1>6, <1>9, <2>1, SMTT(30)
  <2>2. CASE s \in M
    <3>1. s.key[2] \in Nat
      BY <1>1, <2>2 DEF Session
    <3> QED BY <1>2, <1>6, <1>8, <1>9, <2>2, <3>1, SMTT(30) DEF Keyed
  <2> QED BY <2>1, <2>2
<1>11. \A h \in Open(u) : h.stamp <= u.stamp
  BY <1>6, <1>8 DEF Keyed
<1>12. Keyed(e, u, M \union {n})
  BY <1>1, <1>3, <1>6, <1>7, <1>8, <1>10, <1>11 DEF Keyed
<1> QED BY <1>3, <1>6, <1>12 DEF n, u

(* The initiation that response m answers, and the endpoint that has taken *)
(* the response.                                                           *)
Answered(t, m) == IF Awaits(t.state, m.receiver) THEN t.state ELSE t.previous
Completing(t, m) ==
  set_current_session(store_session(settle(t, m.receiver), Completed(t, m)),
                      Completed(t, m).receiving)

(* The session that was made is of the response, and in use unless another *)
(* one stays so.                                                           *)
Completes(e, t, M, m) ==
  LET n == Completed(t, m)
      u == Completing(t, m)
  IN  /\ n \in Session /\ n.key = m.key
      /\ n.receiving = m.receiver /\ n.sending = m.index
      /\ Keyed(e, u, M \union {n})
      /\ u.stamp = t.stamp /\ u.packet_queue = t.packet_queue
      /\ CurrentSession(u) # None
      /\ u.current # t.current => CurrentSession(u) = n

(* settle gives up the initiation whose keys the session has: no other     *)
(* that waits has its timestamp.                                           *)
LEMMA KeyedComplete ==
  ASSUME NEW e \in Ends, NEW t, NEW M, Keyed(e, t, M), NEW m \in ResponseMessage,
         Awaits(Answered(t, m), m.receiver), m.key = <<e, Answered(t, m).stamp>>
  PROVE  Completes(e, t, M, m)
<1> DEFINE n == Completed(t, m)
           h == Answered(t, m)
           v == settle(t, m.receiver)
           w == store_session(v, n)
           u == Completing(t, m)
<1>1. t \in Tunn /\ M \subseteq Session /\ t.stamp \in Nat
  BY DEF Keyed, Tunn
<1>2. n \in Session /\ n.key = m.key /\ n.receiving = m.receiver /\ n.sending = m.index
      /\ m.receiver \in Nat
  BY DEF Completed, Session, ResponseMessage
<1>3. h \in Open(t) /\ h.stamp \in Nat /\ h.stamp <= t.stamp
  BY <1>1 DEF Open, Awaits, Answered, Keyed, Tunn, Initiation
<1>4. /\ v \in Tunn /\ v.sessions = t.sessions /\ v.stamp = t.stamp /\ v.current = t.current
      /\ v.packet_queue = t.packet_queue
      /\ v.last_handshake_timestamp = t.last_handshake_timestamp
      /\ \/ v.state = None /\ v.previous = t.previous /\ h = t.state
         \/ v.state = t.state /\ v.previous = None /\ h = t.previous
  BY <1>1 DEF settle, Answered, Tunn
<1>5. /\ Open(v) \subseteq Open(t) /\ ~ (v.state \in Open(v) /\ v.previous \in Open(v))
      /\ \A g \in Open(v) : g.stamp # h.stamp
  BY <1>3, <1>4 DEF Open, Keyed
<1> HIDE DEF n, h, v, u
<1>6. /\ w \in Tunn /\ w.state = v.state /\ w.previous = v.previous /\ w.stamp = t.stamp
      /\ w.last_handshake_timestamp = t.last_handshake_timestamp
      /\ w.current = t.current /\ w.packet_queue = t.packet_queue
      /\ w.sessions = [t.sessions EXCEPT ![Slot(m.receiver)] = n]
  BY <1>2, <1>4, Stores, SMTT(30)
<1>7. /\ Slot(m.receiver) \in Slots /\ n # None
      /\ w.sessions[Slot(m.receiver)] = n
      /\ \A i \in Slots : w.sessions[i] # None => w.sessions[i] \in M \union {n}
  <2> HIDE DEF w
  <2>1. Slot(m.receiver) \in Slots /\ n # None
    BY <1>2, SlotOf, NotNone, SMTT(30)
  <2>2. t.sessions \in [Slots -> Session \union {None}]
    BY <1>1 DEF Tunn
  <2> QED BY <1>6, <2>1, <2>2 DEF Keyed
<1> HIDE DEF w
<1>8. \A s \in M : s.key # n.key
  BY <1>2, <1>3 DEF Keyed, h
<1>9. ASSUME NEW s \in M \union {n}
      PROVE  /\ s.key[1] = e => s.key[2] <= w.stamp
             /\ s.key[1] # e => s.key[2] <= w.last_handshake_timestamp
             /\ \A r \in M \union {n} : s.key = r.key => s = r
             /\ \A g \in Open(w) : s.key # <<e, g.stamp>>
  <2>1. Open(w) = Open(v)
    BY <1>6 DEF Open
  <2>2. CASE s = n
    <3>1. s.key = <<e, h.stamp>>
      BY <1>2, <2>2 DEF h
    <3> QED BY <1>3, <1>5, <1>6, <1>8, <2>1, <2>2, <3>1, SMTT(30)
  <2>3. CASE s \in M
    BY <1>5, <1>6, <1>8, <2>1, <2>3 DEF Keyed
  <2> QED BY <2>2, <2>3
<1>10. Open(w) = Open(v) /\ \A g \in Open(w) : g.stamp <= w.stamp
  BY <1>5, <1>6 DEF Open, Keyed
<1>11. Keyed(e, w, M \union {n})
  BY <1>1, <1>2, <1>5, <1>6, <1>7, <1>9, <1>10 DEF Keyed
<1>12. /\ SameKeys(w, u) /\ u.packet_queue = w.packet_queue
       /\ u.current \in {w.current, m.receiver}
       /\ w.sessions[Slot(u.current)] # None
  <2>1. u = set_current_session(w, m.receiver)
    BY <1>2 DEF u, Completing, w, v, n
  <2>2. w \in Tunn /\ m.receiver \in Nat /\ w.sessions[Slot(m.receiver)] # None
    BY <1>2, <1>6, <1>7
  <2> QED BY <2>1, <2>2, SetsCurrent
<1>13. Keyed(e, u, M \union {n})
  BY <1>11, <1>12, KeyedSame
<1>14. CurrentSession(u) # None /\ (u.current # t.current => CurrentSession(u) = n)
  BY <1>6, <1>7, <1>12 DEF CurrentSession, SameKeys
<1> QED BY <1>2, <1>6, <1>12, <1>13, <1>14 DEF Completes, n, u, SameKeys

-----------------------------------------------------------------------------
(* The system *)

LEMMA InitKeys == Init => KeysInv /\ WaitingIsInProgress
<1> SUFFICES ASSUME Init PROVE KeysInv /\ WaitingIsInProgress
  OBVIOUS
<1> DEFINE S == [s \in Slots |-> None]
           C == [s \in Slots |-> 0]
           t == [state |-> None, previous |-> None, next_index |-> 0,
                 stamp |-> 0, last_handshake_timestamp |-> 0,
                 sessions |-> S, session_timers |-> C,
                 current |-> NoIndex, packet_queue |-> <<>>, time |-> 0]
<1>1. S \in [Slots -> Session \union {None}] /\ C \in [Slots -> Nat] /\ NoIndex \in Int
      /\ \A s \in Slots : S[s] = None
  BY TunnelAssumption, SMTT(30) DEF NoIndex
<1>2. tunn = [e \in Ends |-> t] /\ made = [e \in Ends |-> {}]
  BY DEF Init
<1> HIDE DEF S, C
<1>3. t \in Tunn /\ Open(t) = {} /\ t.sessions = S /\ t.packet_queue = <<>>
      /\ t.state = None
  BY <1>1, SMTT(30) DEF Tunn, Open
<1> HIDE DEF t
<1>4. TunnelType
  BY <1>2, <1>3 DEF TunnelType, Init
<1>5. \A e \in Ends : Keyed(e, tunn[e], made[e])
  BY <1>1, <1>2, <1>3 DEF Keyed, Open
<1>6. \A e \in Ends : Paired(e)
  BY <1>2, Peers DEF Paired, Init
<1>7. WaitingIsInProgress
  BY <1>2, <1>3 DEF WaitingIsInProgress
<1> QED BY <1>4, <1>5, <1>6, <1>7 DEF KeysInv

(* What is sealed by e with a session that it has made is for the other    *)
(* endpoint, which knows the keys.                                         *)
LEMMA Seals ==
  ASSUME NEW e \in Ends, NEW s \in Session, NEW P \in SUBSET Packets
  PROVE  /\ Sealed(e, s, P) \subseteq DataMessage
         /\ \A m \in Sealed(e, s, P) : m.to = peer(e) /\ m.key = s.key /\ m.packet \in P
BY Peers, SMTT(30) DEF Sealed, DataMessage, Session

(* Become changes one endpoint and sends its new initiation.               *)
LEMMA Becomes ==
  ASSUME TunnelType, NEW e \in Ends, NEW t \in Tunn, Become(e, t),
         t.stamp > tunn[e].stamp => t.state \in Initiation
  PROVE  /\ tunn' \in [Ends -> Tunn] /\ tunn'[e] = t
         /\ \A f \in Ends : f # e => tunn'[f] = tunn[f]
         /\ inits' \subseteq InitMessage
<1>1. tunn' \in [Ends -> Tunn] /\ tunn'[e] = t /\ \A f \in Ends : f # e => tunn'[f] = tunn[f]
  BY DEF Become, TunnelType
<1>2. t.stamp \in Nat
  BY DEF Tunn
<1>3. inits' \subseteq InitMessage
  BY <1>2, SMTT(30) DEF Become, TunnelType, InitMessage, Initiation
<1> QED BY <1>1, <1>3

(* An endpoint that sends what it has the keys for keeps the pairing: the  *)
(* sessions it has are still there, the other endpoint's are the same.     *)
LEMMA PairedStep ==
  ASSUME TunnelType, \A f \in Ends : Paired(f), NEW e \in Ends,
         NEW N \in SUBSET Session, made' = [made EXCEPT ![e] = @ \union N],
         \A s \in N : s.key[1] = e => Other(made[peer(e)], s.key, s.sending, s.receiving),
         \A m \in responses' \ responses :
           m.to = peer(e) /\ Other(made[e] \union N, m.key, m.index, m.receiver),
         \A m \in data' \ data : m.to = peer(e) /\ \E r \in made[e] \union N : r.key = m.key
  PROVE  \A f \in Ends : Paired(f)'
<1>1. \A f \in Ends : made[f] \subseteq made'[f]
  BY DEF TunnelType
<1>2. made'[e] = made[e] \union N /\ made'[peer(e)] = made[peer(e)]
  BY Peers DEF TunnelType
<1>3. Paired(e)'
  <2>1. \A s \in made'[e] :
          s.key[1] = e => Other(made'[peer(e)], s.key, s.sending, s.receiving)
    BY <1>2 DEF Paired
  <2>2. \A m \in responses' :
          m.to = e => Other(made'[peer(e)], m.key, m.index, m.receiver)
    BY <1>2, Peers DEF Paired
  <2>3. \A m \in data' : m.to = e => \E r \in made'[peer(e)] : r.key = m.key
    BY <1>2, Peers, SMTT(30) DEF Paired
  <2> QED BY <2>1, <2>2, <2>3 DEF Paired
<1>4. Paired(peer(e))'
  <2>1. peer(peer(e)) = e /\ peer(e) \in Ends
    BY Peers
  <2>2. \A s \in made'[peer(e)] :
          s.key[1] = peer(e) => Other(made'[e], s.key, s.sending, s.receiving)
    BY <1>1, <1>2, <2>1, SMTT(30) DEF Paired, Other
  <2>3. \A m \in responses' :
          m.to = peer(e) => Other(made'[e], m.key, m.index, m.receiver)
    BY <1>1, <1>2, <2>1, SMTT(30) DEF Paired, Other
  <2>4. \A m \in data' : m.to = peer(e) => \E r \in made'[e] : r.key = m.key
    BY <1>1, <1>2, <2>1, SMTT(30) DEF Paired
  <2> QED BY <2>1, <2>2, <2>3, <2>4 DEF Paired
<1> QED BY <1>3, <1>4, Peers

KeysWaiting == KeysInv /\ WaitingIsInProgress

(* A step of endpoint e to the state t, which makes the sessions N.        *)
LEMMA EndStep ==
  ASSUME KeysWaiting, NEW e \in Ends, NEW t, NEW N \in SUBSET Session,
         Keyed(e, t, made[e] \union N), t.packet_queue # <<>> => is_in_progress(t),
         tunn' = [tunn EXCEPT ![e] = t], made' = [made EXCEPT ![e] = @ \union N],
         inits' \subseteq InitMessage, responses' \subseteq ResponseMessage,
         data' \subseteq DataMessage, taken' \subseteq Payloads,
         \A s \in N : s.key[1] = e => Other(made[peer(e)], s.key, s.sending, s.receiving),
         \A m \in responses' \ responses :
           m.to = peer(e) /\ Other(made[e] \union N, m.key, m.index, m.receiver),
         \A m \in data' \ data : m.to = peer(e) /\ \E r \in made[e] \union N : r.key = m.key
  PROVE  KeysWaiting'
<1> USE DEF KeysWaiting, KeysInv
<1>1. TunnelType /\ t \in Tunn
  BY DEF Keyed
<1>2. /\ tunn' \in [Ends -> Tunn] /\ tunn'[e] = t
      /\ \A f \in Ends : f # e => tunn'[f] = tunn[f]
  BY <1>1 DEF TunnelType
<1>3. /\ made' \in [Ends -> SUBSET Session] /\ made'[e] = made[e] \union N
      /\ \A f \in Ends : f # e => made'[f] = made[f]
  BY <1>1 DEF TunnelType
<1>4. TunnelType'
  BY <1>2, <1>3 DEF TunnelType
<1>5. ASSUME NEW f \in Ends PROVE Keyed(f, tunn'[f], made'[f])
  BY <1>2, <1>3
<1>6. \A f \in Ends : Paired(f)'
  BY <1>1, PairedStep
<1>7. WaitingIsInProgress'
  BY <1>2 DEF WaitingIsInProgress
<1> QED BY <1>4, <1>5, <1>6, <1>7

(* A step that makes no session.                                           *)
LEMMA EndStepSame ==
  ASSUME KeysWaiting, NEW e \in Ends, NEW t, Keyed(e, t, made[e]),
         t.packet_queue # <<>> => is_in_progress(t),
         tunn' = [tunn EXCEPT ![e] = t], made' = made,
         inits' \subseteq InitMessage, responses' = responses,
         data' \subseteq DataMessage, taken' \subseteq Payloads,
         \A m \in data' \ data : m.to = peer(e) /\ \E r \in made[e] : r.key = m.key
  PROVE  KeysWaiting'
<1> DEFINE N == {}
<1>1. TunnelType
  BY DEF KeysWaiting, KeysInv
<1>2. N \in SUBSET Session /\ made[e] \union N = made[e] /\ \A s \in N : FALSE
  OBVIOUS
<1>3. made' = [made EXCEPT ![e] = @ \union N]
  BY <1>1, <1>2 DEF TunnelType
<1> HIDE DEF N
<1>4. Keyed(e, t, made[e] \union N) /\ responses' \subseteq ResponseMessage
  BY <1>1, <1>2 DEF TunnelType
<1>5. \A m \in data' \ data : m.to = peer(e) /\ \E r \in made[e] \union N : r.key = m.key
  BY <1>2
<1>6. \A s \in N : s.key[1] = e => Other(made[peer(e)], s.key, s.sending, s.receiving)
  BY <1>2
<1>7. \A m \in responses' \ responses :
        m.to = peer(e) /\ Other(made[e] \union N, m.key, m.index, m.receiver)
  OBVIOUS
<1> QED BY <1>2, <1>3, <1>4, <1>5, <1>6, <1>7, EndStep

(* The session in use is one that was made.                                *)
LEMMA CurrentIsMade ==
  ASSUME NEW e \in Ends, NEW t, NEW M, Keyed(e, t, M), CurrentSession(t) # None
  PROVE  CurrentSession(t) \in M /\ CurrentSession(t) \in Session
<1>1. Slot(t.current) \in Slots
  BY SlotOf DEF Keyed, Tunn
<1> QED BY <1>1 DEF Keyed, CurrentSession

(* A state that initiate leads to.                                         *)
LEMMA BecomesInitiated ==
  ASSUME KeysWaiting, NEW e \in Ends, NEW t, Keyed(e, t, made[e]), Become(e, initiate(t)),
         UNCHANGED <<responses, data, made>>, taken' \subseteq Payloads
  PROVE  KeysWaiting'
<1> DEFINE u == initiate(t)
<1>1. Keyed(e, u, made[e])
  BY KeyedInitiate
<1>2. u \in Tunn /\ u.state \in Initiation
  BY Initiates DEF Keyed
<1>3. is_in_progress(u)
  BY <1>2, NotNone DEF is_in_progress
<1>4. TunnelType /\ Become(e, u)
  BY DEF KeysWaiting, KeysInv
<1> HIDE DEF u
<1>5. inits' \subseteq InitMessage
  BY <1>2, <1>4, Becomes
<1>6. tunn' = [tunn EXCEPT ![e] = u]
  BY <1>4 DEF Become
<1>7. made' = made /\ responses' = responses /\ data' \subseteq DataMessage
      /\ \A m \in data' \ data : FALSE
  BY <1>4 DEF TunnelType
<1> QED BY <1>1, <1>3, <1>5, <1>6, <1>7, EndStepSame

(* A state in which no initiation is new.                                  *)
LEMMA BecomesQuietly ==
  ASSUME KeysWaiting, NEW e \in Ends, NEW t, Keyed(e, t, made[e]), Become(e, t),
         t.stamp = tunn[e].stamp, t.packet_queue # <<>> => is_in_progress(t),
         data' \subseteq DataMessage, taken' \subseteq Payloads,
         \A m \in data' \ data : m.to = peer(e) /\ \E r \in made[e] : r.key = m.key,
         UNCHANGED <<responses, made>>
  PROVE  KeysWaiting'
<1>1. TunnelType /\ t \in Tunn /\ t.stamp \in Nat
  BY DEF KeysWaiting, KeysInv, Keyed, Tunn
<1>2. ~ (t.stamp > tunn[e].stamp)
  BY <1>1, SMTT(30)
<1>3. inits' \subseteq InitMessage
  BY <1>1, <1>2, Becomes
<1>4. tunn' = [tunn EXCEPT ![e] = t]
  BY DEF Become
<1> QED BY <1>3, <1>4, EndStepSame

LEMMA SendsPacket ==
  ASSUME KeysWaiting, NEW e \in Ends, NEW p \in Payloads, send_packet(e, p)
  PROVE  KeysWaiting'
<1> DEFINE t == tunn[e]
           q == queue_packet(t, p)
<1>1. TunnelType /\ Keyed(e, t, made[e]) /\ t \in Tunn
  BY DEF KeysWaiting, KeysInv, Keyed
<1>2. taken' \subseteq Payloads /\ UNCHANGED <<responses, delivered, made>> /\ p \in Packets
  BY <1>1 DEF send_packet, TunnelType, Packets
<1>3. Keyed(e, q, made[e]) /\ SameKeys(t, q)
  BY <1>1, <1>2, QueuesPacket, KeyedSame
<1>4. CASE CurrentSession(t) # None
  <2>1. data' = data \union Sealed(e, CurrentSession(t), {p}) /\ UNCHANGED <<tunn, inits>>
    BY <1>4 DEF send_packet, encapsulate
  <2>2. CurrentSession(t) \in made[e] /\ CurrentSession(t) \in Session
    BY <1>1, <1>4, CurrentIsMade
  <2>3. /\ Sealed(e, CurrentSession(t), {p}) \subseteq DataMessage
        /\ \A m \in Sealed(e, CurrentSession(t), {p}) :
             m.to = peer(e) /\ m.key = CurrentSession(t).key
    BY <1>2, <2>2, Seals, SMTT(30)
  <2>4. tunn' = [tunn EXCEPT ![e] = t] /\ inits' \subseteq InitMessage
        /\ made' = made /\ responses' = responses
    BY <1>1, <1>2, <2>1 DEF TunnelType
  <2>5. t.packet_queue # <<>> => is_in_progress(t)
    BY DEF KeysWaiting, WaitingIsInProgress
  <2>6. /\ data' \subseteq DataMessage
        /\ \A m \in data' \ data : m.to = peer(e) /\ \E r \in made[e] : r.key = m.key
    BY <1>1, <2>1, <2>2, <2>3 DEF TunnelType
  <2> HIDE DEF t
  <2> QED BY <1>1, <1>2, <2>4, <2>5, <2>6, EndStepSame
<1>5. CASE CurrentSession(t) = None /\ is_in_progress(t)
  <2>1. Become(e, q) /\ UNCHANGED data
    BY <1>5 DEF send_packet, encapsulate
  <2>2. is_in_progress(q) /\ q.stamp = t.stamp
    BY <1>3, <1>5 DEF SameKeys, is_in_progress
  <2> HIDE DEF q
  <2> QED BY <1>1, <1>2, <1>3, <2>1, <2>2, BecomesQuietly DEF TunnelType
<1>6. CASE CurrentSession(t) = None /\ ~ is_in_progress(t)
  <2>1. Become(e, initiate(q)) /\ UNCHANGED data
    BY <1>6 DEF send_packet, encapsulate
  <2> HIDE DEF q
  <2> QED BY <1>2, <1>3, <2>1, BecomesInitiated
<1> QED BY <1>4, <1>5, <1>6

(* The step to what flush makes of t.                                      *)
LEMMA BecomesFlushed ==
  ASSUME TunnelType, NEW e \in Ends, NEW t \in Tunn, t.stamp = tunn[e].stamp,
         Become(e, flush(e, t).tunn)
  PROVE  /\ inits' \subseteq InitMessage
         /\ tunn' = [tunn EXCEPT ![e] = flush(e, t).tunn]
         /\ flush(e, t).tunn.current = t.current
         /\ flush(e, t).tunn.sessions = t.sessions
<1> DEFINE u == flush(e, t).tunn
<1>1. PICK v \in Tunn : SameKeys(t, v) /\ v.current = t.current /\ u \in {v, initiate(v)}
  BY Flushes
<1>2. v.stamp = tunn[e].stamp /\ v.stamp \in Nat /\ v.sessions = t.sessions
  BY <1>1 DEF SameKeys, Tunn
<1> HIDE DEF u
<1>3. u \in Tunn /\ u.current = t.current /\ u.sessions = t.sessions
      /\ (u.stamp > tunn[e].stamp => u.state \in Initiation)
  BY <1>1, <1>2, Initiates, SMTT(30)
<1>4. Become(e, u)
  BY DEF u
<1>5. inits' \subseteq InitMessage
  BY <1>3, <1>4, Becomes
<1>6. tunn' = [tunn EXCEPT ![e] = u]
  BY <1>4 DEF Become
<1> QED BY <1>3, <1>5, <1>6 DEF u

(* What flush sends is sealed with the session in use.                     *)
LEMMA FlushSends ==
  ASSUME NEW e \in Ends, NEW t, NEW M, Keyed(e, t, M)
  PROVE  /\ flush(e, t).sent \subseteq DataMessage
         /\ \A m \in flush(e, t).sent : m.to = peer(e) /\ \E r \in M : r.key = m.key
<1>1. t \in Tunn /\ Elements(t.packet_queue) \in SUBSET Packets
  BY SMTT(30) DEF Keyed, Tunn, Elements
<1>2. CASE flush(e, t).sent = {}
  BY <1>2
<1>3. CASE /\ CurrentSession(t) # None
           /\ flush(e, t).sent = Sealed(e, CurrentSession(t), Elements(t.packet_queue))
  <2>1. CurrentSession(t) \in M /\ CurrentSession(t) \in Session
    BY <1>3, CurrentIsMade
  <2> QED BY <1>1, <1>3, <2>1, Seals, SMTT(30)
<1> QED BY <1>1, <1>2, <1>3, Flushes

(* The peer has a session with the keys of the session an endpoint turns   *)
(* to.                                                                     *)
Confirmed ==
  \A e \in Ends : tunn'[e].current # tunn[e].current =>
    \E r \in made[peer(e)] : r.key = tunn'[e].sessions[Slot(tunn'[e].current)].key

LEMMA AnswersInitiation ==
  ASSUME KeysWaiting, NEW e \in Ends, NEW m \in inits, handle_handshake_init(e, m)
  PROVE  KeysWaiting' /\ Confirmed
<1> DEFINE n == Accepted(tunn[e], m)
           t == answer(tunn[e], m)
           d == flush(e, t)
           N == {n}
           x == [to |-> m.from, key |-> n.key, index |-> n.receiving, receiver |-> m.index]
<1>1. TunnelType /\ Keyed(e, tunn[e], made[e]) /\ tunn[e] \in Tunn
  BY DEF KeysWaiting, KeysInv, Keyed
<1>2. m \in InitMessage /\ m.from # e /\ after(m.stamp, tunn[e].last_handshake_timestamp)
  BY <1>1 DEF handle_handshake_init, TunnelType
<1>3. /\ n \in Session /\ n.key = <<m.from, m.stamp>>
      /\ Keyed(e, t, made[e] \union N)
      /\ t.current = tunn[e].current /\ t.stamp = tunn[e].stamp
  BY <1>1, <1>2, KeyedAnswer
<1>4. t \in Tunn
  BY <1>3 DEF Keyed
<1>5. /\ Become(e, d.tunn) /\ data' = data \union d.sent /\ responses' = responses \union {x}
      /\ made' = [made EXCEPT ![e] = @ \union N] /\ taken' = taken
  BY DEF handle_handshake_init
<1>6. n.sending = m.index
  BY DEF Accepted
<1> HIDE DEF n, t
<1>7. /\ Keyed(e, d.tunn, made[e] \union N)
      /\ d.tunn.packet_queue # <<>> => is_in_progress(d.tunn)
      /\ d.sent \subseteq DataMessage
      /\ \A y \in d.sent : y.to = peer(e) /\ \E r \in made[e] \union N : r.key = y.key
  <2>1. Keyed(e, d.tunn, made[e] \union N)
    BY <1>3, KeyedFlush
  <2>2. d.tunn.packet_queue # <<>> => is_in_progress(d.tunn)
    BY <1>4, Flushes
  <2> QED BY <1>3, <2>1, <2>2, FlushSends, SMTT(30)
<1>8. /\ inits' \subseteq InitMessage /\ tunn' = [tunn EXCEPT ![e] = d.tunn]
      /\ d.tunn.current = t.current
  BY <1>1, <1>3, <1>4, <1>5, BecomesFlushed
<1> HIDE DEF d
<1>9. m.from = peer(e) /\ x \in ResponseMessage
  BY <1>2, <1>3, Peers DEF InitMessage, ResponseMessage, Session
<1>10. x.to = peer(e) /\ Other(made[e] \union N, x.key, x.index, x.receiver)
  BY <1>3, <1>6, <1>9 DEF Other
<1>11. \A y \in responses' \ responses :
         y.to = peer(e) /\ Other(made[e] \union N, y.key, y.index, y.receiver)
  BY <1>5, <1>10
<1>12. \A s \in N : s.key[1] = e => Other(made[peer(e)], s.key, s.sending, s.receiving)
  BY <1>2, <1>3, SMTT(30)
<1>13. N \in SUBSET Session /\ responses' \subseteq ResponseMessage
       /\ data' \subseteq DataMessage /\ taken' \subseteq Payloads
  BY <1>1, <1>3, <1>5, <1>7, <1>9 DEF TunnelType
<1>14. \A y \in data' \ data : y.to = peer(e) /\ \E r \in made[e] \union N : r.key = y.key
  BY <1>5, <1>7
<1>15. Confirmed
  BY <1>1, <1>3, <1>8 DEF Confirmed, TunnelType
<1> HIDE DEF N, x
<1>16. KeysWaiting'
  BY <1>5, <1>7, <1>8, <1>11, <1>12, <1>13, <1>14, EndStep
<1> QED BY <1>15, <1>16

LEMMA TakesResponse ==
  ASSUME KeysWaiting, NEW e \in Ends, NEW m \in responses, handle_handshake_response(e, m)
  PROVE  KeysWaiting' /\ Confirmed
<1> DEFINE n == Completed(tunn[e], m)
           t == Completing(tunn[e], m)
           d == flush(e, t)
           N == {n}
           K == Sealed(e, n, {Keepalive})
<1>1. TunnelType /\ Keyed(e, tunn[e], made[e]) /\ tunn[e] \in Tunn
  BY DEF KeysWaiting, KeysInv, Keyed
<1>2. /\ m \in ResponseMessage /\ m.to = e
      /\ Awaits(Answered(tunn[e], m), m.receiver) /\ m.key = <<e, Answered(tunn[e], m).stamp>>
  BY <1>1 DEF handle_handshake_response, TunnelType, Answered
<1>3. /\ n \in Session /\ n.key = m.key /\ n.receiving = m.receiver /\ n.sending = m.index
      /\ Keyed(e, t, made[e] \union N) /\ t.stamp = tunn[e].stamp
      /\ t.current # tunn[e].current => CurrentSession(t) = n
  <2>1. Completes(e, tunn[e], made[e], m)
    BY <1>1, <1>2, KeyedComplete
  <2> QED BY <2>1 DEF Completes
<1>4. t \in Tunn
  BY <1>3 DEF Keyed
<1>5. /\ Become(e, d.tunn) /\ data' = data \union d.sent \union K /\ responses' = responses
      /\ made' = [made EXCEPT ![e] = @ \union N] /\ taken' = taken
  BY DEF handle_handshake_response, Completing
<1> HIDE DEF n, t
<1>6. /\ Keyed(e, d.tunn, made[e] \union N)
      /\ d.tunn.packet_queue # <<>> => is_in_progress(d.tunn)
      /\ d.sent \subseteq DataMessage
      /\ \A y \in d.sent : y.to = peer(e) /\ \E r \in made[e] \union N : r.key = y.key
  <2>1. Keyed(e, d.tunn, made[e] \union N)
    BY <1>3, KeyedFlush
  <2>2. d.tunn.packet_queue # <<>> => is_in_progress(d.tunn)
    BY <1>4, Flushes
  <2> QED BY <1>3, <2>1, <2>2, FlushSends, SMTT(30)
<1>7. /\ inits' \subseteq InitMessage /\ tunn' = [tunn EXCEPT ![e] = d.tunn]
      /\ d.tunn.current = t.current /\ d.tunn.sessions = t.sessions
  BY <1>1, <1>3, <1>4, <1>5, BecomesFlushed
<1> HIDE DEF d
<1>8. /\ K \subseteq DataMessage
      /\ \A y \in K : y.to = peer(e) /\ y.key = n.key
  BY <1>3, Seals, SMTT(30) DEF Packets
<1> HIDE DEF K
<1>9. Paired(e)
  BY DEF KeysWaiting, KeysInv
<1>10. Other(made[peer(e)], n.key, n.sending, n.receiving)
  BY <1>2, <1>3, <1>9 DEF Paired
<1>11. \A s \in N : s.key[1] = e => Other(made[peer(e)], s.key, s.sending, s.receiving)
  BY <1>10
<1>12. N \in SUBSET Session /\ responses' \subseteq ResponseMessage
       /\ data' \subseteq DataMessage /\ taken' \subseteq Payloads
  BY <1>1, <1>3, <1>5, <1>6, <1>8 DEF TunnelType
<1>13. \A y \in data' \ data : y.to = peer(e) /\ \E r \in made[e] \union N : r.key = y.key
  BY <1>5, <1>6, <1>8
<1>14. Confirmed
  <2>1. tunn'[e] = d.tunn /\ \A f \in Ends : f # e => tunn'[f] = tunn[f]
    BY <1>1, <1>7 DEF TunnelType
  <2>2. ASSUME tunn'[e].current # tunn[e].current
        PROVE  tunn'[e].sessions[Slot(tunn'[e].current)] = n
    BY <1>3, <1>7, <2>1, <2>2 DEF CurrentSession
  <2> QED BY <1>10, <2>1, <2>2 DEF Confirmed, Other
<1> HIDE DEF N
<1>15. \A y \in responses' \ responses :
         y.to = peer(e) /\ Other(made[e] \union N, y.key, y.index, y.receiver)
  BY <1>5
<1>16. KeysWaiting'
  BY <1>5, <1>6, <1>7, <1>11, <1>12, <1>13, <1>15, EndStep
<1> QED BY <1>14, <1>16

LEMMA TakesData ==
  ASSUME KeysWaiting, NEW e \in Ends, NEW m \in data, handle_data(e, m)
  PROVE  KeysWaiting' /\ Confirmed
<1> DEFINE t == tunn[e]
           u == set_current_session(t, m.receiver)
<1>1. TunnelType /\ Keyed(e, t, made[e]) /\ t \in Tunn
  BY DEF KeysWaiting, KeysInv, Keyed
<1>2. /\ m.to = e /\ m.receiver \in Nat
      /\ t.sessions[Slot(m.receiver)] # None /\ t.sessions[Slot(m.receiver)].key = m.key
      /\ tunn' = [tunn EXCEPT ![e] = u] /\ data' \subseteq data
      /\ inits' = inits /\ responses' = responses /\ taken' = taken /\ made' = made
  BY <1>1 DEF handle_data, TunnelType, DataMessage
<1>3. /\ SameKeys(t, u) /\ u.packet_queue = t.packet_queue
      /\ u.current \in {t.current, m.receiver}
  BY <1>1, <1>2, SetsCurrent
<1>4. t.packet_queue # <<>> => is_in_progress(t)
  BY DEF KeysWaiting, WaitingIsInProgress
<1> HIDE DEF u
<1>5. Keyed(e, u, made[e]) /\ (u.packet_queue # <<>> => is_in_progress(u))
  BY <1>1, <1>3, <1>4, KeyedSame DEF SameKeys, is_in_progress
<1>6. inits' \subseteq InitMessage /\ data' \subseteq DataMessage /\ taken' \subseteq Payloads
      /\ \A y \in data' \ data : FALSE
  BY <1>1, <1>2 DEF TunnelType
<1>7. KeysWaiting'
  BY <1>2, <1>5, <1>6, EndStepSame
<1>8. tunn'[e] = u /\ \A f \in Ends : f # e => tunn'[f] = tunn[f]
  BY <1>1, <1>2 DEF TunnelType
<1>9. \E r \in made[peer(e)] : r.key = m.key
  BY <1>2 DEF KeysWaiting, KeysInv, Paired
<1>10. Confirmed
  BY <1>2, <1>3, <1>8, <1>9, SMTT(30) DEF Confirmed, SameKeys
<1> QED BY <1>7, <1>10

LEMMA Updates ==
  ASSUME KeysWaiting, NEW e \in Ends, NEW time \in Nat, NEW cutoff \in Nat,
         update_timers(e, time, cutoff)
  PROVE  KeysWaiting' /\ Confirmed
<1> DEFINE t == update_session_timers([tunn[e] EXCEPT !.time = time], cutoff)
           q == queue_packet(t, Keepalive)
           x == set_expired(t)
<1>1. TunnelType /\ Keyed(e, tunn[e], made[e])
  BY DEF KeysWaiting, KeysInv
<1>2. /\ Keyed(e, t, made[e]) /\ t.state = tunn[e].state /\ t.current = tunn[e].current
      /\ t.packet_queue = tunn[e].packet_queue /\ t.stamp = tunn[e].stamp
  BY <1>1, KeyedDrop, SMTT(30)
<1>3. /\ taken' = taken /\ responses' = responses /\ made' = made
      /\ \/ Become(e, t) /\ data' = data
         \/ Become(e, x) /\ data' = data
         \/ Become(e, initiate(t)) /\ data' = data
         \/ /\ CurrentSession(t) # None /\ Become(e, t)
            /\ data' = data \union Sealed(e, CurrentSession(t), {Keepalive})
         \/ Become(e, initiate(q)) /\ data' = data
  BY DEF update_timers
<1> HIDE DEF t
<1>4. t \in Tunn /\ Keepalive \in Packets /\ taken' \subseteq Payloads
      /\ data \subseteq DataMessage
  BY <1>1, <1>2, <1>3 DEF Keyed, Packets, TunnelType
<1>5. Keyed(e, q, made[e]) /\ q \in Tunn /\ q.current = t.current
  BY <1>2, <1>4, QueuesPacket, KeyedSame, SMTT(30) DEF SameKeys
<1>6. Keyed(e, x, made[e]) /\ x.packet_queue = <<>> /\ x.current = t.current
      /\ x.stamp = t.stamp
  BY <1>2, KeyedExpire
<1>7. t.packet_queue # <<>> => is_in_progress(t)
  BY <1>2 DEF KeysWaiting, WaitingIsInProgress, is_in_progress
<1> HIDE DEF q, x
<1>8. KeysWaiting'
  <2>1. CASE Become(e, t) /\ data' = data
    BY <1>2, <1>3, <1>4, <1>7, <2>1, BecomesQuietly
  <2>2. CASE Become(e, x) /\ data' = data
    BY <1>2, <1>3, <1>4, <1>6, <2>2, BecomesQuietly
  <2>3. CASE Become(e, initiate(t)) /\ data' = data
    BY <1>2, <1>3, <1>4, <2>3, BecomesInitiated
  <2>4. CASE /\ CurrentSession(t) # None /\ Become(e, t)
             /\ data' = data \union Sealed(e, CurrentSession(t), {Keepalive})
    <3>1. CurrentSession(t) \in made[e] /\ CurrentSession(t) \in Session
      BY <1>2, <2>4, CurrentIsMade
    <3>2. /\ data' \subseteq DataMessage
          /\ \A m \in data' \ data : m.to = peer(e) /\ \E r \in made[e] : r.key = m.key
      BY <1>4, <2>4, <3>1, Seals, SMTT(30)
    <3> QED BY <1>2, <1>3, <1>4, <1>7, <2>4, <3>2, BecomesQuietly
  <2>5. CASE Become(e, initiate(q)) /\ data' = data
    BY <1>3, <1>4, <1>5, <2>5, BecomesInitiated
  <2> QED BY <1>3, <2>1, <2>2, <2>3, <2>4, <2>5
<1>9. Confirmed
  <2>1. initiate(t).current = t.current /\ initiate(q).current = t.current
    BY <1>4, <1>5, Initiates
  <2>2. PICK u : tunn' = [tunn EXCEPT ![e] = u] /\ u.current = t.current
    BY <1>3, <1>6, <2>1 DEF Become
  <2> QED BY <1>1, <1>2, <2>2 DEF Confirmed, TunnelType
<1> QED BY <1>8, <1>9

LEMMA KeepsCurrent ==
  ASSUME KeysWaiting, NEW e \in Ends, NEW p \in Payloads, send_packet(e, p)
  PROVE  Confirmed
<1> DEFINE t == tunn[e]
           q == queue_packet(t, p)
<1>1. TunnelType /\ t \in Tunn /\ p \in Packets
  BY DEF KeysWaiting, KeysInv, TunnelType, Packets
<1>2. q \in Tunn /\ q.current = t.current
  BY <1>1, QueuesPacket DEF SameKeys
<1>3. initiate(q).current = t.current
  BY <1>2, Initiates
<1>4. tunn' = tunn \/ tunn' = [tunn EXCEPT ![e] = q] \/ tunn' = [tunn EXCEPT ![e] = initiate(q)]
  BY DEF send_packet, encapsulate, Become
<1> HIDE DEF q
<1> QED BY <1>1, <1>2, <1>3, <1>4 DEF Confirmed, TunnelType

LEMMA NextKeys == KeysWaiting /\ [Next]_vars => KeysWaiting' /\ (Confirmed \/ UNCHANGED vars)
<1> SUFFICES ASSUME KeysWaiting, [Next]_vars
             PROVE  KeysWaiting' /\ (Confirmed \/ UNCHANGED vars)
  OBVIOUS
<1>1. CASE UNCHANGED vars
  <2>1. KeysWaiting'
    BY <1>1 DEF vars, KeysWaiting, KeysInv, TunnelType, Paired, WaitingIsInProgress
  <2> QED BY <1>1, <2>1
<1>2. ASSUME NEW e \in Ends, NEW p \in Payloads, send_packet(e, p)
      PROVE  KeysWaiting' /\ Confirmed
  BY <1>2, SendsPacket, KeepsCurrent
<1>3. ASSUME NEW e \in Ends, NEW time \in 0..MaxTime[e], NEW cutoff \in 0..MaxTime[e],
             update_timers(e, time, cutoff)
      PROVE  KeysWaiting' /\ Confirmed
  <2>1. time \in Nat /\ cutoff \in Nat
    BY TunnelAssumption, SMTT(30)
  <2> QED BY <1>3, <2>1, Updates
<1> QED BY <1>1, <1>2, <1>3, AnswersInitiation, TakesResponse, TakesData DEF Next

-----------------------------------------------------------------------------
(* Theorems *)

LEMMA KeysHold == Spec => []KeysWaiting
<1>1. Init => KeysWaiting
  BY InitKeys DEF KeysWaiting
<1> QED BY <1>1, NextKeys, PTL DEF Spec

(* No handshake makes two sessions at one endpoint, whatever is repeated.  *)
THEOREM NoKeyTwice == Spec => []KeysUsedOnce
<1>1. KeysWaiting => KeysUsedOnce
  BY DEF KeysWaiting, KeysInv, Keyed, KeysUsedOnce, Open
<1> QED BY <1>1, KeysHold, PTL

(* Two sessions with the same keys send to each other's index.             *)
THEOREM SessionsArePairs == Spec => []SessionsMatch
<1>1. KeysWaiting => SessionsMatch
  <2> SUFFICES ASSUME KeysWaiting, NEW e \in Ends, NEW s \in made[e], NEW r \in made[peer(e)],
                      s.key = r.key
               PROVE  s.sending = r.receiving /\ s.receiving = r.sending
    BY DEF SessionsMatch
  <2> USE DEF KeysWaiting, KeysInv
  <2>1. s.key[1] \in Ends
    BY DEF Keyed, Session
  <2>2. CASE s.key[1] = e
    <3>1. Other(made[peer(e)], s.key, s.sending, s.receiving)
      BY <2>2 DEF Paired
    <3>2. \A x \in made[peer(e)] : x.key = r.key => x = r
      BY Peers DEF Keyed
    <3> QED BY <3>1, <3>2 DEF Other
  <2>3. CASE s.key[1] = peer(e)
    <3>1. Other(made[e], r.key, r.sending, r.receiving)
      BY <2>3, Peers DEF Paired
    <3>2. \A x \in made[e] : x.key = s.key => x = s
      BY DEF Keyed
    <3> QED BY <3>1, <3>2 DEF Other
  <2> QED BY <2>1, <2>2, <2>3, Peers
<1> QED BY <1>1, KeysHold, PTL

(* No packet waits for a session that no handshake is under way for.       *)
THEOREM QueueIsWaitedFor == Spec => []WaitingIsInProgress
<1>1. KeysWaiting => WaitingIsInProgress
  BY DEF KeysWaiting
<1> QED BY <1>1, KeysHold, PTL

(* An endpoint turns to a session only if the other has its keys.          *)
THEOREM CurrentIsConfirmed == Spec => ConfirmedBeforeCurrent
<1>1. KeysWaiting /\ [Next]_vars => [Confirmed]_vars
  BY NextKeys
<1> QED BY <1>1, KeysHold, PTL DEF Spec, ConfirmedBeforeCurrent, Confirmed

-----------------------------------------------------------------------------

(* Where a packet can be.                                                  *)
Queued(e, i, p) == i \in DOMAIN tunn[e].packet_queue /\ tunn[e].packet_queue[i] = p

PlaceInv ==
  \A p \in Payloads :
    /\ \A e, f \in Ends : \A i, j \in Nat :
         Queued(e, i, p) /\ Queued(f, j, p) => e = f /\ i = j
    /\ \A m, n \in data : m.packet = p /\ n.packet = p => m = n
    /\ \A e \in Ends : \A i \in Nat : \A m \in data : Queued(e, i, p) => m.packet # p
    /\ \A e \in Ends : \A i \in Nat : Queued(e, i, p) => p \in taken \ delivered
    /\ \A m \in data : m.packet = p => p \in taken \ delivered
    /\ p \in delivered => p \in taken

PacketsInv == KeysWaiting /\ PlaceInv

(* Queue r has the packets of q, in any order, or some of them, and any    *)
(* number of keepalives.                                                   *)
From(q, r) ==
  /\ \A i \in DOMAIN r : r[i] \in Payloads => \E k \in DOMAIN q : q[k] = r[i]
  /\ \A i, j \in DOMAIN r :
       i # j /\ r[i] = r[j] /\ r[i] \in Payloads =>
         \E k, l \in DOMAIN q : k # l /\ q[k] = r[i] /\ q[l] = r[i]

LEMMA PlacesKept ==
  ASSUME TunnelType, PlaceInv, NEW e \in Ends, tunn' \in [Ends -> Tunn],
         From(tunn[e].packet_queue, tunn'[e].packet_queue),
         \A f \in Ends : f # e => tunn'[f] = tunn[f],
         \A m \in data' \ data : m.packet \notin Payloads,
         taken' = taken, delivered' = delivered
  PROVE  PlaceInv'
<1> SUFFICES ASSUME NEW p \in Payloads
             PROVE  /\ \A f, g \in Ends : \A i, j \in Nat :
                         Queued(f, i, p)' /\ Queued(g, j, p)' => f = g /\ i = j
                    /\ \A m, n \in data' : m.packet = p /\ n.packet = p => m = n
                    /\ \A f \in Ends : \A i \in Nat : \A m \in data' :
                         Queued(f, i, p)' => m.packet # p
                    /\ \A f \in Ends : \A i \in Nat : Queued(f, i, p)' => p \in taken \ delivered
                    /\ \A m \in data' : m.packet = p => p \in taken \ delivered
                    /\ p \in delivered => p \in taken
  BY DEF PlaceInv, Queued
<1>1. \A m \in data' : m.packet = p => m \in data
  OBVIOUS
<1>2. \A f \in Ends : tunn[f].packet_queue \in Seq(Packets)
  BY DEF TunnelType, Tunn
<1>3. ASSUME NEW f \in Ends, NEW i \in Nat, Queued(f, i, p)'
      PROVE  \E k \in Nat : Queued(f, k, p)
  BY <1>2, <1>3, SMTT(30) DEF Queued, From
<1>4. ASSUME NEW f \in Ends, NEW i \in Nat, NEW j \in Nat, Queued(f, i, p)', Queued(f, j, p)',
             i # j
      PROVE  \E k, l \in Nat : k # l /\ Queued(f, k, p) /\ Queued(f, l, p)
  BY <1>2, <1>4, SMTT(30) DEF Queued, From
<1>5. /\ \A f, g \in Ends : \A i, j \in Nat :
           Queued(f, i, p) /\ Queued(g, j, p) => f = g /\ i = j
      /\ \A f \in Ends : \A i \in Nat : \A m \in data : Queued(f, i, p) => m.packet # p
      /\ \A f \in Ends : \A i \in Nat : Queued(f, i, p) => p \in taken \ delivered
  BY DEF PlaceInv
<1>6. \A f, g \in Ends : \A i, j \in Nat :
        Queued(f, i, p)' /\ Queued(g, j, p)' => f = g /\ i = j
  BY <1>3, <1>4, <1>5, SMTT(30)
<1> QED BY <1>1, <1>3, <1>5, <1>6, SMTT(30) DEF PlaceInv

(* The queue of e is sent.                                                 *)
LEMMA PlacesSent ==
  ASSUME TunnelType, PlaceInv, NEW e \in Ends, tunn' \in [Ends -> Tunn],
         tunn'[e].packet_queue = <<>>,
         \A f \in Ends : f # e => tunn'[f] = tunn[f],
         NEW s, NEW K, data' = data \union Sealed(e, s, Elements(tunn[e].packet_queue)) \union K,
         \A m \in K : m.packet \notin Payloads,
         taken' = taken, delivered' = delivered
  PROVE  PlaceInv'
<1> SUFFICES ASSUME NEW p \in Payloads
             PROVE  /\ \A f, g \in Ends : \A i, j \in Nat :
                         Queued(f, i, p)' /\ Queued(g, j, p)' => f = g /\ i = j
                    /\ \A m, n \in data' : m.packet = p /\ n.packet = p => m = n
                    /\ \A f \in Ends : \A i \in Nat : \A m \in data' :
                         Queued(f, i, p)' => m.packet # p
                    /\ \A f \in Ends : \A i \in Nat : Queued(f, i, p)' => p \in taken \ delivered
                    /\ \A m \in data' : m.packet = p => p \in taken \ delivered
                    /\ p \in delivered => p \in taken
  BY DEF PlaceInv, Queued
<1> DEFINE x == [to |-> peer(e), key |-> s.key, receiver |-> s.sending, packet |-> p]
<1>1. \A f \in Ends : tunn[f].packet_queue \in Seq(Packets)
  BY DEF TunnelType, Tunn
<1>2. ASSUME NEW m \in data', m.packet = p, m \notin data
      PROVE  m = x /\ \E k \in Nat : Queued(e, k, p)
  BY <1>1, <1>2, SMTT(30) DEF Sealed, Elements, Queued
<1> HIDE DEF x
<1>3. ASSUME NEW f \in Ends, NEW i \in Nat, Queued(f, i, p)'
      PROVE  f # e /\ Queued(f, i, p)
  BY <1>3, SMTT(30) DEF Queued
<1> QED BY <1>2, <1>3, SMTT(30) DEF PlaceInv

LEMMA FromSame ==
  ASSUME NEW q \in Seq(Packets)
  PROVE  From(q, q) /\ From(q, <<>>) /\ From(q, Append(q, Keepalive))
<1>1. From(q, q) /\ From(q, <<>>)
  BY SMTT(30) DEF From
<1>2. Keepalive \notin Payloads
  BY TunnelAssumption DEF Keepalive
<1> DEFINE r == Append(q, Keepalive)
<1>3. DOMAIN q = 1..Len(q) /\ DOMAIN r = 1..(Len(q) + 1) /\ Len(q) \in Nat
      /\ \A i \in DOMAIN r : r[i] \in Payloads => i \in DOMAIN q /\ r[i] = q[i]
  BY <1>2, SMTT(30)
<1> HIDE DEF r
<1>4. From(q, r)
  BY <1>3 DEF From
<1> QED BY <1>1, <1>4 DEF r

LEMMA FromRotated ==
  ASSUME NEW q \in Seq(Packets), q # <<>>, NEW n \in {1, 2}
  PROVE  From(q, Rotated(q, n))
<1> DEFINE r == Rotated(q, n)
<1>1. /\ \A i \in DOMAIN r : \E k \in DOMAIN q : r[i] = q[k]
      /\ \A i, j \in DOMAIN r : i # j =>
           \E k, l \in DOMAIN q : k # l /\ r[i] = q[k] /\ r[j] = q[l]
  BY Rotates
<1> HIDE DEF r
<1>2. From(q, r)
  BY <1>1, SMTT(30) DEF From
<1> QED BY <1>2 DEF r

(* flush keeps the packets of the queue there, or sends them all.          *)
LEMMA FlushMoves ==
  ASSUME NEW e \in Ends, NEW t \in Tunn
  PROVE  \/ /\ flush(e, t).sent = {}
            /\ From(t.packet_queue, flush(e, t).tunn.packet_queue)
         \/ /\ flush(e, t).tunn.packet_queue = <<>>
            /\ flush(e, t).sent = Sealed(e, CurrentSession(t), Elements(t.packet_queue))
<1> DEFINE W(q) == [t EXCEPT !.packet_queue = q]
<1>1. t.packet_queue \in Seq(Packets)
  BY DEF Tunn
<1>2. \A q \in Seq(Packets) : W(q) \in Tunn /\ W(q).packet_queue = q
  BY DEF Tunn
<1>3. \A n \in {1, 2} : t.packet_queue # <<>> =>
        /\ Rotated(t.packet_queue, n) \in Seq(Packets)
        /\ From(t.packet_queue, Rotated(t.packet_queue, n))
  BY <1>1, Rotates, FromRotated
<1>4. \/ /\ flush(e, t).tunn = W(<<>>)
         /\ flush(e, t).sent = Sealed(e, CurrentSession(t), Elements(t.packet_queue))
      \/ flush(e, t).tunn = t /\ flush(e, t).sent = {}
      \/ /\ t.packet_queue # <<>> /\ flush(e, t).sent = {}
         /\ \/ flush(e, t).tunn = W(Rotated(t.packet_queue, 1))
            \/ flush(e, t).tunn = initiate(W(Rotated(t.packet_queue, 2)))
  BY DEF flush, Tunn
<1> HIDE DEF W
<1>5. CASE /\ flush(e, t).tunn = W(<<>>)
           /\ flush(e, t).sent = Sealed(e, CurrentSession(t), Elements(t.packet_queue))
  <2>1. <<>> \in Seq(Packets)
    BY SMTT(30)
  <2> QED BY <1>2, <1>5, <2>1
<1>6. CASE flush(e, t).tunn = t /\ flush(e, t).sent = {}
  BY <1>1, <1>6, FromSame
<1>7. CASE /\ t.packet_queue # <<>> /\ flush(e, t).sent = {}
           /\ flush(e, t).tunn = W(Rotated(t.packet_queue, 1))
  BY <1>2, <1>3, <1>7
<1>8. CASE /\ t.packet_queue # <<>> /\ flush(e, t).sent = {}
           /\ flush(e, t).tunn = initiate(W(Rotated(t.packet_queue, 2)))
  BY <1>2, <1>3, <1>8, Initiates, SMTT(30)
<1> QED BY <1>4, <1>5, <1>6, <1>7, <1>8

(* A step to what flush makes of t, which has the queue of e.              *)
LEMMA PlacesFlushed ==
  ASSUME TunnelType, PlaceInv, NEW e \in Ends, NEW t \in Tunn, tunn' \in [Ends -> Tunn],
         tunn' = [tunn EXCEPT ![e] = flush(e, t).tunn],
         t.packet_queue = tunn[e].packet_queue,
         NEW K, data' = data \union flush(e, t).sent \union K,
         \A m \in K : m.packet \notin Payloads,
         taken' = taken, delivered' = delivered
  PROVE  PlaceInv'
<1>1. tunn'[e] = flush(e, t).tunn /\ \A f \in Ends : f # e => tunn'[f] = tunn[f]
  BY DEF TunnelType
<1>2. CASE /\ flush(e, t).sent = {}
           /\ From(t.packet_queue, flush(e, t).tunn.packet_queue)
  BY <1>1, <1>2, PlacesKept
<1>3. CASE /\ flush(e, t).tunn.packet_queue = <<>>
           /\ flush(e, t).sent = Sealed(e, CurrentSession(t), Elements(t.packet_queue))
  <2>1. tunn'[e].packet_queue = <<>>
    BY <1>1, <1>3
  <2>2. data' = data \union Sealed(e, CurrentSession(t), Elements(tunn[e].packet_queue)) \union K
    BY <1>3
  <2> QED BY <1>1, <2>1, <2>2, PlacesSent
<1> QED BY <1>2, <1>3, FlushMoves

(* A packet is read: it is nowhere yet, and goes to one place at most.     *)
LEMMA PlacesTaken ==
  ASSUME TunnelType, PlaceInv, NEW e \in Ends, NEW p \in Payloads \ taken,
         tunn' \in [Ends -> Tunn], \A f \in Ends : f # e => tunn'[f] = tunn[f],
         \/ data' = data /\ tunn'[e].packet_queue
                              \in {tunn[e].packet_queue, Append(tunn[e].packet_queue, p)}
         \/ /\ tunn'[e].packet_queue = tunn[e].packet_queue
            /\ \E s : data' = data \union Sealed(e, s, {p}),
         taken' = taken \union {p}, delivered' = delivered
  PROVE  PlaceInv'
<1> SUFFICES ASSUME NEW r \in Payloads
             PROVE  /\ \A f, g \in Ends : \A i, j \in Nat :
                         Queued(f, i, r)' /\ Queued(g, j, r)' => f = g /\ i = j
                    /\ \A m, n \in data' : m.packet = r /\ n.packet = r => m = n
                    /\ \A f \in Ends : \A i \in Nat : \A m \in data' :
                         Queued(f, i, r)' => m.packet # r
                    /\ \A f \in Ends : \A i \in Nat : Queued(f, i, r)' => r \in taken' \ delivered'
                    /\ \A m \in data' : m.packet = r => r \in taken' \ delivered'
                    /\ r \in delivered' => r \in taken'
  BY DEF PlaceInv, Queued
<1>1. \A f \in Ends : tunn[f].packet_queue \in Seq(Packets)
  BY DEF TunnelType, Tunn
<1>2. \A f \in Ends : \A i \in Nat :
        Queued(f, i, r)' /\ ~ Queued(f, i, r) =>
          f = e /\ r = p /\ i = Len(tunn[e].packet_queue) + 1 /\ data' = data
  <2> SUFFICES ASSUME NEW f \in Ends, NEW i \in Nat, Queued(f, i, r)', ~ Queued(f, i, r)
               PROVE  f = e /\ r = p /\ i = Len(tunn[e].packet_queue) + 1 /\ data' = data
    OBVIOUS
  <2>1. f = e
    BY DEF Queued
  <2>2. tunn'[e].packet_queue = Append(tunn[e].packet_queue, p) /\ data' = data
    BY <2>1 DEF Queued
  <2> QED BY <1>1, <2>1, <2>2, SMTT(30) DEF Queued
<1>3. \A m \in data' : m \notin data => m.packet = p
  BY SMTT(30) DEF Sealed
<1>4. \A m, n \in data' : m \notin data /\ n \notin data => m = n
  BY DEF Sealed
<1>5. CASE r = p
  <2>1. /\ \A f \in Ends : \A i \in Nat : ~ Queued(f, i, p)
        /\ \A m \in data : m.packet # p
        /\ p \notin delivered
    BY DEF PlaceInv
  <2> QED BY <1>2, <1>3, <1>4, <1>5, <2>1, SMTT(30)
<1>6. CASE r # p
  <2>1. \A f \in Ends : \A i \in Nat : Queued(f, i, r)' => Queued(f, i, r)
    BY <1>2, <1>6
  <2>2. \A m \in data' : m.packet = r => m \in data
    BY <1>3, <1>6
  <2> QED BY <2>1, <2>2, SMTT(30) DEF PlaceInv
<1> QED BY <1>5, <1>6

(* A packet arrives.                                                       *)
LEMMA PlacesDelivered ==
  ASSUME TunnelType, PlaceInv, NEW x \in data,
         \A f \in Ends : tunn'[f].packet_queue = tunn[f].packet_queue,
         data' = data \ {x}, delivered' = delivered \union ({x.packet} \ {Keepalive}),
         taken' = taken
  PROVE  PlaceInv'
<1> SUFFICES ASSUME NEW r \in Payloads
             PROVE  /\ \A f, g \in Ends : \A i, j \in Nat :
                         Queued(f, i, r)' /\ Queued(g, j, r)' => f = g /\ i = j
                    /\ \A m, n \in data' : m.packet = r /\ n.packet = r => m = n
                    /\ \A f \in Ends : \A i \in Nat : \A m \in data' :
                         Queued(f, i, r)' => m.packet # r
                    /\ \A f \in Ends : \A i \in Nat : Queued(f, i, r)' => r \in taken' \ delivered'
                    /\ \A m \in data' : m.packet = r => r \in taken' \ delivered'
                    /\ r \in delivered' => r \in taken'
  BY DEF PlaceInv, Queued
<1>1. \A f \in Ends : \A i \in Nat : Queued(f, i, r)' => Queued(f, i, r)
  BY DEF Queued
<1> QED BY <1>1, SMTT(30) DEF PlaceInv

LEMMA PacketsStep ==
  ASSUME PacketsInv, [Next]_vars
  PROVE  PlaceInv'
<1> USE DEF PacketsInv
<1>1. TunnelType /\ TunnelType' /\ tunn' \in [Ends -> Tunn] /\ Keepalive \notin Payloads
  BY NextKeys, TunnelAssumption DEF KeysWaiting, KeysInv, TunnelType, Keepalive
<1>2. \A f \in Ends : Keyed(f, tunn[f], made[f]) /\ tunn[f] \in Tunn
                      /\ tunn[f].packet_queue \in Seq(Packets)
  BY DEF KeysWaiting, KeysInv, Keyed, Tunn
<1>3. ASSUME UNCHANGED vars PROVE PlaceInv'
  <2>1. UNCHANGED <<tunn, data, taken, delivered>>
    BY <1>3 DEF vars
  <2> QED BY <2>1, SMTT(30) DEF PlaceInv, Queued
<1>4. ASSUME NEW e \in Ends, NEW p \in Payloads, send_packet(e, p) PROVE PlaceInv'
  <2> DEFINE t == tunn[e]
             q == queue_packet(t, p)
  <2>1. /\ q \in Tunn /\ q.packet_queue \in {t.packet_queue, Append(t.packet_queue, p)}
        /\ initiate(q).packet_queue = q.packet_queue
    <3>1. SameKeys(t, q) /\ q.packet_queue \in {t.packet_queue, Append(t.packet_queue, p)}
      BY <1>2, QueuesPacket DEF Packets
    <3> QED BY <3>1, Initiates DEF SameKeys
  <2>2. /\ p \in Payloads \ taken /\ taken' = taken \union {p} /\ delivered' = delivered
        /\ \/ tunn' = tunn /\ data' = data \union Sealed(e, CurrentSession(t), {p})
           \/ tunn' \in {[tunn EXCEPT ![e] = q], [tunn EXCEPT ![e] = initiate(q)]}
              /\ data' = data
    BY <1>4 DEF send_packet, encapsulate, Become
  <2> HIDE DEF q
  <2>3. \A f \in Ends : f # e => tunn'[f] = tunn[f]
    BY <1>1, <2>2 DEF TunnelType
  <2>4. \/ data' = data /\ tunn'[e].packet_queue
                               \in {tunn[e].packet_queue, Append(tunn[e].packet_queue, p)}
        \/ /\ tunn'[e].packet_queue = tunn[e].packet_queue
           /\ \E s : data' = data \union Sealed(e, s, {p})
    BY <1>1, <2>1, <2>2 DEF TunnelType
  <2> QED BY <1>1, <2>2, <2>3, <2>4, PlacesTaken
<1>5. ASSUME NEW e \in Ends, NEW m \in inits, handle_handshake_init(e, m) PROVE PlaceInv'
  <2> DEFINE t == answer(tunn[e], m)
             K == {}
  <2>1. t \in Tunn /\ t.packet_queue = tunn[e].packet_queue
    <3>1. m \in InitMessage /\ m.from # e /\ after(m.stamp, tunn[e].last_handshake_timestamp)
      BY <1>1, <1>5 DEF handle_handshake_init, TunnelType
    <3>2. Keyed(e, t, made[e] \union {Accepted(tunn[e], m)})
      BY <1>2, <3>1, KeyedAnswer
    <3>3. t.packet_queue = tunn[e].packet_queue
      BY <1>2, <3>1, KeyedAnswer
    <3> QED BY <3>2, <3>3 DEF Keyed
  <2>2. /\ tunn' = [tunn EXCEPT ![e] = flush(e, t).tunn]
        /\ data' = data \union flush(e, t).sent \union K
        /\ taken' = taken /\ delivered' = delivered
    BY <1>5 DEF handle_handshake_init, Become
  <2> HIDE DEF t
  <2>3. \A x \in K : x.packet \notin Payloads
    OBVIOUS
  <2> HIDE DEF K
  <2> QED BY <1>1, <2>1, <2>2, <2>3, PlacesFlushed
<1>6. ASSUME NEW e \in Ends, NEW m \in responses, handle_handshake_response(e, m)
      PROVE  PlaceInv'
  <2> DEFINE t == Completing(tunn[e], m)
             K == Sealed(e, Completed(tunn[e], m), {Keepalive})
  <2>1. t \in Tunn /\ t.packet_queue = tunn[e].packet_queue
    <3>1. /\ m \in ResponseMessage /\ Awaits(Answered(tunn[e], m), m.receiver)
          /\ m.key = <<e, Answered(tunn[e], m).stamp>>
      BY <1>1, <1>6 DEF handle_handshake_response, TunnelType, Answered
    <3>2. Completes(e, tunn[e], made[e], m)
      BY <1>2, <3>1, KeyedComplete
    <3> QED BY <3>2 DEF Completes, Keyed
  <2>2. /\ tunn' = [tunn EXCEPT ![e] = flush(e, t).tunn]
        /\ data' = data \union flush(e, t).sent \union K
        /\ taken' = taken /\ delivered' = delivered
    BY <1>6 DEF handle_handshake_response, Become, Completing
  <2> HIDE DEF t
  <2>3. \A x \in K : x.packet \notin Payloads
    BY <1>1, SMTT(30) DEF Sealed
  <2> HIDE DEF K
  <2> QED BY <1>1, <2>1, <2>2, <2>3, PlacesFlushed
<1>7. ASSUME NEW e \in Ends, NEW m \in data, handle_data(e, m) PROVE PlaceInv'
  <2>1. /\ tunn' = [tunn EXCEPT ![e] = set_current_session(tunn[e], m.receiver)]
        /\ data' = data \ {m} /\ delivered' = delivered \union ({m.packet} \ {Keepalive})
        /\ taken' = taken /\ m.receiver \in Nat
    BY <1>1, <1>7 DEF handle_data, TunnelType, DataMessage
  <2>2. set_current_session(tunn[e], m.receiver).packet_queue = tunn[e].packet_queue
    BY <1>2, <2>1, SetsCurrent
  <2>3. \A f \in Ends : tunn'[f].packet_queue = tunn[f].packet_queue
    BY <1>1, <2>1, <2>2 DEF TunnelType
  <2> QED BY <1>1, <2>1, <2>3, PlacesDelivered
<1>8. ASSUME NEW e \in Ends, NEW time \in 0..MaxTime[e], NEW cutoff \in 0..MaxTime[e],
             update_timers(e, time, cutoff)
      PROVE  PlaceInv'
  <2> DEFINE t == update_session_timers([tunn[e] EXCEPT !.time = time], cutoff)
             q == queue_packet(t, Keepalive)
             Q == {tunn[e].packet_queue, <<>>, Append(tunn[e].packet_queue, Keepalive)}
  <2>1. time \in Nat /\ cutoff \in Nat
    BY TunnelAssumption, SMTT(30)
  <2>2. Keyed(e, t, made[e]) /\ t.packet_queue = tunn[e].packet_queue
    BY <1>2, <2>1, KeyedDrop, SMTT(30)
  <2>3. /\ taken' = taken /\ delivered' = delivered
        /\ tunn' \in {[tunn EXCEPT ![e] = u] : u \in {t, set_expired(t), initiate(t), initiate(q)}}
        /\ \A x \in data' \ data : x.packet \notin Payloads
    BY <1>1, <1>8, SMTT(30) DEF update_timers, Become, Sealed
  <2> HIDE DEF t
  <2>4. t \in Tunn /\ t.packet_queue \in Q /\ initiate(t).packet_queue \in Q
    BY <2>2, Initiates DEF Keyed
  <2>5. set_expired(t).packet_queue \in Q
    BY <2>2, KeyedExpire
  <2>6. q \in Tunn /\ q.packet_queue \in Q
    BY <2>2, <2>4, QueuesPacket DEF Packets, SameKeys
  <2>7. initiate(q).packet_queue \in Q
    BY <2>6, Initiates
  <2> HIDE DEF q, Q
  <2>8. tunn'[e].packet_queue \in Q /\ \A f \in Ends : f # e => tunn'[f] = tunn[f]
    BY <1>1, <2>3, <2>4, <2>5, <2>7 DEF TunnelType
  <2>9. From(tunn[e].packet_queue, tunn'[e].packet_queue)
    BY <1>2, <2>8, FromSame DEF Q
  <2> QED BY <1>1, <2>3, <2>8, <2>9, PlacesKept
<1> QED BY <1>3, <1>4, <1>5, <1>6, <1>7, <1>8 DEF Next

(* A packet is in one place: no flush, retry or late session doubles it.   *)
THEOREM PacketsAreConserved == Spec => []PacketsConserved
<1>1. Init => PacketsInv
  <2>1. Init => PlaceInv
    BY SMTT(30) DEF Init, PlaceInv, Queued
  <2> QED BY <2>1, InitKeys DEF PacketsInv, KeysWaiting
<1>2. PacketsInv /\ [Next]_vars => PacketsInv'
  BY NextKeys, PacketsStep DEF PacketsInv
<1>3. PacketsInv => PacketsConserved
  <2> SUFFICES ASSUME PacketsInv, NEW p \in taken, NEW x \in Places(p), NEW y \in Places(p)
               PROVE  x = y
    BY DEF PacketsConserved
  <2>1. p \in Payloads /\ \A f \in Ends : tunn[f].packet_queue \in Seq(Packets)
    BY DEF PacketsInv, KeysWaiting, KeysInv, TunnelType, Tunn
  <2>2. ASSUME NEW z \in Places(p)
        PROVE  \/ \E e \in Ends, i \in Nat : Queued(e, i, p) /\ z = <<"queued", e, i>>
               \/ \E m \in data : m.packet = p /\ z = <<"in flight", m>>
               \/ p \in delivered /\ z = <<"delivered", p>>
    <3> DEFINE D(e) == {j \in DOMAIN tunn[e].packet_queue : tunn[e].packet_queue[j] = p}
               A(e) == {<<"queued", e, i>> : i \in D(e)}
               B == {<<"in flight", m>> : m \in {n \in data : n.packet = p}}
               C == {<<"delivered", q>> : q \in {p} \intersect delivered}
    <3>1. (\E e \in Ends : z \in A(e)) \/ z \in B \/ z \in C
      BY <2>2 DEF Places
    <3>2. ASSUME NEW e \in Ends, z \in A(e)
          PROVE  \E i \in Nat : Queued(e, i, p) /\ z = <<"queued", e, i>>
      <4>1. PICK i \in D(e) : z = <<"queued", e, i>>
        BY <3>2
      <4>2. i \in DOMAIN tunn[e].packet_queue /\ tunn[e].packet_queue[i] = p
        BY <4>1
      <4>3. i \in Nat
        BY <2>1, <4>2, SMTT(30)
      <4> QED BY <4>1, <4>2, <4>3 DEF Queued
    <3> QED BY <3>1, <3>2
  <2> QED BY <2>1, <2>2 DEF PacketsInv, PlaceInv
<1> QED BY <1>1, <1>2, <1>3, PTL DEF Spec

=============================================================================
