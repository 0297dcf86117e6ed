---------------------------- MODULE ReplayWindow ----------------------------
(***************************************************************************)
(* The counters of one session (noise/session.rs): the sender numbers its  *)
(* packets, the network loses, repeats and reorders them, and the receiver *)
(* checks each counter before and after it decrypts the packet, against a  *)
(* bitmap of the last N_BITS counters.  Several threads may be decrypting. *)
(***************************************************************************)
EXTENDS Naturals, FiniteSets

CONSTANTS WORD_SIZE, N_WORDS,
          Readers,     \* threads inside receive_packet_data
          MaxCounter,  \* bound on the packets of a session
          NoPacket

ASSUME ReplayAssumption ==
  /\ WORD_SIZE \in Nat \ {0} /\ N_WORDS \in Nat \ {0}
  /\ MaxCounter \in Nat
  /\ NoPacket \notin Nat

VARIABLES sending_key_counter,
          next, receive_cnt,
          bitmap,      \* the bits that are set
          decrypting,  \* the counter each thread has checked, if any
          received     \* history: counters of the packets delivered

vars == <<sending_key_counter, next, receive_cnt, bitmap, decrypting, received>>

N_BITS == WORD_SIZE * N_WORDS

Init ==
  /\ sending_key_counter = 0
  /\ next = 0 /\ receive_cnt = 0 /\ bitmap = {}
  /\ decrypting = [r \in Readers |-> NoPacket]
  /\ received = {}

-----------------------------------------------------------------------------
(* ReceivingKeyCounterValidator *)

check_bit(idx) == idx % N_BITS \in bitmap

too_far_back(counter) == counter + N_BITS < next

will_accept(counter) ==
  \/ counter >= next
  \/ ~ too_far_back(counter) /\ ~ check_bit(counter)

word(idx) == {bit \in 0..(N_BITS - 1) : bit \div WORD_SIZE = (idx % N_BITS) \div WORD_SIZE}

bits(from, to) == {i % N_BITS : i \in from..(to - 1)}

(* Mutant: the bits after the last whole word are left as they are.        *)
skipped_no_tail(counter) ==
  LET up == ((next + WORD_SIZE - 1) \div WORD_SIZE) * WORD_SIZE
      aligned == IF up < counter THEN up ELSE counter
      words == IF aligned < counter THEN (counter - aligned - 1) \div WORD_SIZE ELSE 0
  IN  bits(next, aligned)
        \union (UNION {word(aligned + k * WORD_SIZE) : k \in 0..(words - 1)})

(* The bits cleared when the counter runs ahead: bit by bit up to a word   *)
(* boundary, then by whole words while more than a word is left, then bit  *)
(* by bit again.                                                           *)
skipped(counter) ==
  LET up == ((next + WORD_SIZE - 1) \div WORD_SIZE) * WORD_SIZE
      aligned == IF up < counter THEN up ELSE counter
      words == IF aligned < counter THEN (counter - aligned - 1) \div WORD_SIZE ELSE 0
  IN  bits(next, aligned)
        \union (UNION {word(aligned + k * WORD_SIZE) : k \in 0..(words - 1)})
        \union bits(aligned + words * WORD_SIZE, counter)

(* Mutant: the second check is taken for granted.                          *)
still_good_assumed(counter) == ~ too_far_back(counter)

(* mark_did_receive's answer ...                                           *)
still_good(counter) ==
  /\ ~ too_far_back(counter)
  /\ counter < next => ~ check_bit(counter)

(* ... and what it does to the bitmap.                                     *)
mark_did_receive(counter) ==
  LET kept == IF counter <= next THEN bitmap
              ELSE IF counter - next >= N_BITS THEN {}
              ELSE bitmap \ skipped(counter)
  IN  /\ bitmap' = kept \union {counter % N_BITS}
      /\ next' = IF counter < next THEN next ELSE counter + 1

-----------------------------------------------------------------------------
(* Session *)

format_packet_data ==
  /\ sending_key_counter <= MaxCounter
  /\ sending_key_counter' = sending_key_counter + 1
  /\ UNCHANGED <<next, receive_cnt, bitmap, decrypting, received>>

(* A packet with any counter, genuine or not, passes the first check.      *)
receiving_counter_quick_check(r, counter) ==
  /\ decrypting[r] = NoPacket
  /\ will_accept(counter)
  /\ decrypting' = [decrypting EXCEPT ![r] = counter]
  /\ UNCHANGED <<sending_key_counter, next, receive_cnt, bitmap, received>>

(* It was not sealed by the peer, or its counter has become stale.         *)
drop(r) ==
  /\ decrypting[r] # NoPacket
  /\ decrypting' = [decrypting EXCEPT ![r] = NoPacket]
  /\ UNCHANGED <<sending_key_counter, next, receive_cnt, bitmap, received>>

(* Only what the peer has sealed decrypts; then the counter is checked     *)
(* again and marked.                                                       *)
receiving_counter_mark(r) ==
  /\ decrypting[r] # NoPacket
  /\ decrypting[r] < sending_key_counter
  /\ still_good(decrypting[r])
  /\ mark_did_receive(decrypting[r])
  /\ receive_cnt' = receive_cnt + 1
  /\ received' = received \union {decrypting[r]}
  /\ decrypting' = [decrypting EXCEPT ![r] = NoPacket]
  /\ UNCHANGED sending_key_counter

Next ==
  \/ format_packet_data
  \/ \E r \in Readers, counter \in 0..MaxCounter : receiving_counter_quick_check(r, counter)
  \/ \E r \in Readers : drop(r)
  \/ \E r \in Readers : receiving_counter_mark(r)

Spec == Init /\ [][Next]_vars

-----------------------------------------------------------------------------
(* The bitmap tells exactly which of the last N_BITS counters have been    *)
(* received, after any jump ahead: nothing new is refused as a duplicate.  *)
WindowExact ==
  \A c \in 0..MaxCounter :
    c < next /\ next <= c + N_BITS => (check_bit(c) <=> c \in received)

(* The bitmap with its next counter implements the set of all counters     *)
(* ever received.                                                          *)
Abstract == INSTANCE AntiReplay WITH Window <- N_BITS

ImplementsAntiReplay == Abstract!Spec

=============================================================================
