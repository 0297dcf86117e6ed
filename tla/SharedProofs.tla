---------------------------- MODULE SharedProofs ----------------------------
(***************************************************************************)
(* Proofs about two structures that the threads of the device share: the   *)
(* sliding window of a session, for any word size and number of words, any *)
(* number of receiving threads and any bound on the counters; and the lock *)
(* around the device, for any number of workers.                           *)
(***************************************************************************)
EXTENDS ReplayWindow, DevLock, TLAPS

(* A step that names no prover is left to Zenon.                           *)
USE ZenonT(30)

-----------------------------------------------------------------------------
(* Division *)

LEMMA Times ==
  ASSUME NEW m \in Nat, NEW a \in Nat, NEW b \in Nat, a < b
  PROVE  m * a \in Nat /\ m * b \in Nat /\ m * a + m <= m * b
<1>1. b - a - 1 \in Nat
  BY SMTT(30)
<1>2. PICK d \in Nat : b = a + 1 + d
  BY <1>1, SMTT(30)
<1>3. m * b = m * a + m + m * d /\ m * d \in Nat
  BY <1>2, SMTT(30)
<1> QED BY <1>3, SMTT(30)

LEMMA DivMod ==
  ASSUME NEW n \in Nat, NEW m \in Nat \ {0}
  PROVE  /\ n \div m \in Nat /\ n % m \in Nat /\ n % m < m
         /\ n = m * (n \div m) + (n % m) /\ m * (n \div m) \in Nat
BY SMTT(30)

(* Quotient and remainder are what they should be.                         *)
LEMMA DivUnique ==
  ASSUME NEW m \in Nat \ {0}, NEW q \in Nat, NEW r \in Nat, r < m
  PROVE  (m * q + r) \div m = q /\ (m * q + r) % m = r
<1> DEFINE n == m * q + r
           p == n \div m
<1>1. n \in Nat /\ m * q \in Nat
  BY SMTT(30)
<1>2. p \in Nat /\ n % m \in Nat /\ n % m < m /\ n = m * p + (n % m) /\ m * p \in Nat
  BY <1>1, DivMod
<1>3. ~ p < q
  BY <1>1, <1>2, Times, SMTT(30)
<1>4. ~ q < p
  BY <1>1, <1>2, Times, SMTT(30)
<1>5. p = q
  BY <1>2, <1>3, <1>4, SMTT(30)
<1> QED BY <1>1, <1>2, <1>5, SMTT(30)

(* Counters less than n apart have different bits.                         *)
LEMMA DifferentBits ==
  ASSUME NEW n \in Nat \ {0}, NEW c \in Nat, NEW d \in Nat, c < d, d < c + n
  PROVE  c % n # d % n
<1> SUFFICES ASSUME c % n = d % n PROVE FALSE
  OBVIOUS
<1> DEFINE p == c \div n
           q == d \div n
<1>1. p \in Nat /\ q \in Nat /\ c % n \in Nat /\ c % n < n
  BY DivMod
<1>2. c = n * p + (c % n) /\ d = n * q + (c % n) /\ n * p \in Nat /\ n * q \in Nat
  BY DivMod
<1> HIDE DEF p, q
<1>3. CASE p < q
  BY <1>1, <1>2, <1>3, Times, SMTT(30)
<1>4. CASE q < p
  BY <1>1, <1>2, <1>4, Times, SMTT(30)
<1>5. CASE p = q
  BY <1>2, <1>5, SMTT(30)
<1> QED BY <1>1, <1>3, <1>4, <1>5, SMTT(30)

-----------------------------------------------------------------------------
(* Clearing the bitmap *)

LEMMA BitCount == N_BITS \in Nat \ {0}
BY ReplayAssumption, SMTT(30) DEF N_BITS

LEMMA InBits ==
  ASSUME NEW from, NEW to, NEW b
  PROVE  b \in bits(from, to) <=> \E i \in from..(to - 1) : b = i % N_BITS
BY DEF bits

(* A word holds the bits of WORD_SIZE counters in a row, the first one on  *)
(* a word boundary.                                                        *)
LEMMA WordBits ==
  ASSUME NEW j \in Nat
  PROVE  word(WORD_SIZE * j) = bits(WORD_SIZE * j, WORD_SIZE * j + WORD_SIZE)
<1> DEFINE W == WORD_SIZE
           x == W * j
           a == j \div N_WORDS
           b == j % N_WORDS
<1>1. W \in Nat \ {0} /\ N_WORDS \in Nat \ {0} /\ x \in Nat
  BY ReplayAssumption, SMTT(30)
<1>2. a \in Nat /\ b \in Nat /\ b < N_WORDS /\ j = N_WORDS * a + b
  BY <1>1, DivMod
<1>3. W * b \in Nat /\ W * b + W <= N_BITS
  BY <1>1, <1>2, Times DEF N_BITS
<1>4. N_BITS \in Nat \ {0} /\ N_BITS * a \in Nat /\ x = N_BITS * a + W * b
  BY <1>1, <1>2, BitCount, SMTT(30) DEF N_BITS
<1> HIDE DEF W, x, a, b
<1>5. \A o \in 0..(W - 1) : (x + o) % N_BITS = W * b + o
  <2> TAKE o \in 0..(W - 1)
  <2>1. W * b + o \in Nat /\ W * b + o < N_BITS
    BY <1>1, <1>3, BitCount, SMTT(30)
  <2>2. (N_BITS * a + (W * b + o)) % N_BITS = W * b + o
    BY <1>2, <1>4, <2>1, DivUnique
  <2>3. x + o = N_BITS * a + (W * b + o)
    BY <1>1, <1>3, <1>4, SMTT(30)
  <2> QED BY <2>2, <2>3
<1>6. x % N_BITS = W * b
  BY <1>1, <1>3, <1>5, SMTT(30)
<1>7. (x % N_BITS) \div W = b
  <2>1. (W * b + 0) \div W = b
    BY <1>1, <1>2, DivUnique, SMTT(30)
  <2> QED BY <1>3, <1>6, <2>1, SMTT(30)
<1>8. \A bit \in 0..(N_BITS - 1) :
        bit \div W = b <=> \E o \in 0..(W - 1) : bit = W * b + o
  <2> TAKE bit \in 0..(N_BITS - 1)
  <2>1. ASSUME bit \div W = b PROVE \E o \in 0..(W - 1) : bit = W * b + o
    <3>1. bit \in Nat
      BY BitCount, SMTT(30)
    <3>2. bit % W \in Nat /\ bit % W < W /\ bit = W * b + (bit % W)
      BY <1>1, <2>1, <3>1, DivMod
    <3>3. bit % W \in 0..(W - 1)
      BY <1>1, <3>2, SMTT(30)
    <3> QED BY <3>2, <3>3
  <2>2. ASSUME NEW o \in 0..(W - 1), bit = W * b + o PROVE bit \div W = b
    BY <1>1, <1>2, <2>2, DivUnique, SMTT(30)
  <2> QED BY <2>1, <2>2
<1>9. word(x) = {W * b + o : o \in 0..(W - 1)}
  <2>1. \A o \in 0..(W - 1) : W * b + o \in 0..(N_BITS - 1)
    BY <1>1, <1>3, <1>4, SMTT(30)
  <2> QED BY <1>7, <1>8, <2>1, SMTT(30) DEF word, W
<1>10. bits(x, x + W) = {W * b + o : o \in 0..(W - 1)}
  <2>1. \A i \in x..((x + W) - 1) : i - x \in 0..(W - 1) /\ i = x + (i - x)
    BY <1>1, SMTT(30)
  <2>2. \A o \in 0..(W - 1) : x + o \in x..((x + W) - 1)
    BY <1>1, SMTT(30)
  <2>3. \A i \in x..((x + W) - 1) : i % N_BITS = W * b + (i - x)
    BY <1>5, <2>1
  <2>4. \A c : c \in bits(x, x + W) <=> \E o \in 0..(W - 1) : c = W * b + o
    BY <1>5, <2>1, <2>2, <2>3, InBits, SMTT(30)
  <2> QED BY <2>4
<1> QED BY <1>9, <1>10 DEF W, x

(* Whole words in a row.                                                   *)
LEMMA WordsBits ==
  ASSUME NEW j \in Nat, NEW w \in Nat
  PROVE  UNION {word(WORD_SIZE * j + k * WORD_SIZE) : k \in 0..(w - 1)}
           = bits(WORD_SIZE * j, WORD_SIZE * j + w * WORD_SIZE)
<1> DEFINE W == WORD_SIZE
           x == W * j
<1>1. W \in Nat \ {0} /\ x \in Nat /\ w * W \in Nat
  BY ReplayAssumption, SMTT(30)
<1>2. \A k \in 0..(w - 1) : word(x + k * W) = bits(x + k * W, x + k * W + W)
  <2> TAKE k \in 0..(w - 1)
  <2>1. j + k \in Nat /\ x + k * W = W * (j + k)
    BY <1>1, SMTT(30)
  <2> QED BY <2>1, WordBits
<1> HIDE DEF W, x
<1>3. \A k \in 0..(w - 1) : k * W \in Nat /\ k * W + W <= w * W
  BY <1>1, Times, SMTT(30)
<1>4. \A k \in 0..(w - 1) : bits(x + k * W, x + k * W + W) \subseteq bits(x, x + w * W)
  <2> TAKE k \in 0..(w - 1)
  <2>1. (x + k * W)..((x + k * W + W) - 1) \subseteq x..((x + w * W) - 1)
    BY <1>1, <1>3, SMTT(30)
  <2> QED BY <2>1, InBits, SMTT(30)
<1>5. \A i \in x..((x + w * W) - 1) :
        \E k \in 0..(w - 1) : i \in (x + k * W)..((x + k * W + W) - 1)
  <2> TAKE i \in x..((x + w * W) - 1)
  <2> DEFINE k == (i - x) \div W
  <2>1. i - x \in Nat /\ i - x < w * W
    BY <1>1, SMTT(30)
  <2>2. k \in Nat /\ (i - x) % W \in Nat /\ (i - x) % W < W
        /\ i - x = W * k + ((i - x) % W) /\ W * k \in Nat
    BY <1>1, <2>1, DivMod
  <2> HIDE DEF k
  <2>3. k < w
    <3> SUFFICES ASSUME ~ k < w PROVE FALSE
      OBVIOUS
    <3>1. CASE w = k
      BY <1>1, <2>1, <2>2, <3>1, SMTT(30)
    <3>2. CASE w < k
      BY <1>1, <2>1, <2>2, <3>2, Times, SMTT(30)
    <3> QED BY <2>2, <3>1, <3>2, SMTT(30)
  <2>4. i \in (x + k * W)..((x + k * W + W) - 1)
    BY <1>1, <2>2, SMTT(30)
  <2> QED BY <2>2, <2>3, <2>4, SMTT(30)
<1>6. UNION {word(x + k * W) : k \in 0..(w - 1)} = bits(x, x + w * W)
  <2>1. \A b \in bits(x, x + w * W) : \E k \in 0..(w - 1) : b \in bits(x + k * W, x + k * W + W)
    BY <1>5, InBits, SMTT(30)
  <2> QED BY <1>2, <1>4, <2>1
<1> QED BY <1>6 DEF W, x

(* However the bits are cleared, they are those of the counters skipped.   *)
LEMMA SkippedBits ==
  ASSUME NEW counter \in Nat, next \in Nat, next < counter
  PROVE  skipped(counter) = bits(next, counter)
<1> DEFINE W == WORD_SIZE
           j == (next + W - 1) \div W
           up == j * W
           aligned == IF up < counter THEN up ELSE counter
           words == IF aligned < counter THEN (counter - aligned - 1) \div W ELSE 0
           whole == UNION {word(aligned + k * W) : k \in 0..(words - 1)}
<1>1. skipped(counter) = bits(next, aligned) \union whole
                           \union bits(aligned + words * W, counter)
  BY DEF skipped
<1>2. W \in Nat \ {0}
  BY ReplayAssumption
<1>3. j \in Nat /\ up \in Nat /\ next <= up /\ up = W * j
  <2>1. next + W - 1 \in Nat
    BY <1>2, SMTT(30)
  <2>2. j \in Nat /\ W * j \in Nat /\ (next + W - 1) % W < W
        /\ next + W - 1 = W * j + ((next + W - 1) % W) /\ (next + W - 1) % W \in Nat
    BY <1>2, <2>1, DivMod
  <2> HIDE DEF j
  <2> QED BY <1>2, <2>2, SMTT(30)
<1> HIDE DEF j, up, W
<1>4. CASE ~ up < counter
  <2>1. aligned = counter /\ words = 0 /\ 0 * W = 0
    BY <1>2, <1>4, SMTT(30)
  <2>2. whole = {}
    BY <2>1, SMTT(30)
  <2>3. bits(aligned + words * W, counter) = {}
    BY <2>1, SMTT(30) DEF bits
  <2> QED BY <1>1, <2>1, <2>2, <2>3, SMTT(30)
<1>5. CASE up < counter
  <2>1. aligned = up /\ words = (counter - up - 1) \div W
    BY <1>5
  <2>2. words \in Nat /\ words * W \in Nat /\ up + words * W <= counter
    <3>1. counter - up - 1 \in Nat
      BY <1>3, <1>5, SMTT(30)
    <3> QED BY <1>2, <1>3, <2>1, <3>1, DivMod, SMTT(30)
  <2> HIDE DEF words, aligned
  <2>3. UNION {word(up + k * W) : k \in 0..(words - 1)} = bits(up, up + words * W)
    BY <1>3, <2>2, WordsBits, SMTT(30) DEF W
  <2>4. next..(counter - 1) = (next..(up - 1)) \union (up..((up + words * W) - 1))
                                \union ((up + words * W)..(counter - 1))
    BY <1>3, <1>5, <2>2, SMTT(30)
  <2>5. bits(next, counter) = bits(next, up) \union bits(up, up + words * W)
                                \union bits(up + words * W, counter)
    BY <2>4, InBits, SMTT(30)
  <2>6. whole = bits(up, up + words * W)
    BY <2>1, <2>3
  <2> HIDE DEF whole
  <2> QED BY <1>1, <2>1, <2>5, <2>6
<1> QED BY <1>4, <1>5

-----------------------------------------------------------------------------
(* The window *)

(* The inductive invariant: WindowExact for every counter up to next, and  *)
(* nothing at or above next has been received, which is why the bits of    *)
(* skipped counters have to be cleared.                                    *)
WindowInv ==
  /\ sending_key_counter \in Nat /\ next \in Nat /\ receive_cnt \in Nat
  /\ decrypting \in [Readers -> (0..MaxCounter) \union {NoPacket}]
  /\ received \subseteq Nat
  /\ \A c \in received : c < next
  /\ \A c \in Nat : c < next /\ next <= c + N_BITS => (check_bit(c) <=> c \in received)

LEMMA InitWindow == Init => WindowInv
BY SMTT(30) DEF Init, WindowInv

(* mark_did_receive moves the window and leaves it exact.                  *)
LEMMA MarkWindow ==
  ASSUME WindowInv, NEW counter \in Nat, still_good(counter), mark_did_receive(counter),
         received' = received \union {counter}
  PROVE  /\ next' \in Nat /\ \A c \in received' : c < next'
         /\ \A c \in Nat : c < next' /\ next' <= c + N_BITS =>
              (c % N_BITS \in bitmap' <=> c \in received')
<1>1. N_BITS \in Nat \ {0}
  BY BitCount
<1>2. next \in Nat /\ next' = IF counter < next THEN next ELSE counter + 1
  BY DEF WindowInv, mark_did_receive
<1>3. next <= counter + N_BITS
  BY <1>1, <1>2, SMTT(30) DEF still_good, too_far_back
<1>4. next' \in Nat /\ \A c \in received' : c < next'
  BY <1>2, SMTT(30) DEF WindowInv
<1>5. ASSUME NEW c \in Nat, c < next', next' <= c + N_BITS
      PROVE  c % N_BITS \in bitmap' <=> c \in received'
  <2>1. counter % N_BITS \in bitmap' /\ counter \in received'
    BY DEF mark_did_receive
  <2>2. c # counter => c % N_BITS # counter % N_BITS
    <3>1. CASE c < counter
      <4>1. counter < c + N_BITS
        BY <1>1, <1>2, <1>5, <3>1, SMTT(30)
      <4> QED BY <1>1, <3>1, <4>1, DifferentBits
    <3>2. CASE counter < c
      <4>1. c < counter + N_BITS
        BY <1>1, <1>2, <1>3, <1>5, <3>2, SMTT(30)
      <4> QED BY <1>1, <3>2, <4>1, DifferentBits
    <3> QED BY <3>1, <3>2, SMTT(30)
  <2>3. CASE counter <= next
    <3>1. bitmap' = bitmap \union {counter % N_BITS}
      BY <2>3 DEF mark_did_receive
    <3>2. CASE c < next
      <4>1. next <= c + N_BITS
        BY <1>1, <1>2, <1>5, SMTT(30)
      <4>2. c % N_BITS \in bitmap <=> c \in received
        BY <3>2, <4>1 DEF WindowInv, check_bit
      <4> QED BY <2>1, <2>2, <3>1, <4>2
    <3>3. CASE ~ c < next
      BY <1>2, <1>5, <2>1, <2>3, <3>3, SMTT(30)
    <3> QED BY <3>2, <3>3
  <2>4. CASE next < counter /\ counter - next >= N_BITS
    <3>1. bitmap' = {counter % N_BITS}
      BY <1>2, <2>4, SMTT(30) DEF mark_did_receive
    <3>2. ~ c < next
      BY <1>1, <1>2, <1>5, <2>4, SMTT(30)
    <3>3. c \notin received
      BY <3>2 DEF WindowInv
    <3> QED BY <2>1, <2>2, <3>1, <3>3
  <2>5. CASE next < counter /\ counter - next < N_BITS
    <3>1. bitmap' = (bitmap \ bits(next, counter)) \union {counter % N_BITS}
      BY <1>1, <1>2, <2>5, SkippedBits, SMTT(30) DEF mark_did_receive
    <3>2. CASE c < next
      <4>1. next <= c + N_BITS
        BY <1>1, <1>2, <1>5, <2>5, SMTT(30)
      <4>2. c % N_BITS \in bitmap <=> c \in received
        BY <3>2, <4>1 DEF WindowInv, check_bit
      <4>3. \A i \in next..(counter - 1) : i \in Nat /\ c < i /\ i < c + N_BITS
        BY <1>1, <1>2, <1>5, <2>5, <3>2, SMTT(30)
      <4>4. c % N_BITS \notin bits(next, counter)
        <5>1. \A i \in next..(counter - 1) : c % N_BITS # i % N_BITS
          BY <1>1, <4>3, DifferentBits
        <5> QED BY <5>1, InBits, SMTT(30)
      <4> QED BY <2>1, <2>2, <3>1, <4>2, <4>4
    <3>3. CASE ~ c < next /\ c # counter
      <4>1. c \in next..(counter - 1)
        BY <1>2, <1>5, <2>5, <3>3, SMTT(30)
      <4>2. c % N_BITS \in bits(next, counter)
        BY <4>1, InBits
      <4>3. c \notin received
        BY <3>3 DEF WindowInv
      <4> QED BY <2>2, <3>1, <3>3, <4>2, <4>3
    <3> QED BY <2>1, <3>2, <3>3
  <2> QED BY <1>1, <1>2, <2>3, <2>4, <2>5, SMTT(30)
<1> QED BY <1>4, <1>5

(* Every step of the sender and of the receiving threads keeps it.         *)
LEMMA NextWindow == WindowInv /\ [Next]_vars => WindowInv'
<1> SUFFICES ASSUME WindowInv, [Next]_vars PROVE WindowInv'
  OBVIOUS
<1>1. CASE format_packet_data
  BY <1>1, SMTT(30) DEF format_packet_data, WindowInv, check_bit
<1>2. ASSUME NEW r \in Readers, NEW counter \in 0..MaxCounter,
             receiving_counter_quick_check(r, counter)
      PROVE  WindowInv'
  BY <1>2 DEF receiving_counter_quick_check, WindowInv, check_bit
<1>3. ASSUME NEW r \in Readers, drop(r) PROVE WindowInv'
  BY <1>3 DEF drop, WindowInv, check_bit
<1>4. ASSUME NEW r \in Readers, receiving_counter_mark(r) PROVE WindowInv'
  <2> DEFINE counter == decrypting[r]
  <2>1. counter \in Nat
    BY <1>4, ReplayAssumption, SMTT(30) DEF receiving_counter_mark, WindowInv
  <2>2. /\ next' \in Nat /\ \A c \in received' : c < next'
        /\ \A c \in Nat : c < next' /\ next' <= c + N_BITS =>
             (c % N_BITS \in bitmap' <=> c \in received')
    BY <1>4, <2>1, MarkWindow DEF receiving_counter_mark
  <2>3. /\ sending_key_counter' \in Nat /\ receive_cnt' \in Nat /\ received' \subseteq Nat
        /\ decrypting' \in [Readers -> (0..MaxCounter) \union {NoPacket}]
    <3>1. /\ sending_key_counter' = sending_key_counter /\ receive_cnt' = receive_cnt + 1
          /\ received' = received \union {counter}
          /\ decrypting' = [decrypting EXCEPT ![r] = NoPacket]
      BY <1>4 DEF receiving_counter_mark
    <3>2. decrypting' \in [Readers -> (0..MaxCounter) \union {NoPacket}]
      BY <3>1 DEF WindowInv
    <3> HIDE DEF counter
    <3> QED BY <2>1, <3>1, <3>2, SMTT(30) DEF WindowInv
  <2> QED BY <2>2, <2>3 DEF WindowInv, check_bit
<1>5. CASE UNCHANGED vars
  BY <1>5 DEF vars, WindowInv, check_bit
<1> QED BY <1>1, <1>2, <1>3, <1>4, <1>5 DEF Next

(* The bitmap tells exactly which of the last N_BITS counters were         *)
(* received, however far the counter jumps and at whatever word boundary.  *)
THEOREM WindowIsExact == Spec => []WindowExact
<1>1. WindowInv => WindowExact
  BY SMTT(30) DEF WindowInv, WindowExact
<1> QED BY <1>1, InitWindow, NextWindow, PTL DEF Spec

(* A counter that passes the second check was never received before.       *)
LEMMA MarkAccepts ==
  ASSUME WindowInv, NEW r \in Readers, receiving_counter_mark(r)
  PROVE  Abstract!Accept(decrypting[r]) /\ decrypting[r] \in 0..MaxCounter
<1> DEFINE counter == decrypting[r]
<1>1. counter \in 0..MaxCounter /\ counter \in Nat
  BY ReplayAssumption, SMTT(30) DEF receiving_counter_mark, WindowInv
<1>2. next <= counter + N_BITS
  BY <1>1, BitCount, SMTT(30) DEF receiving_counter_mark, still_good, too_far_back, WindowInv
<1>3. counter \notin received
  BY <1>1, <1>2 DEF receiving_counter_mark, still_good, WindowInv
<1> QED BY <1>1, <1>2, <1>3 DEF receiving_counter_mark, mark_did_receive, Abstract!Accept

(* The session's validator implements the set of counters received: a step *)
(* accepts a counter for the first time, no more than N_BITS behind, or    *)
(* leaves the set alone.                                                   *)
THEOREM SessionRefinesAntiReplay == Spec => ImplementsAntiReplay
<1>1. Init => Abstract!Init
  BY DEF Init, Abstract!Init
<1>2. WindowInv /\ [Next]_vars => [Abstract!Next]_(Abstract!vars)
  <2> SUFFICES ASSUME WindowInv, [Next]_vars PROVE [Abstract!Next]_(Abstract!vars)
    OBVIOUS
  <2>1. ASSUME NEW r \in Readers, receiving_counter_mark(r) PROVE Abstract!Next
    BY <2>1, MarkAccepts DEF Abstract!Next
  <2>2. CASE format_packet_data
    BY <2>2 DEF format_packet_data, Abstract!vars
  <2>3. CASE \E r \in Readers, counter \in 0..MaxCounter :
               receiving_counter_quick_check(r, counter)
    BY <2>3 DEF receiving_counter_quick_check, Abstract!vars
  <2>4. CASE \E r \in Readers : drop(r)
    BY <2>4 DEF drop, Abstract!vars
  <2>5. CASE UNCHANGED vars
    BY <2>5 DEF vars, Abstract!vars
  <2> QED BY <2>1, <2>2, <2>3, <2>4, <2>5 DEF Next
<1> QED BY <1>1, <1>2, InitWindow, NextWindow, PTL DEF Spec, ImplementsAntiReplay, Abstract!Spec

-----------------------------------------------------------------------------
(* The lock around the device (DevLock) *)

(* The inductive invariant: marking wants_write is what every safety       *)
(* property rests on.  A thread between marking and signalling is the only *)
(* one there, and a thread that passed the check in read() has seen no     *)
(* writer, since it still holds the mutex that a writer needs to mark.     *)
LockInv ==
  /\ TypeOK
  /\ \A t, u \in Workers : pc[t] \in WriteSection /\ pc[u] \in WriteSection => t = u
  /\ \A t \in Workers : pc[t] \in WriteSection \union Parked => wants_write
  /\ \A t \in Workers : pc[t] = "read_inner" => ~ wants_write
  /\ \A t \in Workers : pc[t] = "mutate" => readers = {}
  /\ NoStaleYield

(* Nobody holds or wants the device at the start.                          *)
LEMMA InitLockInv == LockInit => LockInv
BY DevLockAssumption
   DEF LockInit, LockInv, TypeOK, NoStaleYield, PC, ApiHandler, WriteSection, Parked, Reading

(* Every step of a worker, of a UAPI handler and of a panic keeps it.      *)
LEMMA NextLockInv == LockInv /\ [LockNext]_lockVars => LockInv'
<1> SUFFICES ASSUME LockInv, [LockNext]_lockVars PROVE LockInv'
  OBVIOUS
<1> USE DevLockAssumption
    DEF LockInv, TypeOK, NoStaleYield, PC, ApiHandler, WriteSection, Parked, Reading, Goto,
        noticeVars
<1>1. ASSUME NEW t \in Workers, read(t) PROVE LockInv'
  BY <1>1, SMTT(30) DEF read
<1>2. ASSUME NEW t \in Workers, read_inner(t) PROVE LockInv'
  BY <1>2, SMTT(30) DEF read_inner
<1>3. ASSUME NEW t \in Workers, start_handler(t) PROVE LockInv'
  BY <1>3, SMTT(30) DEF start_handler
<1>4. ASSUME NEW t \in Workers, finish_handler(t) PROVE LockInv'
  BY <1>4, SMTT(30) DEF finish_handler
<1>5. ASSUME NEW t \in Workers, yield(t) PROVE LockInv'
  BY <1>5, SMTT(30) DEF yield
<1>6. ASSUME NEW t \in Workers, exit(t) PROVE LockInv'
  BY <1>6, SMTT(30) DEF exit
<1>7. ASSUME NEW t \in Workers, exit_event(t) PROVE LockInv'
  BY <1>7, SMTT(30) DEF exit_event
<1>8. ASSUME NEW t \in Workers, api_event(t) PROVE LockInv'
  BY <1>8, SMTT(30) DEF api_event
<1>9. ASSUME NEW t \in Workers, mark(t) PROVE LockInv'
  <2>1. CASE wants_write
    BY <1>9, <2>1, SMTT(30) DEF mark
  <2>2. CASE ~ wants_write
    <3>1. \A u \in Workers : /\ pc[u] \notin WriteSection \union Parked
                             /\ pc[u] # "read_inner"
      BY <1>9, <2>2 DEF mark
    <3>2. ~ yield_notice /\ writer = NoThread /\ mutex = NoThread
      BY <1>9, <3>1 DEF mark
    <3>3. /\ pc' = [pc EXCEPT ![t] = "relock"] /\ pc[t] = "mark"
          /\ readers' = readers \ {t} /\ wants_write' = TRUE
          /\ mutex' = mutex /\ writer' = writer
          /\ yield_notice' = yield_notice /\ exit_notice' = exit_notice
      BY <1>9, <2>2 DEF mark
    <3>4. TypeOK'
      BY <3>2, <3>3
    <3>5. \A u \in Workers : u # t => pc'[u] \notin WriteSection
      BY <3>1, <3>3
    <3> QED BY <3>1, <3>2, <3>3, <3>4, <3>5, SMTT(30)
  <2> QED BY <2>1, <2>2
<1>10. ASSUME NEW t \in Workers, relock(t) PROVE LockInv'
  BY <1>10, SMTT(30) DEF relock
<1>11. ASSUME NEW t \in Workers, prep(t) PROVE LockInv'
  BY <1>11, SMTT(30) DEF prep
<1>12. ASSUME NEW t \in Workers, release(t) PROVE LockInv'
  BY <1>12, SMTT(30) DEF release
<1>13. ASSUME NEW t \in Workers, acquire(t) PROVE LockInv'
  BY <1>13, SMTT(30) DEF acquire
<1>14. ASSUME NEW t \in Workers, drain(t) PROVE LockInv'
  BY <1>14, SMTT(30) DEF drain
<1>15. ASSUME NEW t \in Workers, mutate(t) PROVE LockInv'
  <2>1. /\ pc[t] = "mutate" /\ pc'[t] = "resume" /\ pc' \in [Workers -> PC]
        /\ \A u \in Workers : u # t => pc'[u] = pc[u]
        /\ writer' = NoThread /\ yield_notice' = FALSE /\ mutex' = mutex
        /\ wants_write' = wants_write /\ readers' = readers /\ exit_notice' = exit_notice
    BY <1>15 DEF mutate
  <2>2. TypeOK'
    BY <2>1
  <2> QED BY <2>1, <2>2, SMTT(30)
<1>16. ASSUME NEW t \in Workers, panic(t) PROVE LockInv'
  <2>1. /\ pc[t] = "mutate" /\ pc'[t] = "panicked" /\ pc' \in [Workers -> PC]
        /\ \A u \in Workers : u # t => pc'[u] = pc[u]
        /\ writer' = NoThread /\ yield_notice' = FALSE /\ mutex' = mutex
        /\ wants_write' = wants_write /\ readers' = readers /\ exit_notice' = exit_notice
    BY <1>16 DEF panic
  <2>2. TypeOK'
    BY <2>1
  <2> QED BY <2>1, <2>2
<1>17. ASSUME NEW t \in Workers, resume(t) PROVE LockInv'
  BY <1>17 DEF resume
<1>18. ASSUME NEW t \in Workers, signal(t) PROVE LockInv'
  <2>1. \A u \in Workers : u # t => pc[u] \notin WriteSection
    BY <1>18 DEF signal
  <2>2. \A u \in Workers :
          \/ u = t /\ pc[u] = "signal" /\ pc'[u] = "poll"
          \/ u # t /\ pc[u] = "wait_read" /\ pc'[u] = "read"
          \/ u # t /\ pc[u] = "wait_mark" /\ pc'[u] = "mark"
          \/ u # t /\ pc[u] \notin Parked /\ pc'[u] = pc[u]
    BY <1>18 DEF signal
  <2>3. /\ mutex' = mutex /\ readers' = readers /\ writer' = writer
        /\ yield_notice' = yield_notice /\ exit_notice' = exit_notice
        /\ wants_write' = FALSE /\ mutex = NoThread
    BY <1>18 DEF signal
  <2>4. pc' \in [Workers -> PC]
    BY <1>18 DEF signal
  <2>5. TypeOK'
    BY <2>2, <2>3, <2>4
  <2>6. \A u \in Workers : pc'[u] \notin WriteSection \union Parked
    BY <2>1, <2>2
  <2>7. ~ yield_notice
    BY <1>18, <2>1 DEF signal
  <2> QED BY <2>3, <2>5, <2>6, <2>7
<1>19. CASE UNCHANGED lockVars
  BY <1>19 DEF lockVars
<1> QED BY <1>1, <1>2, <1>3, <1>4, <1>5, <1>6, <1>7, <1>8, <1>9, <1>10, <1>11,
           <1>12, <1>13, <1>14, <1>15, <1>16, <1>17, <1>18, <1>19 DEF LockNext

(* At any time one thread at most is between marking wants_write and       *)
(* clearing it, and nobody else holds the device while it mutates it.      *)
THEOREM OneWriterAtATime == LockSpec => []OneWriter
<1>1. LockInv => OneWriter
  BY DEF LockInv, OneWriter
<1> QED BY <1>1, InitLockInv, NextLockInv, PTL DEF LockSpec

(* read() never waits for a writer with the mutex in its hands, and no     *)
(* thread waits for a notification that has already been sent.             *)
THEOREM NoBlockedMutexNoLostWakeup == LockSpec => [](MutexHolderRuns /\ NoLostWakeup)
<1>1. LockInv => MutexHolderRuns
  BY DevLockAssumption DEF LockInv, TypeOK, MutexHolderRuns, WriteSection
<1>2. LockInv => NoLostWakeup
  BY DEF LockInv, NoLostWakeup
<1> QED BY <1>1, <1>2, InitLockInv, NextLockInv, PTL DEF LockSpec

(* The yield notice is never left behind.                                  *)
THEOREM YieldIsCancelled == LockSpec => []NoStaleYield
<1>1. LockInv => NoStaleYield
  BY DEF LockInv
<1> QED BY <1>1, InitLockInv, NextLockInv, PTL DEF LockSpec

=============================================================================
