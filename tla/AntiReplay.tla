----------------------------- MODULE AntiReplay -----------------------------
(***************************************************************************)
(* What a session promises about the counters of received packets,         *)
(* whatever the network does to them: a counter is accepted at most once,  *)
(* and only if it is not too far behind the highest one.                   *)
(***************************************************************************)
EXTENDS Naturals

CONSTANTS Window,     \* how far behind a new counter may be
          MaxCounter  \* bound on the counters

VARIABLES received,     \* counters of the packets accepted so far
          receive_cnt,  \* how many packets were accepted
          next          \* the highest counter plus one

vars == <<received, receive_cnt, next>>

Init == received = {} /\ receive_cnt = 0 /\ next = 0

Accept(c) ==
  /\ c \notin received
  /\ next <= c + Window
  /\ received' = received \union {c}
  /\ receive_cnt' = receive_cnt + 1
  /\ next' = IF c < next THEN next ELSE c + 1

Next == \E c \in 0..MaxCounter : Accept(c)

Spec == Init /\ [][Next]_vars

=============================================================================
