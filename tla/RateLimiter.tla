----------------------------- MODULE RateLimiter -----------------------------
(***************************************************************************)
(* The limit on handshake messages and the cookies that lift it            *)
(* (boringtun/src/noise/rate_limiter.rs, and the initiator's side in       *)
(* noise/handshake.rs).                                                    *)
(*                                                                         *)
(* Worker threads verify the messages of one initiator and of others.      *)
(* Above limit messages since the last reset, one is admitted only if its  *)
(* mac2 is made with the cookie of the sender's address; otherwise a       *)
(* cookie is sent, for the initiator to use in its next message.  A cookie *)
(* is good for as long as the limiter's secret and the sender's address    *)
(* stay the same, and for one limiter: the device has one, and a peer that *)
(* was added after the key was set another one for its connected socket.   *)
(* All that is kept of a cookie is whether it is still good.               *)
(*                                                                         *)
(* Messages that arrive at all arrive before the next initiation, which is *)
(* sent when REKEY_TIMEOUT has passed.  Whatever goes against the          *)
(* initiator (a message lost, late or repeated, a new secret or address, a *)
(* cookie that has expired) is counted and bounded by MaxTroubles.         *)
(***************************************************************************)
EXTENDS Naturals, FiniteSets

CONSTANTS Threads,
          limit,
          MaxTroubles

ASSUME RateLimiterAssumption ==
  /\ limit \in Nat
  /\ IsFiniteSet(Threads) /\ Threads # {}

VARIABLES count,      \* RateLimiter.count, up to limit + 1
          due,        \* has RESET_PERIOD passed since last_reset
          unproven,   \* history: admitted without a cookie since the reset
          thread,     \* the messages being verified
          initiator,  \* is it trying, and cookies.write_cookie
          inits,      \* its messages, each with its mac2, and whether it is
                      \* the last one sent (its index is cookies.index)
          replies,    \* the cookies sent to it, and whether for the last one
          troubles

limiterVars == <<count, due, unproven, thread, initiator, inits, replies, troubles>>

Free == [at |-> "free", of |-> "nobody", loaded |-> FALSE,
         msg |-> [last |-> FALSE, mac2 |-> "none"]]

LimiterInit ==
  /\ count = 0 /\ due = FALSE /\ unproven = 0
  /\ thread = [t \in Threads |-> Free]
  /\ initiator = [trying |-> FALSE, cookie |-> "none"]
  /\ inits = {} /\ replies = {}
  /\ troubles = 0

Trouble == troubles < MaxTroubles /\ troubles' = troubles + 1

-----------------------------------------------------------------------------
(* The initiator *)

(* The last initiation, and the cookie it may be answered with, have       *)
(* arrived, or are lost.                                                   *)
Settled ==
  /\ \A m \in inits \union replies : ~ m.last
  /\ \A t \in Threads : ~ thread[t].msg.last

Superseded(m) == [m EXCEPT !.last = FALSE]

(* append_mac1_and_mac2: the cookie, if there is one, goes into mac2.      *)
mac2 == initiator.cookie

(* A handshake is started, or repeated: too early for what is still on its *)
(* way, or when nothing is.  The message has a new index.                  *)
format_handshake_initiation ==
  /\ \/ Settled /\ UNCHANGED troubles
     \/ ~ Settled /\ initiator.trying /\ Trouble
  /\ initiator' = [initiator EXCEPT !.trying = TRUE]
  /\ inits' = {Superseded(m) : m \in inits} \union {[last |-> TRUE, mac2 |-> mac2]}
  /\ replies' = {Superseded(r) : r \in replies}
  /\ thread' = [t \in Threads |-> [thread[t] EXCEPT !.msg = Superseded(@)]]
  /\ UNCHANGED <<count, due, unproven>>

(* Mutant: cookies.index is of the message before.                         *)
IsExpected_before(r) == ~ r.last

IsExpected(r) == r.last

(* A cookie for any but the last message sent is dropped.                  *)
receive_cookie_reply(r) ==
  /\ r \in replies
  /\ initiator' = [initiator EXCEPT
                     !.cookie = IF IsExpected(r) THEN r.cookie ELSE @]
  /\ replies' = replies \ {r}
  /\ UNCHANGED <<count, due, unproven, thread, inits, troubles>>

(* update_timers, after COOKIE_EXPIRATION_TIME.                            *)
clear_cookie ==
  /\ initiator.cookie # "none" /\ Trouble
  /\ initiator' = [initiator EXCEPT !.cookie = "none"]
  /\ UNCHANGED <<count, due, unproven, thread, inits, replies>>

-----------------------------------------------------------------------------
(* The limiter *)

(* Mutant: off by one.                                                     *)
is_under_load_late == count > limit

(* The number of messages before this one.                                 *)
is_under_load == count >= limit

(* A thread takes a message up, which is counted.                          *)
take(t, of, msg) ==
  /\ thread[t].at = "free"
  /\ thread' = [thread EXCEPT ![t] = [at |-> "check", of |-> of, msg |-> msg,
                                      loaded |-> is_under_load]]
  /\ count' = IF count > limit THEN count ELSE count + 1

verify_packet(t, m) ==
  /\ m \in inits
  /\ take(t, "initiator", m)
  /\ \/ inits' = inits \ {m} /\ UNCHANGED troubles
     \/ UNCHANGED inits /\ Trouble
  /\ UNCHANGED <<due, unproven, initiator, replies>>

(* A handshake message of somebody else's, without a good mac2.            *)
verify_other(t) ==
  /\ take(t, "other", Free.msg)
  /\ UNCHANGED <<due, unproven, initiator, inits, replies, troubles>>

(* The cookie, sealed for the message it answers: its index and its mac1.  *)
format_cookie_reply(m) == [last |-> m.last, cookie |-> "good"]

(* current_cookie, and mac2 against it: the message is admitted, or        *)
(* answered with the cookie of now.  The initiator is done when its last   *)
(* message is admitted.                                                    *)
check_mac2(t) ==
  LET m      == thread[t].msg
      own    == thread[t].of = "initiator"
      proven == m.mac2 = "good"
      admit  == ~ thread[t].loaded \/ proven
  IN  /\ thread[t].at = "check"
      /\ thread' = [thread EXCEPT ![t] = Free]
      /\ unproven' = IF admit /\ ~ proven THEN unproven + 1 ELSE unproven
      /\ initiator' = [initiator EXCEPT !.trying = @ /\ ~ (admit /\ m.last)]
      /\ replies' = IF own /\ ~ admit
                      THEN replies \union {format_cookie_reply(m)} ELSE replies
      /\ UNCHANGED <<count, due, inits, troubles>>

(* The timer of the device, or update_timers of the peer, on a free thread;*)
(* the counter is left alone until a whole second has passed.              *)
reset_count ==
  /\ \E t \in Threads : thread[t].at = "free"
  /\ due
  /\ count' = 0 /\ due' = FALSE /\ unproven' = 0
  /\ UNCHANGED <<thread, initiator, inits, replies, troubles>>

second_passes ==
  /\ ~ due /\ due' = TRUE
  /\ UNCHANGED <<count, unproven, thread, initiator, inits, replies, troubles>>

-----------------------------------------------------------------------------
(* What goes against the initiator *)

Voided(c) == IF c = "good" THEN "void" ELSE c

(* COOKIE_REFRESH has passed, the initiator has another address, or its    *)
(* messages come to another limiter: the cookies given out are void.       *)
secret_changes ==
  /\ Trouble
  /\ thread' = [t \in Threads |->
                  [thread[t] EXCEPT !.msg.mac2 = Voided(@)]]
  /\ initiator' = [initiator EXCEPT !.cookie = Voided(@)]
  /\ inits' = {[m EXCEPT !.mac2 = Voided(@)] : m \in inits}
  /\ replies' = {[r EXCEPT !.cookie = Voided(@)] : r \in replies}
  /\ UNCHANGED <<count, due, unproven>>

lose ==
  /\ Trouble
  /\ \/ \E m \in inits : inits' = inits \ {m} /\ UNCHANGED replies
     \/ \E r \in replies : replies' = replies \ {r} /\ UNCHANGED inits
  /\ UNCHANGED <<count, due, unproven, thread, initiator>>

-----------------------------------------------------------------------------
LimiterNext ==
  \/ format_handshake_initiation
  \/ \E r \in replies : receive_cookie_reply(r)
  \/ clear_cookie
  \/ \E t \in Threads :
       \/ \E m \in inits : verify_packet(t, m)
       \/ verify_other(t)
       \/ check_mac2(t)
  \/ reset_count \/ second_passes
  \/ secret_changes \/ lose

LimiterSpec == LimiterInit /\ [][LimiterNext]_limiterVars

(* Threads go on, and take up the messages that have arrived in turn with  *)
(* those of others (SF); the initiator repeats its message.                *)
Fairness ==
  /\ \A t \in Threads : WF_limiterVars(check_mac2(t))
  /\ SF_limiterVars(\E t \in Threads, m \in inits : verify_packet(t, m))
  /\ WF_limiterVars(\E r \in replies : receive_cookie_reply(r))
  /\ WF_limiterVars(initiator.trying /\ format_handshake_initiation)

FairSpec == LimiterSpec /\ Fairness

-----------------------------------------------------------------------------
(* Between two resets no more than limit messages without a cookie are     *)
(* admitted, and those the other threads had taken up before the first     *)
(* one.                                                                    *)
FewUnproven == unproven <= limit + Cardinality(Threads) - 1

(* However much others send, an initiator that repeats its initiation gets *)
(* it admitted, across new secrets and addresses and expired, late and     *)
(* lost cookies.                                                           *)
InitiatorGetsIn == initiator.trying ~> ~ initiator.trying

=============================================================================
