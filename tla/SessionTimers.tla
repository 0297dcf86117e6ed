---------------------------- MODULE SessionTimers ----------------------------
(***************************************************************************)
(* The timers of one end of a tunnel (boringtun/src/noise/timers.rs, and   *)
(* what noise/mod.rs does to them): when handshakes are started, repeated  *)
(* and given up, when keepalives are sent and sessions dropped.            *)
(*                                                                         *)
(* The code keeps the times of events; they are only subtracted from the   *)
(* current time and compared with each other.  Here they are ages, counted *)
(* up to the largest one that is looked at, and the four comparisons.  All *)
(* times are those of the last update_timers: whatever happens between two *)
(* of its calls has the same time.                                         *)
(***************************************************************************)
EXTENDS Integers

CONSTANTS REKEY_TIMEOUT, KEEPALIVE_TIMEOUT, REKEY_ATTEMPT_TIME,
          REKEY_AFTER_TIME, REJECT_AFTER_TIME,
          persistent_keepalive,  \* 0: none
          MaxStep                \* bound on the time between two updates

ASSUME SessionTimersAssumption ==
  /\ {REKEY_TIMEOUT, KEEPALIVE_TIMEOUT, REKEY_ATTEMPT_TIME, REKEY_AFTER_TIME,
      REJECT_AFTER_TIME, MaxStep} \subseteq Nat \ {0}
  /\ persistent_keepalive \in Nat
  /\ REKEY_TIMEOUT < REKEY_ATTEMPT_TIME
  /\ REKEY_ATTEMPT_TIME < REKEY_AFTER_TIME
  /\ REKEY_AFTER_TIME < REJECT_AFTER_TIME - KEEPALIVE_TIMEOUT - REKEY_TIMEOUT

VARIABLES state,      \* Handshake.state: "none", "sent" or "expired"
          previous,   \* is Handshake.previous an initiation that was sent
          asked,      \* has a message with a mac1 been sent (cookies.last_mac1)
          age,        \* ages of the timers
          after,      \* data_packet_sent/received against three other timers
          want_keepalive, want_handshake, is_initiator,
          current,    \* age of the session in use, or NoSession
          fresh,      \* age of a session its initiator has not used yet
          trying,     \* history: how long the peer has been tried
          quiet,      \* history: the same, since a packet was last queued
          keyless,    \* history: since when no keys have been exchanged
          unheard,    \* history: since when data sent has had no answer
          unsent      \* history: since when data received has had none

flags == <<want_keepalive, want_handshake, is_initiator>>
sessions == <<current, fresh>>
history == <<trying, quiet, keyless, unheard, unsent>>
timersVars == <<state, previous, asked, age, after, flags, sessions, history>>

NoSession == -1
Never == -1

(* The largest age that update_timers tells from the ones below.           *)
Cap == [established |-> 3 * REJECT_AFTER_TIME,
        started |-> REKEY_ATTEMPT_TIME,
        received |-> KEEPALIVE_TIMEOUT + REKEY_TIMEOUT,
        sent |-> KEEPALIVE_TIMEOUT,
        init |-> REKEY_TIMEOUT,
        persistent |-> persistent_keepalive]

Older(n, d, cap) == IF n + d > cap THEN cap ELSE n + d
Passed(d) == [n \in DOMAIN Cap |-> Older(age[n], d, Cap[n])]

Zero == [n \in DOMAIN Cap |-> 0]
NotAfter == [sent_received |-> FALSE, sent_established |-> FALSE,
             received_sent |-> FALSE, received_established |-> FALSE]

TimersInit ==
  /\ state = "none" /\ previous = FALSE /\ asked = FALSE
  /\ age = Zero /\ after = NotAfter
  /\ want_keepalive = FALSE /\ want_handshake = FALSE /\ is_initiator = FALSE
  /\ current = NoSession /\ fresh = NoSession
  /\ trying = Never /\ quiet = Never
  /\ keyless = 0 /\ unheard = Never /\ unsent = Never

-----------------------------------------------------------------------------
(* timer_tick for the packets sent and received.  A timer is later than    *)
(* another one only if an update lies between them.                        *)

(* What sending, then receiving, makes of the ages and comparisons.        *)
SentAge(a) == [a EXCEPT !.sent = 0]
SentAfter(c, data) ==
  [c EXCEPT !.received_sent = FALSE,
            !.sent_received = IF data THEN age.received > 0 ELSE @,
            !.sent_established = IF data THEN age.established > 0 ELSE @]

ReceivedAge(a) == [a EXCEPT !.received = 0]
ReceivedAfter(c, data) ==
  [c EXCEPT !.sent_received = FALSE,
            !.received_sent = IF data THEN age.sent > 0 ELSE @,
            !.received_established = IF data THEN age.established > 0 ELSE @]

(* Since when data waits, given that it is later than what went before.    *)
Since(n, later) == IF ~ later THEN Never ELSE IF n = Never THEN 0 ELSE n

EstablishedAfter(c) ==
  [c EXCEPT !.sent_established = FALSE, !.received_established = FALSE]

-----------------------------------------------------------------------------
(* Packets *)

(* Mutant: a retransmission counts as a new handshake.                     *)
Started_again(a) == 0

(* TimeLastHandshakeStarted stays as it is while a handshake is repeated.  *)
Started(a) == IF state = "sent" THEN a.started ELSE 0

(* Mutant: the timers are not cleared when an expired tunnel starts again. *)
Restarted_stale(a) == a

(* Timers::clear for an expired tunnel.                                    *)
Restarted(a) == IF state = "expired" THEN Zero ELSE a

(* format_handshake_initiation, given the ages and for how long the peer   *)
(* has been tried, and tried with nothing queued.                          *)
(* Alone of the times, that of the initiation itself is read from the      *)
(* clock: it may be lag later than the last update.                        *)
initiate(a, tried, calm, lag) ==
  /\ age' = [Restarted(a) EXCEPT !.sent = 0, !.init = -lag,
                                 !.started = Started(a)]
  /\ asked' = TRUE
  /\ after' = SentAfter(IF state = "expired" THEN NotAfter ELSE after, FALSE)
  /\ previous' = (state = "sent")
  /\ state' = "sent"
  /\ want_handshake' = TRUE /\ want_keepalive' = FALSE
  /\ trying' = IF state = "sent" THEN tried ELSE 0
  /\ quiet' = IF state = "sent" THEN calm ELSE 0

(* A packet with data from the interface: sent on the current session, or  *)
(* queued, in which case a handshake is started unless one is in progress, *)
(* whose timer is left alone.                                              *)
encapsulate ==
  \/ /\ current # NoSession
     /\ age' = SentAge(age) /\ after' = SentAfter(after, TRUE)
     /\ want_handshake' = TRUE /\ want_keepalive' = FALSE
     /\ unheard' = Since(unheard, after'.sent_received) /\ unsent' = Never
     /\ UNCHANGED <<state, previous, asked, is_initiator, sessions, trying,
                    quiet, keyless>>
  \/ /\ current = NoSession /\ state # "sent"
     /\ \E lag \in {0, 1} : initiate(age, trying, quiet, lag)
     /\ keyless' = IF state = "expired" THEN 0 ELSE keyless
     /\ unsent' = Never
     /\ UNCHANGED <<is_initiator, sessions, unheard>>
  \/ /\ current = NoSession /\ state = "sent"
     /\ quiet' = 0
     /\ UNCHANGED <<state, previous, asked, age, after, flags, sessions, trying,
                    keyless, unheard, unsent>>

(* The peer starts a handshake and is answered.                            *)
handle_handshake_init ==
  /\ state' = "none"
  /\ fresh' = 0
  /\ age' = [SentAge(ReceivedAge(age)) EXCEPT !.established = 0]
  /\ after' = EstablishedAfter(SentAfter(ReceivedAfter(after, FALSE), FALSE))
  /\ want_handshake' = TRUE /\ want_keepalive' = FALSE
  /\ is_initiator' = FALSE
  /\ previous' = (state = "sent") /\ asked' = TRUE
  /\ trying' = Never /\ quiet' = Never
  /\ keyless' = 0 /\ unheard' = Never /\ unsent' = Never
  /\ UNCHANGED current

(* The answer to the last initiation, or to the one before it; in that     *)
(* case the last one stays in progress.  The keepalive sent with it does   *)
(* not tick a timer.                                                       *)
handle_handshake_response(to_previous) ==
  /\ IF to_previous
       THEN previous /\ previous' = FALSE /\ UNCHANGED <<state, trying, quiet>>
       ELSE /\ state = "sent" /\ state' = "none" /\ trying' = Never /\ quiet' = Never
            /\ UNCHANGED previous
  /\ current' = 0
  /\ age' = [ReceivedAge(age) EXCEPT !.established = 0]
  /\ after' = EstablishedAfter(ReceivedAfter(after, FALSE))
  /\ want_keepalive' = TRUE /\ want_handshake' = FALSE
  /\ is_initiator' = TRUE
  /\ keyless' = 0 /\ unheard' = Never /\ unsent' = Never
  /\ UNCHANGED <<asked, fresh>>

(* A keepalive or a packet with data, on the current session or on one     *)
(* that this packet confirms.                                              *)
handle_data(data, confirms) ==
  /\ IF confirms
       THEN /\ fresh # NoSession /\ fresh' = NoSession
            /\ current' = IF current = NoSession \/ fresh <= current THEN fresh
                          ELSE current
       ELSE current # NoSession /\ UNCHANGED sessions
  /\ age' = ReceivedAge(age) /\ after' = ReceivedAfter(after, data)
  /\ want_keepalive' = TRUE /\ want_handshake' = FALSE
  /\ unheard' = Never
  /\ unsent' = IF data THEN Since(unsent, after'.received_sent) ELSE unsent
  /\ UNCHANGED <<state, previous, asked, is_initiator, trying, quiet, keyless>>

(* A cookie counts as a packet from the peer.                              *)
handle_cookie_reply ==
  /\ asked
  /\ age' = ReceivedAge(age) /\ after' = ReceivedAfter(after, FALSE)
  /\ want_keepalive' = TRUE /\ want_handshake' = FALSE
  /\ unheard' = Never
  /\ UNCHANGED <<state, previous, asked, is_initiator, sessions, trying, quiet,
                 keyless, unsent>>

-----------------------------------------------------------------------------
(* update_timers, d after the last one *)

Dropped(n, d) == IF n = NoSession \/ n + d > REJECT_AFTER_TIME THEN NoSession
                 ELSE n + d

(* set_expired, clear_all                                                  *)
expire ==
  /\ state' = "expired" /\ previous' = FALSE
  /\ age' = Zero /\ after' = NotAfter
  /\ want_keepalive' = FALSE /\ want_handshake' = FALSE
  /\ current' = NoSession /\ fresh' = NoSession
  /\ trying' = Never /\ quiet' = Never
  /\ keyless' = 0 /\ unheard' = Never /\ unsent' = Never
  /\ UNCHANGED <<asked, is_initiator>>

(* Mutant: the silence of the peer is not noticed by the responder.        *)
RekeyDue_initiator(a) ==
  /\ is_initiator
  /\ \/ after.sent_established /\ a.established >= REKEY_AFTER_TIME
     \/ /\ after.sent_received
        /\ a.received >= KEEPALIVE_TIMEOUT + REKEY_TIMEOUT
        /\ want_handshake

(* Mutant: a session is not renewed because data is sent on it.            *)
RekeyDue_received(a) ==
  \/ /\ is_initiator /\ after.received_established
     /\ a.established >= REJECT_AFTER_TIME - KEEPALIVE_TIMEOUT - REKEY_TIMEOUT
  \/ /\ after.sent_received
     /\ a.received >= KEEPALIVE_TIMEOUT + REKEY_TIMEOUT
     /\ want_handshake

RekeyDue(a) ==
  \/ is_initiator /\ after.sent_established /\ a.established >= REKEY_AFTER_TIME
  \/ /\ is_initiator /\ after.received_established
     /\ a.established >= REJECT_AFTER_TIME - KEEPALIVE_TIMEOUT - REKEY_TIMEOUT
  \/ /\ after.sent_received
     /\ a.received >= KEEPALIVE_TIMEOUT + REKEY_TIMEOUT
     /\ want_handshake

PassiveDue(a) ==
  after.received_sent /\ a.sent >= KEEPALIVE_TIMEOUT /\ want_keepalive
PersistentDue(a) ==
  persistent_keepalive > 0 /\ a.persistent >= persistent_keepalive

(* An empty packet, which does not count as data; without a session it     *)
(* starts a handshake.                                                     *)
send_keepalive(a) ==
  LET b == [a EXCEPT !.persistent = IF PersistentDue(a) THEN 0 ELSE @]
  IN  /\ IF current' # NoSession
           THEN /\ age' = SentAge(b) /\ after' = SentAfter(after, FALSE)
                /\ want_handshake' = TRUE /\ want_keepalive' = FALSE
                /\ UNCHANGED <<state, previous, asked, trying, quiet>>
           ELSE initiate(b, trying, quiet, 0)
      /\ unsent' = Never

(* Time passes for the histories.                                          *)
Waited(n, d, cap) == IF n = Never THEN n ELSE Older(n, d, cap)

GivesUp(a) ==
  \/ a.established >= 3 * REJECT_AFTER_TIME
  \/ state = "sent" /\ a.started >= REKEY_ATTEMPT_TIME

update_timers(d) ==
  LET a == Passed(d)
      tried == Waited(trying, d, REKEY_ATTEMPT_TIME)
      calm == Waited(quiet, d, REKEY_ATTEMPT_TIME)
  IN  \/ /\ state = "expired"
         /\ age' = a
         /\ UNCHANGED <<state, previous, asked, after, flags, sessions, history>>
      \/ /\ state # "expired" /\ GivesUp(a)
         /\ expire
      \/ /\ state # "expired" /\ ~ GivesUp(a)
         /\ current' = Dropped(current, d) /\ fresh' = Dropped(fresh, d)
         /\ unheard' = Waited(unheard, d, Cap.received)
         /\ keyless' = Older(keyless, d, Cap.established)
         /\ UNCHANGED is_initiator
         /\ IF IF state = "sent" THEN a.init >= REKEY_TIMEOUT ELSE RekeyDue(a)
              THEN initiate(a, tried, calm, 0) /\ unsent' = Never
            ELSE IF state = "none" /\ (PassiveDue(a) \/ PersistentDue(a))
              THEN send_keepalive(a)
            ELSE /\ age' = a /\ trying' = tried /\ quiet' = calm
                 /\ unsent' = Waited(unsent, d, Cap.sent)
                 /\ UNCHANGED <<state, previous, asked, after, want_keepalive,
                                want_handshake>>

-----------------------------------------------------------------------------
TimersNext ==
  \/ encapsulate
  \/ handle_handshake_init
  \/ \E to_previous \in BOOLEAN : handle_handshake_response(to_previous)
  \/ \E data, confirms \in BOOLEAN : handle_data(data, confirms)
  \/ handle_cookie_reply
  \/ \E d \in 1..MaxStep : update_timers(d)

TimersSpec == TimersInit /\ [][TimersNext]_timersVars

-----------------------------------------------------------------------------
(* "After REKEY_ATTEMPT_TIME ms of trying to initiate a new handshake, the *)
(* retries give up and cease": unless a packet is queued, no initiation is *)
(* repeated for longer, however often it is repeated and whatever the peer *)
(* sends meanwhile (timers.rs).                                            *)
AttemptsCease == state = "sent" => quiet < REKEY_ATTEMPT_TIME

(* "If a packet is explicitly queued up to be sent, then this timer is     *)
(* reset": no handshake is given up, and no packet thrown away with it,    *)
(* before it has been tried for REKEY_ATTEMPT_TIME since a packet was last *)
(* queued (the comment in timers.rs; AttemptsAreFull's exception holds).   *)
QueuedIsTried ==
  [][state = "sent" /\ state' = "expired" =>
       \/ quiet + MaxStep >= REKEY_ATTEMPT_TIME
       \/ keyless + MaxStep >= 3 * REJECT_AFTER_TIME]_timersVars

(* A handshake is not given up before REKEY_ATTEMPT_TIME, unless no keys   *)
(* have been exchanged for REJECT_AFTER_TIME * 3; a tunnel that starts     *)
(* again after it has expired has all that time once more.                 *)
AttemptsAreFull ==
  [][state = "sent" /\ state' = "expired" =>
       \/ trying + MaxStep >= REKEY_ATTEMPT_TIME
       \/ keyless + MaxStep >= 3 * REJECT_AFTER_TIME]_timersVars

(* Data that is not answered for KEEPALIVE_TIMEOUT + REKEY_TIMEOUT leads   *)
(* to a handshake, data received that nothing has been sent for in         *)
(* KEEPALIVE_TIMEOUT to a keepalive (or a handshake is in progress).  Only *)
(* data of the same time as the last packet of the other direction is not  *)
(* followed up: timers are compared with >.                                *)
SilenceIsBroken ==
  state = "none" => /\ unheard < KEEPALIVE_TIMEOUT + REKEY_TIMEOUT
                    /\ unsent < KEEPALIVE_TIMEOUT

(* The initiator that has sent data on a session does not lose it before   *)
(* it is trying to get the next one.                                       *)
RekeyedInTime ==
  [][is_initiator /\ after.sent_established
       /\ current # NoSession /\ current' = NoSession
     => state' # "none"]_timersVars

=============================================================================
