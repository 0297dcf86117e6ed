-------------------------- MODULE HandshakeProofs ---------------------------
(***************************************************************************)
(* Proofs about when handshakes are started, repeated and given up, and    *)
(* which of them are admitted: the timers of a tunnel, for any values of   *)
(* the constants of timers.rs that are in the order the code gives them,   *)
(* any persistent keepalive and any time between two updates; and the      *)
(* limit on handshake messages, for any limit and any number of workers.   *)
(***************************************************************************)
EXTENDS SessionTimers, RateLimiter, FiniteSetTheorems, TLAPS

(* A step that names no prover is left to Zenon.                           *)
USE ZenonT(30)

-----------------------------------------------------------------------------
(* The timers of a tunnel *)

Timers == {"established", "started", "received", "sent", "init", "persistent"}
(* Ages without a negative one, but for the time of the initiation.        *)
Ages == {a \in [Timers -> Int] : \A n \in Timers \ {"init"} : a[n] >= 0}

Comparisons == [sent_received : BOOLEAN, sent_established : BOOLEAN,
                received_sent : BOOLEAN, received_established : BOOLEAN]

(* Type invariant of the timers, the sessions and the histories.           *)
TimersType ==
  /\ state \in {"none", "sent", "expired"} /\ previous \in BOOLEAN /\ asked \in BOOLEAN
  /\ age \in Ages /\ after \in Comparisons
  /\ want_keepalive \in BOOLEAN /\ want_handshake \in BOOLEAN /\ is_initiator \in BOOLEAN
  /\ current \in Nat \union {NoSession} /\ fresh \in Nat \union {NoSession}
  /\ trying \in Nat \union {Never} /\ keyless \in Nat
  /\ unheard \in Nat \union {Never} /\ unsent \in Nat \union {Never}

(* The histories go with the timers that the code compares.                *)
AttemptInv ==
  /\ state = "sent" => trying = age.started /\ trying < REKEY_ATTEMPT_TIME
  /\ state # "expired" => keyless = age.established

SilenceInv ==
  /\ unheard # Never =>
       unheard <= age.received /\ after.sent_received /\ want_handshake
  /\ unsent # Never =>
       unsent <= age.sent /\ after.received_sent /\ want_keepalive
  /\ state = "expired" =>
       /\ ~ previous /\ current = NoSession /\ fresh = NoSession
       /\ unheard = Never /\ unsent = Never
  /\ SilenceIsBroken

(* The initiator's session is no older than the last handshake, and a      *)
(* session that the peer started later has made it a responder.            *)
SessionInv ==
  is_initiator =>
    /\ current # NoSession => current <= age.established /\ current <= REJECT_AFTER_TIME
    /\ fresh # NoSession => current # NoSession /\ current <= fresh

TimersInv == TimersType /\ AttemptInv /\ SilenceInv /\ SessionInv

-----------------------------------------------------------------------------
(* The operators on ages and comparisons, one timer at a time *)

LEMMA Constants ==
  /\ REKEY_TIMEOUT \in Nat /\ KEEPALIVE_TIMEOUT \in Nat /\ MaxStep \in Nat
  /\ REKEY_ATTEMPT_TIME \in Nat /\ REKEY_AFTER_TIME \in Nat /\ REJECT_AFTER_TIME \in Nat
  /\ REKEY_TIMEOUT > 0 /\ KEEPALIVE_TIMEOUT > 0 /\ persistent_keepalive \in Nat
  /\ REKEY_TIMEOUT < REKEY_ATTEMPT_TIME /\ REKEY_ATTEMPT_TIME < REKEY_AFTER_TIME
  /\ REKEY_AFTER_TIME < REJECT_AFTER_TIME - KEEPALIVE_TIMEOUT - REKEY_TIMEOUT
BY SessionTimersAssumption, SMTT(30)

LEMMA DomainCap == DOMAIN Cap = Timers
BY DEF Cap, Timers

(* Every age grows by d up to the largest that matters.                    *)
LEMMA PassedAges ==
  ASSUME TimersType, NEW d \in 1..MaxStep
  PROVE  /\ Passed(d) \in Ages
         /\ Passed(d).established = Older(age.established, d, 3 * REJECT_AFTER_TIME)
         /\ Passed(d).started = Older(age.started, d, REKEY_ATTEMPT_TIME)
         /\ Passed(d).received = Older(age.received, d, KEEPALIVE_TIMEOUT + REKEY_TIMEOUT)
         /\ Passed(d).sent = Older(age.sent, d, KEEPALIVE_TIMEOUT)
<1>1. Passed(d) = [n \in Timers |-> Older(age[n], d, Cap[n])]
  BY DomainCap DEF Passed
<1>2. /\ Cap.established = 3 * REJECT_AFTER_TIME /\ Cap.started = REKEY_ATTEMPT_TIME
      /\ Cap.received = KEEPALIVE_TIMEOUT + REKEY_TIMEOUT /\ Cap.sent = KEEPALIVE_TIMEOUT
      /\ Cap.init = REKEY_TIMEOUT /\ Cap.persistent = persistent_keepalive
  BY DEF Cap
<1>3. \A n \in Timers : Cap[n] \in Nat
  BY <1>2, Constants, SMTT(30) DEF Timers
<1>4. \A n \in Timers : Older(age[n], d, Cap[n]) \in Int
  BY <1>3, Constants, SMTT(30) DEF Older, TimersType, Ages
<1>5. \A n \in Timers \ {"init"} : Older(age[n], d, Cap[n]) >= 0
  BY <1>3, Constants, SMTT(30) DEF Older, TimersType, Ages
<1>6. Passed(d) \in Ages
  BY <1>1, <1>4, <1>5 DEF Ages
<1> QED BY <1>1, <1>2, <1>6 DEF Timers

LEMMA ZeroAges == Zero \in Ages /\ \A n \in Timers : Zero[n] = 0
BY DomainCap, SMTT(30) DEF Zero, Ages

LEMMA NotAfterIs ==
  /\ NotAfter \in Comparisons
  /\ ~ NotAfter.sent_received /\ ~ NotAfter.received_sent
BY DEF NotAfter, Comparisons

LEMMA Compared ==
  ASSUME NEW c \in Comparisons, NEW x \in BOOLEAN, NEW y \in BOOLEAN
  PROVE  /\ [c EXCEPT !.received_sent = FALSE, !.sent_received = x, !.sent_established = y]
              \in Comparisons
         /\ [c EXCEPT !.sent_received = FALSE, !.received_sent = x, !.received_established = y]
              \in Comparisons
BY DEF Comparisons

(* A packet sent is later than the packets received; one with data is      *)
(* later than the last one received if an update lies between them.        *)
LEMMA SentAfterIs ==
  ASSUME NEW c \in Comparisons, NEW data \in BOOLEAN, age \in Ages
  PROVE  /\ SentAfter(c, data) \in Comparisons /\ ~ SentAfter(c, data).received_sent
         /\ SentAfter(c, data).sent_received
              <=> IF data THEN age.received > 0 ELSE c.sent_received
<1>1. /\ (IF data THEN age.received > 0 ELSE c.sent_received) \in BOOLEAN
      /\ (IF data THEN age.established > 0 ELSE c.sent_established) \in BOOLEAN
  <2>1. CASE data
    BY <2>1, SMTT(30)
  <2>2. CASE ~ data
    BY <2>2 DEF Comparisons
  <2> QED BY <2>1, <2>2
<1>2. SentAfter(c, data) \in Comparisons
  BY <1>1, Compared DEF SentAfter
<1> QED BY <1>2 DEF SentAfter, Comparisons

LEMMA ReceivedAfterIs ==
  ASSUME NEW c \in Comparisons, NEW data \in BOOLEAN, age \in Ages
  PROVE  /\ ReceivedAfter(c, data) \in Comparisons /\ ~ ReceivedAfter(c, data).sent_received
         /\ ReceivedAfter(c, data).received_sent
              <=> IF data THEN age.sent > 0 ELSE c.received_sent
<1>1. /\ (IF data THEN age.sent > 0 ELSE c.received_sent) \in BOOLEAN
      /\ (IF data THEN age.established > 0 ELSE c.received_established) \in BOOLEAN
  <2>1. CASE data
    BY <2>1, SMTT(30)
  <2>2. CASE ~ data
    BY <2>2 DEF Comparisons
  <2> QED BY <2>1, <2>2
<1>2. ReceivedAfter(c, data) \in Comparisons
  BY <1>1, Compared DEF ReceivedAfter
<1> QED BY <1>2 DEF ReceivedAfter, Comparisons

LEMMA EstablishedAfterIs ==
  ASSUME NEW c \in Comparisons
  PROVE  EstablishedAfter(c) \in Comparisons
BY DEF EstablishedAfter, Comparisons

LEMMA Ticked ==
  ASSUME NEW a \in Ages, NEW n \in Timers, NEW b, b = [a EXCEPT ![n] = 0]
  PROVE  b \in Ages /\ b[n] = 0 /\ \A m \in Timers \ {n} : b[m] = a[m]
BY SMTT(30) DEF Ages

(* A handshake is started or repeated: how long it has been tried goes     *)
(* with the timer.                                                         *)
LEMMA Initiated ==
  ASSUME TimersType, NEW a \in Ages, NEW tried \in Nat \union {Never}, NEW calm, NEW lag \in {0, 1},
         initiate(a, tried, calm, lag)
  PROVE  /\ state' = "sent" /\ previous' \in BOOLEAN /\ asked' \in BOOLEAN
         /\ want_handshake' = TRUE /\ want_keepalive' = FALSE
         /\ age' \in Ages
         /\ age'.started = (IF state = "sent" THEN a.started ELSE 0)
         /\ trying' = (IF state = "sent" THEN tried ELSE 0)
         /\ state = "expired" => age'.established = 0
         /\ state # "expired" => age'.established = a.established /\ age'.received = a.received
         /\ after' \in Comparisons
         /\ state # "expired" => (after'.sent_received <=> after.sent_received)
<1>1. Restarted(a) \in [Timers -> Int] /\ \A n \in Timers \ {"init"} : Restarted(a)[n] >= 0
  BY ZeroAges DEF Restarted, Ages
<1>2. Started(a) \in Nat /\ Started(a) = IF state = "sent" THEN a.started ELSE 0
  BY SMTT(30) DEF Started, Timers, Ages
<1>3. age' = [Restarted(a) EXCEPT !.sent = 0, !.init = -lag, !.started = Started(a)]
  BY DEF initiate
<1>4. age' \in Ages
  <2> DEFINE now == -lag
  <2>1. now \in Int
    BY SMTT(30)
  <2>2. \A n \in Timers \ {"init"} : age'[n] \in {Restarted(a)[n], 0, Started(a)}
    BY <1>1, <1>3
  <2>3. age' \in [Timers -> Int]
    <3>1. age' = [Restarted(a) EXCEPT !.sent = 0, !.init = now, !.started = Started(a)]
      BY <1>3
    <3> HIDE DEF now
    <3>2. \A n \in Timers : age'[n] \in {Restarted(a)[n], 0, now, Started(a)}
      BY <1>1, <3>1
    <3>3. DOMAIN age' = Timers /\ age' = [n \in Timers |-> age'[n]]
      BY <1>1, <3>1
    <3> QED BY <1>1, <1>2, <2>1, <3>2, <3>3, SMTT(30)
  <2> QED BY <1>1, <1>2, <2>2, <2>3, SMTT(30) DEF Ages
<1>5. age'.started = IF state = "sent" THEN a.started ELSE 0
  BY <1>1, <1>2, <1>3 DEF Timers
<1>6. state = "expired" => age'.established = 0
  BY <1>1, <1>3, ZeroAges DEF Timers, Restarted
<1>7. state # "expired" => age'.established = a.established /\ age'.received = a.received
  BY <1>1, <1>3 DEF Timers, Restarted
<1>8. /\ after' \in Comparisons
      /\ state # "expired" => (after'.sent_received <=> after.sent_received)
  BY NotAfterIs, SentAfterIs DEF initiate, TimersType
<1> QED BY <1>4, <1>5, <1>6, <1>7, <1>8 DEF initiate, TimersType

LEMMA InitTimers == TimersInit => TimersInv
<1> SUFFICES ASSUME TimersInit PROVE TimersInv
  OBVIOUS
<1>1. TimersType
  <2>1. state \in {"none", "sent", "expired"} /\ age \in Ages /\ after \in Comparisons
    BY ZeroAges, NotAfterIs DEF TimersInit
  <2> QED BY <2>1 DEF TimersInit, TimersType
<1>2. AttemptInv
  BY ZeroAges DEF TimersInit, AttemptInv, Timers
<1>3. SilenceInv /\ SessionInv
  BY Constants, SMTT(30) DEF TimersInit, SilenceInv, SilenceIsBroken, SessionInv, Never
<1> QED BY <1>1, <1>2, <1>3 DEF TimersInv

-----------------------------------------------------------------------------
(* Every packet and every update keeps the invariant *)

LEMMA SendsData ==
  ASSUME TimersInv, encapsulate PROVE TimersInv'
<1> USE DEF NoSession, Never
<1>1. TimersType /\ AttemptInv /\ SilenceInv /\ SessionInv
  BY DEF TimersInv
<1>2. CASE current # NoSession /\ age' = SentAge(age)
           /\ after' = SentAfter(after, TRUE)
           /\ want_handshake' = TRUE /\ want_keepalive' = FALSE
           /\ unheard' = Since(unheard, after'.sent_received) /\ unsent' = Never
           /\ UNCHANGED <<state, previous, asked, is_initiator, sessions, trying, quiet,
                          keyless>>
  <2>1. /\ age' \in Ages
        /\ age'.started = age.started /\ age'.established = age.established
        /\ age'.received = age.received
    BY <1>1, <1>2, Ticked DEF SentAge, TimersType, Ages, Timers
  <2>2. after' \in Comparisons
    BY <1>1, <1>2, SentAfterIs DEF TimersType
  <2>3. /\ unheard' \in Nat \union {Never}
        /\ unheard' # Never => after'.sent_received /\ unheard' <= age.received
        /\ SilenceIsBroken'
    <3>1. unheard' = IF ~ after'.sent_received THEN Never
                     ELSE IF unheard = Never THEN 0 ELSE unheard
      BY <1>2 DEF Since
    <3>2. age.received \in Nat
      BY <1>1, SMTT(30) DEF TimersType, Ages, Timers
    <3>3. /\ unheard \in Nat \union {Never} /\ (unheard # Never => unheard <= age.received)
          /\ state = "none" => unheard < KEEPALIVE_TIMEOUT + REKEY_TIMEOUT
      BY <1>1 DEF SilenceInv, SilenceIsBroken, TimersType
    <3>4. /\ unheard' \in Nat \union {Never}
          /\ unheard' # Never => after'.sent_received /\ unheard' <= age.received
          /\ state = "none" => unheard' < KEEPALIVE_TIMEOUT + REKEY_TIMEOUT
      BY <3>1, <3>2, <3>3, Constants, SMTT(30)
    <3>5. SilenceIsBroken'
      <4>1. state' = state /\ unsent' = Never
        BY <1>2
      <4> QED BY <3>4, <4>1, Constants, SMTT(30) DEF SilenceIsBroken
    <3> QED BY <3>4, <3>5
  <2>4. TimersType'
    BY <1>1, <1>2, <2>1, <2>2, <2>3 DEF TimersType, sessions
  <2>5. AttemptInv' /\ SessionInv'
    BY <1>1, <1>2, <2>1 DEF AttemptInv, SessionInv, sessions
  <2>6. SilenceInv'
    BY <1>1, <1>2, <2>1, <2>3 DEF SilenceInv, sessions
  <2> QED BY <2>4, <2>5, <2>6 DEF TimersInv
<1>3. CASE /\ current = NoSession /\ state # "sent"
           /\ \E lag \in {0, 1} : initiate(age, trying, quiet, lag)
           /\ keyless' = (IF state = "expired" THEN 0 ELSE keyless)
           /\ unsent' = Never
           /\ UNCHANGED <<is_initiator, sessions, unheard>>
  <2>1. PICK lag \in {0, 1} : initiate(age, trying, quiet, lag)
    BY <1>3
  <2>2. /\ state' = "sent" /\ previous' \in BOOLEAN /\ asked' \in BOOLEAN
        /\ want_handshake' = TRUE /\ want_keepalive' = FALSE
        /\ age' \in Ages
        /\ age'.started = 0 /\ trying' = 0
        /\ state = "expired" => age'.established = 0
        /\ state # "expired" => age'.established = age.established /\ age'.received = age.received
        /\ after' \in Comparisons
        /\ state # "expired" => (after'.sent_received <=> after.sent_received)
    BY <1>1, <1>3, <2>1, Initiated DEF TimersType
  <2>3. TimersType'
    BY <1>1, <1>3, <2>2 DEF TimersType, sessions
  <2>4. AttemptInv'
    BY <1>1, <1>3, <2>2, Constants, SMTT(30) DEF AttemptInv
  <2>5. SilenceInv'
    BY <1>1, <1>3, <2>2 DEF SilenceInv, SilenceIsBroken, sessions
  <2>6. SessionInv'
    BY <1>1, <1>3 DEF SessionInv, sessions
  <2> QED BY <2>3, <2>4, <2>5, <2>6 DEF TimersInv
<1>4. CASE UNCHANGED <<state, previous, asked, age, after, flags, sessions, trying,
                       keyless, unheard, unsent>>
  BY <1>1, <1>4 DEF TimersInv, TimersType, AttemptInv, SilenceInv, SilenceIsBroken,
                    SessionInv, flags, sessions
<1> QED BY <1>2, <1>3, <1>4 DEF encapsulate

LEMMA AnswersInitiation ==
  ASSUME TimersInv, handle_handshake_init PROVE TimersInv'
<1> USE DEF NoSession, Never
<1>1. TimersType
  BY DEF TimersInv
<1>2. age' \in Ages /\ age'.established = 0
  <2>1. ReceivedAge(age) \in Ages
    BY <1>1, Ticked DEF ReceivedAge, TimersType, Timers
  <2>2. SentAge(ReceivedAge(age)) \in Ages
    BY <2>1, Ticked DEF SentAge, Timers
  <2> QED BY <2>2, Ticked, SMTT(30) DEF handle_handshake_init, Timers
<1>3. after' \in Comparisons
  <2>1. ReceivedAfter(after, FALSE) \in Comparisons
    BY <1>1, ReceivedAfterIs DEF TimersType
  <2>2. SentAfter(ReceivedAfter(after, FALSE), FALSE) \in Comparisons
    BY <1>1, <2>1, SentAfterIs DEF TimersType
  <2> QED BY <2>2, EstablishedAfterIs DEF handle_handshake_init
<1>4. TimersType'
  BY <1>1, <1>2, <1>3 DEF handle_handshake_init, TimersType
<1>5. AttemptInv' /\ SilenceInv' /\ SessionInv'
  BY <1>2, Constants, SMTT(30)
     DEF handle_handshake_init, AttemptInv, SilenceInv, SilenceIsBroken, SessionInv
<1> QED BY <1>4, <1>5 DEF TimersInv

LEMMA TakesResponse ==
  ASSUME TimersInv, NEW to_previous \in BOOLEAN, handle_handshake_response(to_previous)
  PROVE  TimersInv'
<1> USE DEF NoSession, Never
<1>1. TimersType /\ AttemptInv
  BY DEF TimersInv
<1>2. age' \in Ages /\ age'.established = 0 /\ age'.started = age.started
  <2>1. ReceivedAge(age) \in Ages /\ ReceivedAge(age).started = age.started
    BY <1>1, Ticked, SMTT(30) DEF ReceivedAge, TimersType, Timers
  <2> QED BY <2>1, Ticked, SMTT(30) DEF handle_handshake_response, Timers
<1>3. after' \in Comparisons
  <2>1. ReceivedAfter(after, FALSE) \in Comparisons
    BY <1>1, ReceivedAfterIs DEF TimersType
  <2> QED BY <2>1, EstablishedAfterIs DEF handle_handshake_response
<1>4. /\ previous' \in BOOLEAN
      /\ \/ state' = "none" /\ trying' = Never
         \/ state' = state /\ trying' = trying
  BY <1>1 DEF handle_handshake_response, TimersType
<1>5. TimersType'
  BY <1>1, <1>2, <1>3, <1>4 DEF handle_handshake_response, TimersType
<1>6. AttemptInv'
  BY <1>1, <1>2, <1>4 DEF handle_handshake_response, AttemptInv
<1>7. state' # "expired"
  BY DEF TimersInv, SilenceInv, handle_handshake_response
<1>8. SilenceInv' /\ SessionInv'
  BY <1>1, <1>2, <1>7, Constants, SMTT(30)
     DEF handle_handshake_response, SilenceInv, SilenceIsBroken, SessionInv, TimersType
<1> QED BY <1>5, <1>6, <1>8 DEF TimersInv

LEMMA TakesData ==
  ASSUME TimersInv, NEW data \in BOOLEAN, NEW confirms \in BOOLEAN, handle_data(data, confirms)
  PROVE  TimersInv'
<1> USE DEF NoSession, Never
<1>1. TimersType /\ AttemptInv /\ SilenceInv /\ SessionInv
  BY DEF TimersInv
<1>2. /\ age' \in Ages /\ age'.started = age.started /\ age'.established = age.established
      /\ age'.sent = age.sent
  BY <1>1, Ticked, SMTT(30) DEF handle_data, ReceivedAge, TimersType, Timers
<1>3. /\ after' \in Comparisons
      /\ after'.received_sent <=> IF data THEN age.sent > 0 ELSE after.received_sent
  BY <1>1, ReceivedAfterIs DEF handle_data, TimersType
<1>4. /\ state # "expired" /\ state' = state /\ previous' = previous /\ asked' = asked
      /\ is_initiator' = is_initiator /\ trying' = trying /\ keyless' = keyless
      /\ unheard' = Never /\ want_keepalive' = TRUE /\ want_handshake' = FALSE
      /\ unsent' = IF data THEN Since(unsent, after'.received_sent) ELSE unsent
  BY <1>1 DEF handle_data, SilenceInv
<1>5. \/ current' = current /\ fresh' \in {fresh, NoSession}
      \/ current' = fresh /\ fresh # NoSession /\ fresh' = NoSession
         /\ (current = NoSession \/ fresh <= current)
  BY DEF handle_data, sessions
<1>6. /\ unsent' \in Nat \union {Never} /\ (unsent' # Never => unsent' <= age.sent)
      /\ unsent' # Never => after'.received_sent
      /\ state = "none" => unsent' < KEEPALIVE_TIMEOUT
  <2>1. age.sent \in Nat
    BY <1>1, SMTT(30) DEF TimersType, Ages, Timers
  <2>2. /\ unsent \in Nat \union {Never} /\ (unsent # Never => unsent <= age.sent)
        /\ state = "none" => unsent < KEEPALIVE_TIMEOUT
        /\ unsent # Never => after.received_sent
    BY <1>1 DEF SilenceInv, SilenceIsBroken, TimersType
  <2>3. CASE data
    <3>1. unsent' = IF ~ after'.received_sent THEN Never ELSE IF unsent = Never THEN 0 ELSE unsent
      BY <1>4, <2>3 DEF Since
    <3> QED BY <2>1, <2>2, <3>1, Constants, SMTT(30)
  <2>4. CASE ~ data
    BY <1>3, <1>4, <2>1, <2>2, <2>4
  <2> QED BY <2>3, <2>4
<1>7. TimersType'
  BY <1>1, <1>2, <1>3, <1>4, <1>5, <1>6 DEF TimersType
<1>8. AttemptInv'
  BY <1>1, <1>2, <1>4 DEF AttemptInv
<1>9. SilenceIsBroken'
  BY <1>4, <1>6, Constants, SMTT(30) DEF SilenceIsBroken
<1>10. SilenceInv'
  BY <1>2, <1>4, <1>6, <1>9 DEF SilenceInv
<1>11. SessionInv'
  BY <1>1, <1>2, <1>4, <1>5, SMTT(30) DEF SessionInv, TimersType
<1> QED BY <1>7, <1>8, <1>10, <1>11 DEF TimersInv

LEMMA TakesCookie ==
  ASSUME TimersInv, handle_cookie_reply PROVE TimersInv'
<1> USE DEF NoSession, Never
<1>1. TimersType /\ AttemptInv /\ SilenceInv /\ SessionInv
  BY DEF TimersInv
<1>2. /\ age' \in Ages /\ age'.started = age.started /\ age'.established = age.established
      /\ age'.sent = age.sent
  BY <1>1, Ticked, SMTT(30) DEF handle_cookie_reply, ReceivedAge, TimersType, Timers
<1>3. after' \in Comparisons /\ (after'.received_sent <=> after.received_sent)
  BY <1>1, ReceivedAfterIs DEF handle_cookie_reply, TimersType
<1>4. /\ state' = state /\ previous' = previous /\ asked' = asked
      /\ is_initiator' = is_initiator /\ trying' = trying /\ keyless' = keyless
      /\ current' = current /\ fresh' = fresh /\ unsent' = unsent
      /\ unheard' = Never /\ want_keepalive' = TRUE /\ want_handshake' = FALSE
  BY DEF handle_cookie_reply, sessions
<1>5. TimersType'
  BY <1>1, <1>2, <1>3, <1>4 DEF TimersType
<1>6. AttemptInv' /\ SessionInv'
  BY <1>1, <1>2, <1>4 DEF AttemptInv, SessionInv
<1>7. SilenceIsBroken'
  BY <1>1, <1>4, Constants, SMTT(30) DEF SilenceInv, SilenceIsBroken
<1>8. SilenceInv'
  BY <1>1, <1>2, <1>3, <1>4, <1>7 DEF SilenceInv
<1> QED BY <1>5, <1>6, <1>8 DEF TimersInv

(* Time passes, and neither does the connection expire nor has it.         *)
LEMMA TimePasses ==
  ASSUME TimersInv, NEW d \in 1..MaxStep, state # "expired", ~ GivesUp(Passed(d)),
         current' = Dropped(current, d), fresh' = Dropped(fresh, d),
         unheard' = Waited(unheard, d, Cap.received),
         keyless' = Older(keyless, d, Cap.established), UNCHANGED is_initiator
  PROVE  /\ keyless' = Passed(d).established /\ keyless' \in Nat
         /\ state = "sent" => /\ Waited(trying, d, REKEY_ATTEMPT_TIME) = Passed(d).started
                              /\ Passed(d).started < REKEY_ATTEMPT_TIME
         /\ Waited(trying, d, REKEY_ATTEMPT_TIME) \in Nat \union {Never}
         /\ unheard' \in Nat \union {Never}
         /\ unheard' # Never => unheard # Never /\ unheard' <= Passed(d).received
         /\ current' \in Nat \union {NoSession} /\ fresh' \in Nat \union {NoSession}
         /\ is_initiator' =>
              /\ current' # NoSession =>
                   current' <= Passed(d).established /\ current' <= REJECT_AFTER_TIME
              /\ fresh' # NoSession => current' # NoSession /\ current' <= fresh'
<1> DEFINE a == Passed(d)
<1> USE Constants DEF NoSession, Never
<1>1. TimersType /\ AttemptInv /\ SilenceInv /\ SessionInv
  BY DEF TimersInv
<1>2. /\ a.established = Older(age.established, d, 3 * REJECT_AFTER_TIME)
      /\ a.started = Older(age.started, d, REKEY_ATTEMPT_TIME)
      /\ a.received = Older(age.received, d, KEEPALIVE_TIMEOUT + REKEY_TIMEOUT)
  BY <1>1, PassedAges
<1>3. Cap.established = 3 * REJECT_AFTER_TIME /\ Cap.received = KEEPALIVE_TIMEOUT + REKEY_TIMEOUT
  BY DEF Cap
<1>4. /\ age.established \in Nat /\ age.started \in Nat /\ age.received \in Nat
      /\ trying \in Nat \union {Never} /\ unheard \in Nat \union {Never}
      /\ current \in Nat \union {NoSession} /\ fresh \in Nat \union {NoSession}
  BY <1>1, SMTT(30) DEF TimersType, Ages, Timers
<1>5. /\ ~ a.established >= 3 * REJECT_AFTER_TIME
      /\ state = "sent" => ~ a.started >= REKEY_ATTEMPT_TIME
  BY DEF GivesUp
<1> HIDE DEF a
<1>6. a.established = age.established + d
  BY <1>2, <1>4, <1>5, SMTT(30) DEF Older
<1>7. keyless' = a.established /\ keyless' \in Nat
  BY <1>1, <1>2, <1>3, <1>4, <1>6, SMTT(30) DEF AttemptInv
<1>8. Waited(trying, d, REKEY_ATTEMPT_TIME) \in Nat \union {Never}
  BY <1>4, SMTT(30) DEF Waited, Older
<1>9. state = "sent" => Waited(trying, d, REKEY_ATTEMPT_TIME) = a.started
                        /\ a.started < REKEY_ATTEMPT_TIME
  BY <1>1, <1>2, <1>4, <1>5, SMTT(30) DEF AttemptInv, Waited, Older
<1>10. /\ unheard' \in Nat \union {Never}
       /\ unheard' # Never => unheard # Never /\ unheard' <= a.received
  BY <1>1, <1>2, <1>3, <1>4, SMTT(30) DEF SilenceInv, Waited, Older
<1>11. current' \in Nat \union {NoSession} /\ fresh' \in Nat \union {NoSession}
  BY <1>4, SMTT(30) DEF Dropped
<1>12. is_initiator' =>
         /\ current' # NoSession => current' <= a.established /\ current' <= REJECT_AFTER_TIME
         /\ fresh' # NoSession => current' # NoSession /\ current' <= fresh'
  BY <1>1, <1>4, <1>6, SMTT(30) DEF Dropped, SessionInv
<1> QED BY <1>7, <1>8, <1>9, <1>10, <1>11, <1>12 DEF a

LEMMA Updates ==
  ASSUME TimersInv, NEW d \in 1..MaxStep, update_timers(d) PROVE TimersInv'
<1> DEFINE a == Passed(d)
           tried == Waited(trying, d, REKEY_ATTEMPT_TIME)
           calm == Waited(quiet, d, REKEY_ATTEMPT_TIME)
<1> USE DEF NoSession, Never
<1>1. TimersType /\ AttemptInv /\ SilenceInv /\ SessionInv
  BY DEF TimersInv
<1>2. /\ a \in Ages
      /\ a.received = Older(age.received, d, KEEPALIVE_TIMEOUT + REKEY_TIMEOUT)
      /\ a.sent = Older(age.sent, d, KEEPALIVE_TIMEOUT)
  BY <1>1, PassedAges
<1> HIDE DEF a
<1>3. CASE /\ state = "expired" /\ age' = a
           /\ UNCHANGED <<state, previous, asked, after, flags, sessions, history>>
  <2>1. TimersType'
    BY <1>1, <1>2, <1>3 DEF TimersType, flags, sessions, history
  <2> QED BY <1>1, <1>3, <2>1
          DEF TimersInv, AttemptInv, SilenceInv, SilenceIsBroken, SessionInv,
              flags, sessions, history
<1>4. CASE expire
  <2>1. age' \in Ages /\ after' \in Comparisons
    BY <1>4, ZeroAges, NotAfterIs DEF expire
  <2>2. TimersType'
    BY <1>1, <1>4, <2>1 DEF TimersType, expire
  <2>3. AttemptInv' /\ SilenceInv' /\ SessionInv'
    BY <1>4 DEF expire, AttemptInv, SilenceInv, SilenceIsBroken, SessionInv
  <2> QED BY <2>2, <2>3 DEF TimersInv
<1>5. CASE /\ state # "expired" /\ ~ GivesUp(a)
           /\ current' = Dropped(current, d) /\ fresh' = Dropped(fresh, d)
           /\ unheard' = Waited(unheard, d, Cap.received)
           /\ keyless' = Older(keyless, d, Cap.established)
           /\ UNCHANGED is_initiator
           /\ IF IF state = "sent" THEN a.init >= REKEY_TIMEOUT ELSE RekeyDue(a)
                THEN initiate(a, tried, calm, 0) /\ unsent' = Never
              ELSE IF state = "none" /\ (PassiveDue(a) \/ PersistentDue(a))
                THEN send_keepalive(a)
              ELSE /\ age' = a /\ trying' = tried /\ quiet' = calm
                   /\ unsent' = Waited(unsent, d, Cap.sent)
                   /\ UNCHANGED <<state, previous, asked, after, want_keepalive,
                                  want_handshake>>
  <2>1. /\ keyless' = a.established /\ keyless' \in Nat
        /\ state = "sent" => tried = a.started /\ a.started < REKEY_ATTEMPT_TIME
        /\ tried \in Nat \union {Never} /\ unheard' \in Nat \union {Never}
        /\ unheard' # Never => unheard # Never /\ unheard' <= a.received
        /\ current' \in Nat \union {NoSession} /\ fresh' \in Nat \union {NoSession}
        /\ is_initiator' =>
             /\ current' # NoSession =>
                  current' <= a.established /\ current' <= REJECT_AFTER_TIME
             /\ fresh' # NoSession => current' # NoSession /\ current' <= fresh'
    BY <1>5, TimePasses DEF a
  <2>2. is_initiator' = is_initiator /\ state # "expired"
    BY <1>5
  <2> HIDE DEF tried, calm
  <2>3. ASSUME NEW b \in Ages, b.established = a.established, b.received = a.received,
               b.started = a.started, NEW t \in Nat \union {Never}, state = "sent" => t = tried,
               NEW k, initiate(b, t, k, 0), unsent' = Never
        PROVE  TimersInv'
    <3>1. /\ state' = "sent" /\ previous' \in BOOLEAN /\ asked' \in BOOLEAN
          /\ want_handshake' = TRUE /\ want_keepalive' = FALSE
          /\ age' \in Ages /\ age'.started = (IF state = "sent" THEN b.started ELSE 0)
          /\ trying' = (IF state = "sent" THEN t ELSE 0)
          /\ age'.established = b.established /\ age'.received = b.received
          /\ after' \in Comparisons /\ (after'.sent_received <=> after.sent_received)
      BY <1>1, <2>2, <2>3, Initiated
    <3>2. TimersType'
      BY <1>1, <2>1, <2>2, <2>3, <3>1 DEF TimersType
    <3>3. AttemptInv'
      BY <2>1, <2>3, <3>1, Constants, SMTT(30) DEF AttemptInv
    <3>4. SilenceInv'
      BY <1>1, <2>1, <2>3, <3>1 DEF SilenceInv, SilenceIsBroken
    <3>5. SessionInv'
      BY <2>1, <2>3, <3>1 DEF SessionInv
    <3> QED BY <3>2, <3>3, <3>4, <3>5 DEF TimersInv
  <2>4. CASE IF state = "sent" THEN a.init >= REKEY_TIMEOUT ELSE RekeyDue(a)
    BY <1>2, <1>5, <2>1, <2>3, <2>4
  <2>5. CASE /\ ~ IF state = "sent" THEN a.init >= REKEY_TIMEOUT ELSE RekeyDue(a)
             /\ state = "none" /\ send_keepalive(a)
    <3> DEFINE b == [a EXCEPT !.persistent = IF PersistentDue(a) THEN 0 ELSE @]
    <3>1. /\ b \in Ages /\ b.established = a.established /\ b.received = a.received
          /\ b.started = a.started
      <4>1. CASE PersistentDue(a)
        BY <1>2, <4>1, Ticked, SMTT(30) DEF Timers
      <4>2. CASE ~ PersistentDue(a)
        BY <1>2, <4>2 DEF Ages, Timers
      <4> QED BY <4>1, <4>2
    <3>2. CASE current' = NoSession
      BY <1>1, <2>3, <2>5, <3>1, <3>2 DEF send_keepalive, TimersType
    <3>3. CASE current' # NoSession
      <4>1. /\ age' = SentAge(b) /\ after' = SentAfter(after, FALSE)
            /\ want_handshake' = TRUE /\ want_keepalive' = FALSE /\ unsent' = Never
            /\ state' = state /\ previous' = previous /\ asked' = asked /\ trying' = trying
        BY <2>5, <3>3 DEF send_keepalive
      <4> HIDE DEF b
      <4>2. age' \in Ages /\ age'.established = a.established /\ age'.received = a.received
        BY <3>1, <4>1, Ticked, SMTT(30) DEF SentAge, Timers
      <4>3. after' \in Comparisons /\ (after'.sent_received <=> after.sent_received)
        BY <1>1, <4>1, SentAfterIs DEF TimersType
      <4>4. TimersType'
        BY <1>1, <2>1, <2>2, <4>1, <4>2, <4>3 DEF TimersType
      <4>5. AttemptInv' /\ SessionInv'
        BY <2>1, <2>2, <2>5, <4>1, <4>2 DEF AttemptInv, SessionInv
      <4>6. SilenceIsBroken'
        BY <1>1, <1>2, <2>1, <2>5, <4>1, Constants, SMTT(30)
           DEF SilenceInv, SilenceIsBroken, RekeyDue, Ages, Timers
      <4>7. SilenceInv'
        BY <1>1, <2>1, <2>5, <4>1, <4>2, <4>3, <4>6 DEF SilenceInv
      <4> QED BY <4>4, <4>5, <4>7 DEF TimersInv
    <3> QED BY <3>2, <3>3
  <2>6. CASE /\ ~ IF state = "sent" THEN a.init >= REKEY_TIMEOUT ELSE RekeyDue(a)
             /\ state = "none" => ~ PassiveDue(a)
             /\ age' = a /\ trying' = tried /\ unsent' = Waited(unsent, d, Cap.sent)
             /\ UNCHANGED <<state, previous, asked, after, want_keepalive, want_handshake>>
    <3>1. /\ unsent' \in Nat \union {Never}
          /\ unsent' # Never => unsent # Never /\ unsent' <= a.sent
      <4>1. Cap.sent = KEEPALIVE_TIMEOUT
        BY DEF Cap
      <4>2. /\ age.sent \in Nat /\ unsent \in Nat \union {Never}
            /\ unsent # Never => unsent <= age.sent
        BY <1>1, SMTT(30) DEF TimersType, SilenceInv, Ages, Timers
      <4> QED BY <1>2, <2>6, <4>1, <4>2, Constants, SMTT(30) DEF Waited, Older
    <3>2. TimersType'
      BY <1>1, <1>2, <2>1, <2>2, <2>6, <3>1 DEF TimersType
    <3>3. AttemptInv' /\ SessionInv'
      BY <2>1, <2>2, <2>6 DEF AttemptInv, SessionInv
    <3>4. SilenceIsBroken'
      BY <1>1, <1>2, <2>1, <2>6, <3>1, Constants, SMTT(30)
         DEF SilenceInv, SilenceIsBroken, RekeyDue, PassiveDue, Ages, Timers
    <3>5. SilenceInv'
      BY <1>1, <2>1, <2>2, <2>6, <3>1, <3>4 DEF SilenceInv
    <3> QED BY <3>2, <3>3, <3>5 DEF TimersInv
  <2> QED BY <1>1, <1>5, <2>4, <2>5, <2>6 DEF TimersType
<1> QED BY <1>3, <1>4, <1>5 DEF update_timers, a

LEMMA NextTimers == TimersInv /\ [TimersNext]_timersVars => TimersInv'
<1> SUFFICES ASSUME TimersInv, [TimersNext]_timersVars PROVE TimersInv'
  OBVIOUS
<1>1. CASE UNCHANGED timersVars
  BY <1>1, SMTT(30) DEF timersVars, flags, sessions, history, TimersInv, TimersType, AttemptInv,
                        SilenceInv, SilenceIsBroken, SessionInv
<1> QED BY <1>1, SendsData, AnswersInitiation, TakesResponse, TakesData, TakesCookie, Updates
        DEF TimersNext

-----------------------------------------------------------------------------
(* The time since a packet was last queued is part of the attempt's.       *)
QuietInv == state = "sent" => quiet \in Nat /\ quiet <= trying

(* A packet that is queued shortens it; an update lengthens both.          *)
LEMMA NextQuiet == TimersInv /\ QuietInv /\ [TimersNext]_timersVars => QuietInv'
<1> SUFFICES ASSUME TimersInv, QuietInv, [TimersNext]_timersVars PROVE QuietInv'
  OBVIOUS
<1> USE DEF Never
<1>1. state = "sent" => trying \in Nat
  BY SMTT(30) DEF TimersInv, TimersType, AttemptInv, Ages, Timers
<1>f. ASSUME state' = state, trying' = trying, quiet' = quiet PROVE QuietInv'
  BY <1>f DEF QuietInv
<1>n. ASSUME state' # "sent" PROVE QuietInv'
  BY <1>n DEF QuietInv
<1>i. ASSUME state # "sent", NEW a, NEW t, NEW c, NEW lag, initiate(a, t, c, lag)
      PROVE  QuietInv'
  <2>1. trying' = 0 /\ quiet' = 0
    BY <1>i DEF initiate
  <2> QED BY <2>1, SMTT(30) DEF QuietInv
<1>2. ASSUME encapsulate PROVE QuietInv'
  <2>1. CASE current # NoSession
    BY <1>2, <1>f, <2>1 DEF encapsulate
  <2>2. CASE current = NoSession /\ state # "sent"
    BY <1>2, <1>i, <2>2 DEF encapsulate
  <2>3. CASE current = NoSession /\ state = "sent"
    <3>1. trying' = trying /\ quiet' = 0
      BY <1>2, <2>3 DEF encapsulate
    <3> QED BY <1>1, <2>3, <3>1, SMTT(30) DEF QuietInv
  <2> QED BY <2>1, <2>2, <2>3
<1>3. ASSUME NEW d \in 1..MaxStep, update_timers(d) PROVE QuietInv'
  <2> DEFINE tried == Waited(trying, d, REKEY_ATTEMPT_TIME)
             calm == Waited(quiet, d, REKEY_ATTEMPT_TIME)
  <2>1. state = "sent" => calm \in Nat /\ calm <= tried
    BY <1>1, Constants, SMTT(30) DEF QuietInv, Waited, Older
  <2>2. CASE state = "sent"
    <3>1. \/ state' # "sent"
          \/ trying' = tried /\ quiet' = calm
      BY <1>3, <2>2 DEF update_timers, expire, initiate
    <3> QED BY <1>n, <2>1, <2>2, <3>1 DEF QuietInv
  <2>3. CASE state # "sent"
    <3>1. \/ state' # "sent"
          \/ \E a, t, c, lag : initiate(a, t, c, lag)
      BY <1>3, <2>3 DEF update_timers, expire, send_keepalive
    <3> QED BY <1>i, <1>n, <2>3, <3>1
  <2> QED BY <2>2, <2>3
<1>4. ASSUME handle_handshake_init PROVE QuietInv'
  BY <1>4, <1>n DEF handle_handshake_init
<1>5. ASSUME NEW x \in BOOLEAN, handle_handshake_response(x) PROVE QuietInv'
  BY <1>5, <1>f, <1>n DEF handle_handshake_response
<1>6. ASSUME NEW x \in BOOLEAN, NEW y \in BOOLEAN, handle_data(x, y) PROVE QuietInv'
  BY <1>6, <1>f DEF handle_data
<1>7. ASSUME handle_cookie_reply PROVE QuietInv'
  BY <1>7, <1>f DEF handle_cookie_reply
<1>8. CASE UNCHANGED timersVars
  BY <1>8, <1>f DEF timersVars, history
<1> QED BY <1>2, <1>3, <1>4, <1>5, <1>6, <1>7, <1>8 DEF TimersNext

(* No handshake is repeated for longer than REKEY_ATTEMPT_TIME after it    *)
(* was started and a packet was last queued (update_timers).               *)
THEOREM RetriesCease == TimersSpec => []AttemptsCease
<1>1. TimersInv /\ QuietInv => AttemptsCease
  <2> SUFFICES ASSUME TimersInv, QuietInv, state = "sent" PROVE quiet < REKEY_ATTEMPT_TIME
    BY DEF AttemptsCease
  <2>1. trying < REKEY_ATTEMPT_TIME /\ trying \in Nat
    BY SMTT(30) DEF TimersInv, TimersType, AttemptInv, Ages, Timers
  <2>2. quiet \in Nat /\ quiet <= trying
    BY DEF QuietInv
  <2> QED BY <2>1, <2>2, Constants, SMTT(30)
<1>2. TimersInit => QuietInv
  BY DEF TimersInit, QuietInv
<1> QED BY <1>1, <1>2, InitTimers, NextTimers, NextQuiet, PTL DEF TimersSpec

(* Unanswered data leads to a handshake, and data that was not answered to *)
(* a keepalive, in time.                                                   *)
THEOREM NoSilence == TimersSpec => []SilenceIsBroken
<1>1. TimersInv => SilenceIsBroken
  BY DEF TimersInv, SilenceInv
<1> QED BY <1>1, InitTimers, NextTimers, PTL DEF TimersSpec

(* Only an update makes a connection expire, and only if it gives up.      *)
LEMMA OnlyUpdatesExpire ==
  ASSUME TimersNext, state = "sent", state' = "expired"
  PROVE  \E d \in 1..MaxStep : GivesUp(Passed(d))
<1>1. ~ encapsulate /\ ~ handle_handshake_init /\ ~ handle_cookie_reply
  BY DEF encapsulate, handle_handshake_init, handle_cookie_reply, initiate
<1>2. \A x, y \in BOOLEAN : ~ handle_handshake_response(x) /\ ~ handle_data(x, y)
  BY DEF handle_handshake_response, handle_data
<1>3. PICK d \in 1..MaxStep : update_timers(d)
  BY <1>1, <1>2 DEF TimersNext
<1>4. GivesUp(Passed(d))
  BY <1>3 DEF update_timers, initiate, send_keepalive
<1> QED BY <1>4

(* A handshake is given up no earlier than REKEY_ATTEMPT_TIME after it was *)
(* started, or 3 * REJECT_AFTER_TIME after the last keys.                  *)
THEOREM RetriesAreFull == TimersSpec => AttemptsAreFull
<1> DEFINE A == state = "sent" /\ state' = "expired" =>
                  \/ trying + MaxStep >= REKEY_ATTEMPT_TIME
                  \/ keyless + MaxStep >= 3 * REJECT_AFTER_TIME
<1>1. TimersInv /\ [TimersNext]_timersVars => [A]_timersVars
  <2> SUFFICES ASSUME TimersInv, TimersNext, state = "sent", state' = "expired"
               PROVE  \/ trying + MaxStep >= REKEY_ATTEMPT_TIME
                      \/ keyless + MaxStep >= 3 * REJECT_AFTER_TIME
    OBVIOUS
  <2>1. PICK d \in 1..MaxStep : GivesUp(Passed(d))
    BY OnlyUpdatesExpire
  <2>2. /\ Passed(d).established = Older(age.established, d, 3 * REJECT_AFTER_TIME)
        /\ Passed(d).started = Older(age.started, d, REKEY_ATTEMPT_TIME)
    BY PassedAges DEF TimersInv
  <2>3. /\ trying = age.started /\ keyless = age.established
        /\ trying \in Nat /\ keyless \in Nat
    BY SMTT(30) DEF TimersInv, AttemptInv, TimersType, Ages, Timers
  <2> QED BY <2>1, <2>2, <2>3, Constants, SMTT(30) DEF GivesUp, Older
<1> QED BY <1>1, InitTimers, NextTimers, PTL DEF TimersSpec, AttemptsAreFull

(* Only an update drops the session in use, and only if it is too old.     *)
LEMMA OnlyUpdatesDrop ==
  ASSUME TimersType, TimersNext, current # NoSession, current' = NoSession, state' = "none"
  PROVE  \E d \in 1..MaxStep : /\ state = "none" /\ current + d > REJECT_AFTER_TIME
                               /\ ~ RekeyDue(Passed(d))
<1> USE DEF NoSession
<1>1. ~ encapsulate /\ ~ handle_handshake_init /\ ~ handle_cookie_reply
  BY DEF encapsulate, handle_handshake_init, handle_cookie_reply, sessions
<1>2. \A x, y \in BOOLEAN : ~ handle_handshake_response(x) /\ ~ handle_data(x, y)
  BY SMTT(30) DEF handle_handshake_response, handle_data, sessions
<1>3. PICK d \in 1..MaxStep : update_timers(d)
  BY <1>1, <1>2 DEF TimersNext
<1>4. state = "none" /\ current' = Dropped(current, d) /\ ~ RekeyDue(Passed(d))
  BY <1>3 DEF update_timers, expire, initiate, send_keepalive, sessions, TimersType
<1>5. current + d > REJECT_AFTER_TIME
  BY <1>4, Constants, SMTT(30) DEF Dropped, TimersType
<1> QED BY <1>4, <1>5

(* The initiator that has sent data is trying to get the next session      *)
(* before it loses the one it has.                                         *)
THEOREM RekeyComesInTime == TimersSpec => RekeyedInTime
<1> DEFINE A == is_initiator /\ after.sent_established
                  /\ current # NoSession /\ current' = NoSession
                => state' # "none"
<1>1. TimersInv /\ [TimersNext]_timersVars => [A]_timersVars
  <2> SUFFICES ASSUME TimersInv, TimersNext, is_initiator, after.sent_established,
                      current # NoSession, current' = NoSession, state' = "none"
               PROVE  FALSE
    OBVIOUS
  <2>1. PICK d \in 1..MaxStep : /\ current + d > REJECT_AFTER_TIME
                                /\ ~ RekeyDue(Passed(d))
    BY OnlyUpdatesDrop DEF TimersInv
  <2>2. Passed(d).established = Older(age.established, d, 3 * REJECT_AFTER_TIME)
    BY PassedAges DEF TimersInv
  <2>3. current <= age.established /\ current \in Nat /\ age.established \in Nat
    BY SMTT(30) DEF TimersInv, SessionInv, TimersType, Ages, Timers
  <2>4. Passed(d).established >= REKEY_AFTER_TIME
    BY <2>1, <2>2, <2>3, Constants, SMTT(30) DEF Older
  <2> QED BY <2>1, <2>4 DEF RekeyDue
<1> QED BY <1>1, InitTimers, NextTimers, PTL DEF TimersSpec, RekeyedInTime

-----------------------------------------------------------------------------
(* The limiter *)

Cookie == {"none", "good", "void"}
Message == [last : BOOLEAN, mac2 : Cookie]

(* The threads that have taken up a message without load and will admit it *)
(* whatever its mac2 is.                                                   *)
WillAdmit == {t \in Threads : thread[t].at = "check" /\ ~ thread[t].loaded}

LimiterType ==
  /\ count \in Nat /\ unproven \in Nat
  /\ thread \in [Threads -> [at : {"free", "check"}, of : {"nobody", "initiator", "other"},
                             loaded : BOOLEAN, msg : Message]]
  /\ initiator \in [trying : BOOLEAN, cookie : Cookie]
  /\ inits \subseteq Message
  /\ replies \subseteq [last : BOOLEAN, cookie : Cookie]

(* The inductive invariant: what is admitted and what will be was counted  *)
(* since the reset, up to the limit, apart from what threads had taken up  *)
(* before; and the thread that resets has taken up nothing.                *)
Quota == (IF count < limit THEN count ELSE limit) + Cardinality(Threads) - 1
LimiterInv == LimiterType /\ unproven + Cardinality(WillAdmit) <= Quota

(* A set of workers has no more members than there are, and fewer when one *)
(* is missing.                                                             *)
LEMMA SomeWorkers ==
  ASSUME NEW S, S \subseteq Threads
  PROVE  /\ IsFiniteSet(S) /\ Cardinality(S) \in Nat
         /\ Cardinality(Threads) \in Nat /\ Cardinality(Threads) > 0
         /\ \A t \in Threads : t \notin S => Cardinality(S) < Cardinality(Threads)
<1>1. IsFiniteSet(Threads) /\ Threads # {}
  BY RateLimiterAssumption
<1>2. IsFiniteSet(S) /\ Cardinality(S) <= Cardinality(Threads)
      /\ (Cardinality(Threads) = Cardinality(S) => Threads = S)
  BY <1>1, FS_Subset
<1>3. Cardinality(S) \in Nat /\ Cardinality(Threads) \in Nat
  BY <1>1, <1>2, FS_CardinalityType
<1>4. Cardinality(Threads) # 0
  BY <1>1, FS_EmptySet
<1> QED BY <1>2, <1>3, <1>4, SMTT(30)

LEMMA InitLimiter ==
  ASSUME LimiterInit
  PROVE  LimiterInv
<1>1. LimiterType
  BY DEF LimiterInit, Free, LimiterType, Message, Cookie
<1>2. WillAdmit = {}
  BY DEF LimiterInit, Free, WillAdmit
<1>3. Cardinality(WillAdmit) = 0 /\ Cardinality(Threads) \in Nat /\ Cardinality(Threads) > 0
  BY <1>2, FS_EmptySet, SomeWorkers
<1>4. count = 0 /\ unproven = 0 /\ limit \in Nat
  BY RateLimiterAssumption DEF LimiterInit
<1> QED BY <1>1, <1>3, <1>4, SMTT(30) DEF LimiterInv, Quota

(* A step that leaves the counters alone and changes of the threads the    *)
(* messages only.                                                          *)
LEMMA SameQuota ==
  ASSUME LimiterInv, LimiterType', count' = count, unproven' = unproven,
         \A t \in Threads : thread'[t].at = thread[t].at /\ thread'[t].loaded = thread[t].loaded
  PROVE  LimiterInv'
<1>1. WillAdmit' = WillAdmit
  BY DEF WillAdmit
<1> HIDE DEF WillAdmit
<1> QED BY <1>1 DEF LimiterInv, Quota

(* A message is taken up: it counts for the quota when it will be admitted.*)
LEMMA TakeLimiter ==
  ASSUME LimiterInv, NEW t \in Threads,
         NEW of \in {"initiator", "other"}, NEW msg \in Message,
         take(t, of, msg), unproven' = unproven, initiator' = initiator,
         inits' \subseteq Message, replies' = replies
  PROVE  LimiterInv'
<1>1. thread[t].at = "free" /\ count \in Nat /\ unproven \in Nat /\ limit \in Nat
  BY RateLimiterAssumption DEF LimiterInv, LimiterType, take
<1>2. thread' = [thread EXCEPT ![t] = [at |-> "check", of |-> of, msg |-> msg,
                                       loaded |-> count >= limit]]
  BY DEF take, is_under_load
<1>3. count' = IF count > limit THEN count ELSE count + 1
  BY DEF take
<1>4. LimiterType'
  BY <1>1, <1>2, <1>3, SMTT(30) DEF LimiterInv, LimiterType
<1>5. /\ t \notin WillAdmit
      /\ WillAdmit' = IF count < limit THEN WillAdmit \union {t} ELSE WillAdmit
  <2>1. \A u \in Threads : u # t => thread'[u] = thread[u]
    BY <1>2 DEF LimiterInv, LimiterType
  <2>2. thread'[t].at = "check" /\ thread'[t].loaded = (count >= limit)
    BY <1>2 DEF LimiterInv, LimiterType
  <2>3. ~ thread'[t].loaded <=> count < limit
    <3>1. ~ (count >= limit) <=> count < limit
      BY <1>1, SMTT(30)
    <3> QED BY <2>2, <3>1
  <2>4. t \notin WillAdmit
    BY <1>1 DEF WillAdmit
  <2>5. t \in WillAdmit' <=> count < limit
    BY <2>2, <2>3 DEF WillAdmit
  <2>6. \A u \in Threads : u # t => (u \in WillAdmit' <=> u \in WillAdmit)
    BY <2>1 DEF WillAdmit
  <2>7. WillAdmit \subseteq Threads /\ WillAdmit' \subseteq Threads
    BY DEF WillAdmit
  <2> HIDE DEF WillAdmit
  <2> QED BY <2>4, <2>5, <2>6, <2>7, SMTT(30)
<1>6. IsFiniteSet(WillAdmit) /\ Cardinality(WillAdmit) \in Nat /\ Cardinality(Threads) \in Nat
  BY SomeWorkers DEF WillAdmit
<1>7. Cardinality(WillAdmit') =
        IF count < limit THEN Cardinality(WillAdmit) + 1 ELSE Cardinality(WillAdmit)
  BY <1>5, <1>6, FS_AddElement
<1>8. unproven + Cardinality(WillAdmit) <= Quota
  BY DEF LimiterInv
<1>9. unproven' + Cardinality(WillAdmit') <= Quota'
  BY <1>1, <1>3, <1>6, <1>7, <1>8, SMTT(30) DEF Quota
<1> QED BY <1>4, <1>9 DEF LimiterInv

LEMMA CheckLimiter ==
  ASSUME LimiterInv, NEW t \in Threads, check_mac2(t)
  PROVE  LimiterInv'
<1> DEFINE admits == unproven' = unproven + 1 /\ ~ thread[t].loaded
<1>1. /\ thread[t].at = "check" /\ thread' = [thread EXCEPT ![t] = Free]
      /\ count' = count /\ inits' = inits
  BY DEF check_mac2
<1>2. unproven' = unproven \/ admits
  BY DEF check_mac2
<1>3. thread[t].msg \in Message /\ count \in Nat /\ unproven \in Nat
  BY DEF LimiterInv, LimiterType
<1>4. format_cookie_reply(thread[t].msg) \in [last : BOOLEAN, cookie : Cookie]
  BY <1>3 DEF format_cookie_reply, Message, Cookie
<1>5. replies' \subseteq [last : BOOLEAN, cookie : Cookie]
  BY <1>4 DEF check_mac2, LimiterInv, LimiterType
<1>6. initiator' \in [trying : BOOLEAN, cookie : Cookie]
  BY <1>3 DEF check_mac2, LimiterInv, LimiterType
<1>7. thread' \in [Threads -> [at : {"free", "check"}, of : {"nobody", "initiator", "other"},
                              loaded : BOOLEAN, msg : Message]]
  BY <1>1 DEF LimiterInv, LimiterType, Free, Message, Cookie
<1>8. LimiterType'
  BY <1>1, <1>2, <1>3, <1>5, <1>6, <1>7, SMTT(30) DEF LimiterInv, LimiterType
<1>9. WillAdmit' = WillAdmit \ {t}
  BY <1>1 DEF WillAdmit, LimiterInv, LimiterType, Free
<1>10. admits => t \in WillAdmit
  BY <1>1 DEF WillAdmit
<1>11. IsFiniteSet(WillAdmit) /\ Cardinality(WillAdmit) \in Nat /\ Cardinality(Threads) \in Nat
  BY SomeWorkers DEF WillAdmit
<1>12. Cardinality(WillAdmit') =
         IF t \in WillAdmit THEN Cardinality(WillAdmit) - 1 ELSE Cardinality(WillAdmit)
  BY <1>9, <1>11, FS_RemoveElement
<1>13. unproven + Cardinality(WillAdmit) <= Quota /\ Quota' = Quota
  BY <1>1 DEF LimiterInv, Quota
<1>14. Quota \in Int
  BY <1>3, <1>11, RateLimiterAssumption, SMTT(30) DEF Quota
<1>15. unproven' + Cardinality(WillAdmit') <= Quota'
  <2> HIDE DEF admits
  <2>1. CASE unproven' = unproven
    BY <1>3, <1>11, <1>12, <1>13, <1>14, <2>1, SMTT(30)
  <2>2. CASE admits
    <3>1. unproven' = unproven + 1
      BY <2>2 DEF admits
    <3> QED BY <1>3, <1>10, <1>11, <1>12, <1>13, <1>14, <2>2, <3>1, SMTT(30)
  <2> QED BY <1>2, <2>1, <2>2
<1> QED BY <1>8, <1>15 DEF LimiterInv

(* The thread that resets the counter has no message in its hands.         *)
LEMMA ResetLimiter ==
  ASSUME LimiterInv, reset_count
  PROVE  LimiterInv'
<1>1. PICK t \in Threads : thread[t].at = "free"
  BY DEF reset_count
<1>2. /\ count' = 0 /\ unproven' = 0 /\ thread' = thread /\ initiator' = initiator
      /\ inits' = inits /\ replies' = replies
  BY DEF reset_count
<1>3. LimiterType'
  BY <1>2 DEF LimiterInv, LimiterType
<1>4. WillAdmit' = WillAdmit /\ t \notin WillAdmit /\ WillAdmit \subseteq Threads
  BY <1>1, <1>2 DEF WillAdmit
<1>5. /\ Cardinality(WillAdmit) \in Nat /\ Cardinality(Threads) \in Nat
      /\ Cardinality(WillAdmit) < Cardinality(Threads)
  BY <1>4, SomeWorkers
<1>6. limit \in Nat
  BY RateLimiterAssumption
<1> QED BY <1>2, <1>3, <1>4, <1>5, <1>6, SMTT(30) DEF LimiterInv, Quota

LEMMA NextLimiter ==
  ASSUME LimiterInv, [LimiterNext]_limiterVars
  PROVE  LimiterInv'
<1>1. LimiterType /\ Free.msg \in Message
  BY DEF LimiterInv, Free, Message, Cookie
<1>2. CASE format_handshake_initiation
  <2>1. \A m \in Message : Superseded(m) \in Message
    BY DEF Superseded, Message
  <2>2. \A r \in [last : BOOLEAN, cookie : Cookie] :
          Superseded(r) \in [last : BOOLEAN, cookie : Cookie]
    BY DEF Superseded
  <2>3. [last |-> TRUE, mac2 |-> mac2] \in Message
    BY <1>1 DEF LimiterType, Message, mac2
  <2>4. inits' \subseteq Message
    BY <1>1, <1>2, <2>1, <2>3 DEF LimiterType, format_handshake_initiation
  <2>5. replies' \subseteq [last : BOOLEAN, cookie : Cookie]
    BY <1>1, <1>2, <2>2 DEF LimiterType, format_handshake_initiation
  <2>6. /\ initiator' \in [trying : BOOLEAN, cookie : Cookie]
        /\ count' = count /\ unproven' = unproven
    BY <1>1, <1>2 DEF LimiterType, format_handshake_initiation
  <2>7. thread' = [t \in Threads |-> [thread[t] EXCEPT !.msg = Superseded(@)]]
    BY <1>2 DEF format_handshake_initiation
  <2>8. \A t \in Threads : /\ thread'[t].at = thread[t].at /\ thread'[t].loaded = thread[t].loaded
                           /\ thread'[t] \in [at : {"free", "check"},
                                              of : {"nobody", "initiator", "other"},
                                              loaded : BOOLEAN, msg : Message]
    BY <1>1, <2>1, <2>7 DEF LimiterType
  <2>9. LimiterType'
    BY <1>1, <2>4, <2>5, <2>6, <2>7, <2>8 DEF LimiterType
  <2> QED BY <2>6, <2>8, <2>9, SameQuota
<1>3. ASSUME NEW r \in replies, receive_cookie_reply(r) PROVE LimiterInv'
  <2>1. LimiterType'
    BY <1>1, <1>3 DEF LimiterType, receive_cookie_reply
  <2> QED BY <1>3, <2>1, SameQuota DEF receive_cookie_reply
<1>4. CASE clear_cookie
  <2>1. LimiterType'
    BY <1>1, <1>4 DEF LimiterType, Cookie, clear_cookie
  <2> QED BY <1>4, <2>1, SameQuota DEF clear_cookie
<1>5. ASSUME NEW t \in Threads, NEW m \in inits, verify_packet(t, m) PROVE LimiterInv'
  <2>1. /\ m \in Message /\ take(t, "initiator", m) /\ unproven' = unproven
        /\ initiator' = initiator /\ inits' \subseteq Message /\ replies' = replies
    BY <1>1, <1>5 DEF verify_packet, LimiterType
  <2> QED BY <2>1, TakeLimiter
<1>6. ASSUME NEW t \in Threads, verify_other(t) PROVE LimiterInv'
  <2>1. /\ take(t, "other", Free.msg) /\ unproven' = unproven
        /\ initiator' = initiator /\ inits' \subseteq Message /\ replies' = replies
    BY <1>1, <1>6 DEF verify_other, LimiterType
  <2> QED BY <1>1, <2>1, TakeLimiter
<1>7. ASSUME NEW t \in Threads, check_mac2(t) PROVE LimiterInv'
  BY <1>7, CheckLimiter
<1>8. CASE reset_count
  BY <1>8, ResetLimiter
<1>9. CASE second_passes
  <2>1. LimiterType'
    BY <1>1, <1>9 DEF LimiterType, second_passes
  <2> QED BY <1>9, <2>1, SameQuota DEF second_passes
<1>10. CASE secret_changes
  <2>1. \A c \in Cookie : Voided(c) \in Cookie
    BY DEF Voided, Cookie
  <2>2. inits' = {[m EXCEPT !.mac2 = Voided(@)] : m \in inits}
    BY <1>10 DEF secret_changes
  <2>3. \A m \in Message : [m EXCEPT !.mac2 = Voided(@)] \in Message
    BY <2>1 DEF Message
  <2>4. inits' \subseteq Message
    BY <1>1, <2>2, <2>3, SMTT(30) DEF LimiterType
  <2>5. replies' = {[r EXCEPT !.cookie = Voided(@)] : r \in replies}
    BY <1>10 DEF secret_changes
  <2>6. replies' \subseteq [last : BOOLEAN, cookie : Cookie]
    BY <1>1, <2>1, <2>5, SMTT(30) DEF LimiterType
  <2>7. /\ initiator' \in [trying : BOOLEAN, cookie : Cookie]
        /\ count' = count /\ unproven' = unproven
    BY <1>1, <1>10, <2>1 DEF LimiterType, secret_changes
  <2>8. thread' = [t \in Threads |-> [thread[t] EXCEPT !.msg.mac2 = Voided(@)]]
    BY <1>10 DEF secret_changes
  <2>9. \A t \in Threads : /\ thread'[t].at = thread[t].at /\ thread'[t].loaded = thread[t].loaded
                           /\ thread'[t] \in [at : {"free", "check"},
                                              of : {"nobody", "initiator", "other"},
                                              loaded : BOOLEAN, msg : Message]
    BY <1>1, <2>1, <2>8 DEF LimiterType, Message
  <2>10. LimiterType'
    BY <1>1, <2>4, <2>6, <2>7, <2>8, <2>9 DEF LimiterType
  <2> QED BY <2>7, <2>9, <2>10, SameQuota
<1>11. CASE lose
  <2>1. LimiterType'
    BY <1>1, <1>11 DEF LimiterType, lose
  <2> QED BY <1>11, <2>1, SameQuota DEF lose
<1>12. CASE UNCHANGED limiterVars
  <2>1. LimiterType'
    BY <1>1, <1>12 DEF LimiterType, limiterVars
  <2> QED BY <1>12, <2>1, SameQuota DEF limiterVars
<1> QED BY <1>2, <1>3, <1>4, <1>5, <1>6, <1>7, <1>8, <1>9, <1>10, <1>11, <1>12
        DEF LimiterNext

(* For every limit and any number of worker threads: between two resets of *)
(* the counter no more than limit messages without a cookie are admitted,  *)
(* and one more for each other thread that was in verify_packet at the     *)
(* reset.                                                                  *)
THEOREM FewAreAdmittedUnproven == LimiterSpec => []FewUnproven
<1>1. LimiterInv => FewUnproven
  <2> SUFFICES ASSUME LimiterInv PROVE FewUnproven
    OBVIOUS
  <2>1. Cardinality(WillAdmit) \in Nat /\ Cardinality(Threads) \in Nat
    BY SomeWorkers DEF WillAdmit
  <2>2. unproven \in Nat /\ limit \in Nat /\ count \in Nat
    BY RateLimiterAssumption DEF LimiterInv, LimiterType
  <2> QED BY <2>1, <2>2, SMTT(30) DEF LimiterInv, Quota, FewUnproven
<1>2. LimiterInit => LimiterInv
  BY InitLimiter
<1>3. LimiterInv /\ [LimiterNext]_limiterVars => LimiterInv'
  BY NextLimiter
<1> QED BY <1>1, <1>2, <1>3, PTL DEF LimiterSpec

=============================================================================
