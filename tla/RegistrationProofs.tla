------------------------- MODULE RegistrationProofs -------------------------
(***************************************************************************)
(* Proofs about registration for any set of keys and addresses, any length *)
(* of the UAPI socket's queue and any number of requests that time out.    *)
(***************************************************************************)
EXTENDS Registration, TLAPS

(* A step that names no prover is left to Zenon.                           *)
USE ZenonT(30)

Request == [op : {"get", "set", "remove"}, key : Keys \union {None},
            octet : Octets \union {None}, from : {"http", "reaper"}, awaited : BOOLEAN]

HttpThread == [stage : {"idle", "register", "lookup", "allocate", "set"},
               key : Keys \union {None}, octet : Octets \union {None},
               reply : {"none", "pending", "ok"}]

ReaperThread == [stage : {"sleep", "query", "reap"}, key : Keys \union {None},
                 todo : SUBSET Keys, reply : {"none", "pending", "ok"}]

(* Type invariant of the registry, both threads, the queue and the device. *)
RegistryType ==
  /\ registered_peers \subseteq Keys /\ available_ips \subseteq Octets
  /\ peer_to_octet \in [Keys -> Octets \union {None}]
  /\ http \in HttpThread
  /\ reaper \in ReaperThread
  /\ late \in Nat /\ uapi \in Seq(Request)
  /\ device_peers \in [Keys -> Octets \union {None}]
  /\ peers_by_ip \in [Octets -> Keys \union {None}]

(* What each thread relies on between two of its steps, by the inner mutex *)
(* it holds meanwhile: a key being set is not registered and its address   *)
(* is free; peers being removed are registered.                            *)
ThreadsInv ==
  /\ http.stage \in {"lookup", "allocate", "set"} => reaper.stage # "reap"
  /\ http.stage # "idle" => http.key \in Keys
  /\ http.stage = "set" => http.key \notin registered_peers /\ http.octet \in available_ips
  /\ reaper.stage = "reap" =>
       /\ reaper.todo \subseteq registered_peers
       /\ IF reaper.reply = "none" THEN reaper.key = None ELSE reaper.key \in reaper.todo
  /\ reaper.stage # "reap" => reaper.key = None /\ reaper.todo = {}

(* Request r is the one its thread waits for.                              *)
Waits(r) ==
  \/ /\ r.from = "http" /\ http.reply = "pending"
     /\ \/ http.stage = "lookup" /\ r.op = "get"
        \/ http.stage = "set" /\ r.op = "set" /\ r.key = http.key /\ r.octet = http.octet
  \/ /\ r.from = "reaper" /\ reaper.reply = "pending"
     /\ \/ reaper.stage = "query" /\ r.op = "get"
        \/ reaper.stage = "reap" /\ r.op = "remove" /\ r.key = reaper.key

(* An awaited request is the only one that its thread waits for.  An       *)
(* answer to a request given up would be taken for the answer to the next. *)
QueueInv ==
  /\ \A i \in DOMAIN uapi : uapi[i].awaited => Waits(uapi[i])
  /\ \A i, j \in DOMAIN uapi :
       uapi[i].awaited /\ uapi[j].awaited /\ uapi[i].from = uapi[j].from => i = j

PoolInv == RegistryType /\ ThreadsInv /\ QueueInv /\ PoolPartition

(* What the device should say of key k: the registry's word, but for the   *)
(* one request that it has carried out and its thread not yet committed.   *)
Expected(k) ==
  IF http.stage = "set" /\ http.reply = "ok" /\ k = http.key THEN http.octet
  ELSE IF reaper.stage = "reap" /\ reaper.reply = "ok" /\ k = reaper.key THEN None
  ELSE peer_to_octet[k]

(* While no request has timed out.                                         *)
InTimeInv ==
  late = 0 =>
    /\ \A i \in DOMAIN uapi : uapi[i].awaited
    /\ ~ panicked
    /\ \A k \in Keys : /\ device_peers[k] = Expected(k)
                       /\ device_peers[k] # None => peers_by_ip[device_peers[k]] = k

-----------------------------------------------------------------------------
(* The queue *)

(* A request that is written becomes the last one.                         *)
LEMMA Written ==
  ASSUME RegistryType, NEW op \in {"get", "set", "remove"}, NEW key \in Keys \union {None},
         NEW octet \in Octets \union {None}, NEW from \in {"http", "reaper"},
         uapi_send(op, key, octet, from)
  PROVE  /\ uapi' \in Seq(Request) /\ DOMAIN uapi' = DOMAIN uapi \union {Len(uapi) + 1}
         /\ Len(uapi) + 1 \notin DOMAIN uapi
         /\ \A i \in DOMAIN uapi : uapi'[i] = uapi[i]
         /\ uapi'[Len(uapi) + 1] = [op |-> op, key |-> key, octet |-> octet,
                                    from |-> from, awaited |-> TRUE]
<1> DEFINE r == [op |-> op, key |-> key, octet |-> octet, from |-> from, awaited |-> TRUE]
<1>1. r \in Request
  BY DEF Request
<1>2. uapi' = Append(uapi, r) /\ uapi \in Seq(Request)
  BY DEF uapi_send, RegistryType
<1> HIDE DEF r
<1>3. /\ uapi' \in Seq(Request) /\ DOMAIN uapi' = DOMAIN uapi \union {Len(uapi) + 1}
      /\ Len(uapi) + 1 \notin DOMAIN uapi
      /\ \A i \in DOMAIN uapi : uapi'[i] = uapi[i]
      /\ uapi'[Len(uapi) + 1] = r
  BY <1>1, <1>2, SMTT(30)
<1> QED BY <1>3 DEF r

(* Requests are handled in the order in which they were written.           *)
LEMMA Taken ==
  ASSUME RegistryType, uapi # <<>>, uapi' = Tail(uapi)
  PROVE  /\ uapi' \in Seq(Request)
         /\ 1 \in DOMAIN uapi /\ Head(uapi) = uapi[1] /\ uapi[1] \in Request
         /\ \A i \in DOMAIN uapi' : /\ i + 1 \in DOMAIN uapi /\ i + 1 # 1
                                    /\ uapi'[i] = uapi[i + 1] /\ i \in Nat
BY SMTT(30) DEF RegistryType

(* A request that is given up stays where it is.                           *)
LEMMA Forgotten ==
  ASSUME RegistryType, NEW from \in {"http", "reaper"}, uapi_forget(from)
  PROVE  /\ uapi' \in Seq(Request) /\ DOMAIN uapi' = DOMAIN uapi
         /\ \A i \in DOMAIN uapi :
              /\ uapi'[i].from = uapi[i].from
              /\ uapi[i].from = from => ~ uapi'[i].awaited
              /\ uapi[i].from # from => uapi'[i] = uapi[i]
<1>1. uapi \in Seq(Request) /\ DOMAIN uapi = 1..Len(uapi) /\ Len(uapi) \in Nat
  BY SMTT(30) DEF RegistryType
<1>2. \A i \in DOMAIN uapi : uapi[i] \in Request
  BY <1>1, SMTT(30)
<1>3. \A i \in DOMAIN uapi : [uapi[i] EXCEPT !.awaited = FALSE] \in Request
  BY <1>2 DEF Request
<1>4. uapi' = [i \in 1..Len(uapi) |->
                 IF uapi[i].from = from THEN [uapi[i] EXCEPT !.awaited = FALSE] ELSE uapi[i]]
  BY <1>1 DEF uapi_forget
<1>5. uapi' \in [1..Len(uapi) -> Request]
  BY <1>1, <1>2, <1>3, <1>4
<1>6. uapi' \in Seq(Request)
  BY <1>1, <1>5, SMTT(30)
<1> QED BY <1>1, <1>2, <1>4, <1>5, <1>6, SMTT(30) DEF Request

(* A thread that was not waiting for an answer writes a request.           *)
LEMMA HttpWrites ==
  ASSUME RegistryType, QueueInv, NEW op \in {"get", "set"}, NEW key \in Keys \union {None},
         NEW octet \in Octets \union {None}, uapi_send(op, key, octet, "http"),
         http.stage \notin {"lookup", "set"}, UNCHANGED reaper, http'.reply = "pending",
         \/ http'.stage = "lookup" /\ op = "get"
         \/ http'.stage = "set" /\ op = "set" /\ key = http'.key /\ octet = http'.octet
  PROVE  uapi' \in Seq(Request) /\ QueueInv'
<1> DEFINE r == [op |-> op, key |-> key, octet |-> octet, from |-> "http", awaited |-> TRUE]
<1>1. /\ uapi' \in Seq(Request) /\ DOMAIN uapi' = DOMAIN uapi \union {Len(uapi) + 1}
      /\ Len(uapi) + 1 \notin DOMAIN uapi
      /\ \A i \in DOMAIN uapi : uapi'[i] = uapi[i]
      /\ uapi'[Len(uapi) + 1] = r
  BY Written
<1>2. \A i \in DOMAIN uapi : uapi[i].awaited => uapi[i].from # "http" /\ Waits(uapi[i])
  BY DEF QueueInv, Waits
<1>3. r.from = "http" /\ r.op = op /\ r.key = key /\ r.octet = octet
  OBVIOUS
<1> HIDE DEF r
<1>4. (\A i \in DOMAIN uapi : uapi[i].awaited => Waits(uapi[i]))'
  BY <1>1, <1>2, <1>3, SMTT(30) DEF Waits
<1> QED BY <1>1, <1>2, <1>3, <1>4, SMTT(30) DEF QueueInv

LEMMA ReaperWrites ==
  ASSUME RegistryType, QueueInv, NEW op \in {"get", "remove"}, NEW key \in Keys \union {None},
         uapi_send(op, key, None, "reaper"), reaper.reply # "pending" \/ reaper.stage = "sleep",
         UNCHANGED http, reaper'.reply = "pending",
         \/ reaper'.stage = "query" /\ op = "get"
         \/ reaper'.stage = "reap" /\ op = "remove" /\ key = reaper'.key
  PROVE  uapi' \in Seq(Request) /\ QueueInv'
<1> DEFINE r == [op |-> op, key |-> key, octet |-> None, from |-> "reaper", awaited |-> TRUE]
<1>1. /\ uapi' \in Seq(Request) /\ DOMAIN uapi' = DOMAIN uapi \union {Len(uapi) + 1}
      /\ Len(uapi) + 1 \notin DOMAIN uapi
      /\ \A i \in DOMAIN uapi : uapi'[i] = uapi[i]
      /\ uapi'[Len(uapi) + 1] = r
  BY Written
<1>2. \A i \in DOMAIN uapi : uapi[i].awaited => uapi[i].from # "reaper" /\ Waits(uapi[i])
  BY DEF QueueInv, Waits
<1>3. r.from = "reaper" /\ r.op = op /\ r.key = key
  OBVIOUS
<1> HIDE DEF r
<1>4. (\A i \in DOMAIN uapi : uapi[i].awaited => Waits(uapi[i]))'
  BY <1>1, <1>2, <1>3, SMTT(30) DEF Waits
<1> QED BY <1>1, <1>2, <1>3, <1>4, SMTT(30) DEF QueueInv

(* A thread gives up; the other one still waits for its own request.       *)
LEMMA GivenUp ==
  ASSUME RegistryType, QueueInv, NEW from \in {"http", "reaper"}, uapi_forget(from),
         from = "http" => UNCHANGED reaper, from = "reaper" => UNCHANGED http
  PROVE  uapi' \in Seq(Request) /\ QueueInv'
<1>1. /\ uapi' \in Seq(Request) /\ DOMAIN uapi' = DOMAIN uapi
      /\ \A i \in DOMAIN uapi :
           /\ uapi'[i].from = uapi[i].from
           /\ uapi[i].from = from => ~ uapi'[i].awaited
           /\ uapi[i].from # from => uapi'[i] = uapi[i]
  BY Forgotten
<1>2. (\A i \in DOMAIN uapi : uapi[i].awaited => Waits(uapi[i]))'
  BY <1>1, SMTT(30) DEF QueueInv, Waits
<1> QED BY <1>1, <1>2 DEF QueueInv

(* The device has answered the request it handled.  The answer reaches the *)
(* thread that waits for it and no other.                                  *)
LEMMA Answered ==
  ASSUME RegistryType, ThreadsInv, QueueInv, uapi # <<>>, uapi' = Tail(uapi),
         reply_to(Head(uapi)), UNCHANGED registryVars
  PROVE  /\ http' \in HttpThread
         /\ reaper' \in ReaperThread
         /\ ThreadsInv' /\ QueueInv'
<1> DEFINE r == uapi[1]
<1>1. /\ uapi' \in Seq(Request) /\ 1 \in DOMAIN uapi /\ r \in Request
      /\ \A i \in DOMAIN uapi' : i + 1 \in DOMAIN uapi /\ i + 1 # 1 /\ uapi'[i] = uapi[i + 1]
                                 /\ i \in Nat
  BY Taken
<1>2. /\ http' = IF r.awaited /\ r.from = "http" THEN [http EXCEPT !.reply = "ok"] ELSE http
      /\ reaper' = IF r.awaited /\ r.from = "reaper" THEN [reaper EXCEPT !.reply = "ok"]
                                                     ELSE reaper
  BY Taken DEF reply_to
<1>3. r.awaited => Waits(r)
  BY <1>1 DEF QueueInv
<1>4. \A i \in DOMAIN uapi' :
        uapi[i + 1].awaited => Waits(uapi[i + 1]) /\ (r.awaited => uapi[i + 1].from # r.from)
  BY <1>1 DEF QueueInv
<1> HIDE DEF r
<1>5. /\ http' \in HttpThread
      /\ reaper' \in ReaperThread
  BY <1>2 DEF RegistryType, HttpThread, ReaperThread
<1>6. ThreadsInv'
  BY <1>2, <1>3 DEF ThreadsInv, RegistryType, Waits, registryVars, HttpThread, ReaperThread
<1>7. (\A i \in DOMAIN uapi : uapi[i].awaited => Waits(uapi[i]))'
  <2> SUFFICES ASSUME NEW i \in DOMAIN uapi', uapi[i + 1].awaited, uapi'[i] = uapi[i + 1]
               PROVE  Waits(uapi[i])'
    BY <1>1
  <2>1. Waits(uapi[i + 1]) /\ (r.awaited => uapi[i + 1].from # r.from)
    BY <1>4
  <2> QED BY <2>1, <1>2 DEF Waits, RegistryType, HttpThread, ReaperThread
<1>8. QueueInv'
  BY <1>1, <1>7, SMTT(30) DEF QueueInv
<1> QED BY <1>5, <1>6, <1>8

(* The reaper goes on with the peers that are left, or goes to sleep.      *)
LEMMA GoesOn ==
  ASSUME NEW todo \in SUBSET Keys, go_on_with(todo)
  PROVE  /\ reaper' \in ReaperThread
         /\ reaper'.key = None /\ reaper'.todo = todo /\ reaper'.reply = "none"
         /\ reaper'.stage = IF todo = {} THEN "sleep" ELSE "reap"
<1>1. reaper' = [stage |-> IF todo = {} THEN "sleep" ELSE "reap", key |-> None,
                 todo |-> todo, reply |-> "none"]
  BY DEF go_on_with, Asleep
<1> QED BY <1>1 DEF ReaperThread

-----------------------------------------------------------------------------
(* The pool of addresses *)

(* At the start all addresses are free and nothing is queued.              *)
LEMMA InitPoolInv == Init => PoolInv
BY RegistrationAssumption, SMTT(30)
   DEF Init, PoolInv, RegistryType, ThreadsInv, QueueInv, PoolPartition, Idle, Asleep, HttpThread,
       ReaperThread

(* Every step of the two threads and of the device keeps it.               *)
LEMMA NextPoolInv == PoolInv /\ [Next]_vars => PoolInv'
<1> SUFFICES ASSUME PoolInv, [Next]_vars PROVE PoolInv'
  OBVIOUS
<1> USE RegistrationAssumption
    DEF PoolInv, RegistryType, ThreadsInv, PoolPartition,
        registryVars, deviceVars, Idle, Asleep, HttpThread, ReaperThread
<1>1. ASSUME NEW k \in Keys, NEW h \in Humans, handle_registration_v2(k, h)
      PROVE  PoolInv'
  <2>1. RegistryType' /\ ThreadsInv'
    BY <1>1 DEF handle_registration_v2
  <2>2. QueueInv'
    BY <1>1, SMTT(30) DEF handle_registration_v2, QueueInv, Waits
  <2>3. PoolPartition'
    BY <1>1, SMTT(30) DEF handle_registration_v2
  <2> QED BY <2>1, <2>2, <2>3
<1>2. ASSUME handle_registration
      PROVE  PoolInv'
  <2>1. uapi' \in Seq(Request) /\ QueueInv'
    <3>1. CASE server_known
      BY <1>2, <3>1, SMTT(30) DEF handle_registration, QueueInv, Waits
    <3>2. CASE ~ server_known
      BY <1>2, <3>2, HttpWrites DEF handle_registration
    <3> QED BY <3>1, <3>2
  <2>2. RegistryType' /\ ThreadsInv'
    BY <1>2, <2>1 DEF handle_registration, InnerFree
  <2>3. PoolPartition'
    BY <1>2, SMTT(30) DEF handle_registration, InnerFree
  <2> QED BY <2>1, <2>2, <2>3
<1>3. ASSUME NEW configured \in BOOLEAN, lookup_done(configured)
      PROVE  PoolInv'
  <2>1. RegistryType' /\ ThreadsInv'
    BY <1>3 DEF lookup_done
  <2>2. QueueInv'
    BY <1>3 DEF lookup_done, QueueInv, Waits
  <2>3. PoolPartition'
    BY <1>3, SMTT(30) DEF lookup_done
  <2> QED BY <2>1, <2>2, <2>3
<1>4. ASSUME answer_at_once
      PROVE  PoolInv'
  <2>1. RegistryType' /\ ThreadsInv'
    BY <1>4 DEF answer_at_once
  <2>2. QueueInv'
    BY <1>4 DEF answer_at_once, QueueInv, Waits
  <2>3. PoolPartition'
    BY <1>4, SMTT(30) DEF answer_at_once
  <2> QED BY <2>1, <2>2, <2>3
<1>5. ASSUME NEW o \in Octets, allocate(o)
      PROVE  PoolInv'
  <2>1. uapi' \in Seq(Request) /\ QueueInv'
    BY <1>5, HttpWrites DEF allocate
  <2>2. RegistryType' /\ ThreadsInv'
    BY <1>5, <2>1 DEF allocate, AlreadyRegistered
  <2>3. PoolPartition'
    BY <1>5, SMTT(30) DEF allocate, AlreadyRegistered
  <2> QED BY <2>1, <2>2, <2>3
<1>6. ASSUME commit_registration
      PROVE  PoolInv'
  <2>1. RegistryType' /\ ThreadsInv'
    BY <1>6 DEF commit_registration
  <2>2. QueueInv'
    BY <1>6 DEF commit_registration, QueueInv, Waits
  <2>3. PoolPartition'
    BY <1>6, SMTT(30) DEF commit_registration
  <2> QED BY <2>1, <2>2, <2>3
<1>7. ASSUME http_timeout
      PROVE  PoolInv'
  <2>1. uapi' \in Seq(Request) /\ QueueInv'
    BY <1>7, GivenUp DEF http_timeout
  <2>2. RegistryType' /\ ThreadsInv'
    BY <1>7, <2>1, SMTT(30) DEF http_timeout
  <2>3. PoolPartition'
    BY <1>7, SMTT(30) DEF http_timeout
  <2> QED BY <2>1, <2>2, <2>3
<1>8. ASSUME reaper_query
      PROVE  PoolInv'
  <2>1. uapi' \in Seq(Request) /\ QueueInv'
    BY <1>8, ReaperWrites DEF reaper_query
  <2>2. RegistryType' /\ ThreadsInv'
    BY <1>8, <2>1 DEF reaper_query
  <2>3. PoolPartition'
    BY <1>8, SMTT(30) DEF reaper_query
  <2> QED BY <2>1, <2>2, <2>3
<1>9. ASSUME identify_stale
      PROVE  PoolInv'
  <2>1. RegistryType' /\ ThreadsInv'
    BY <1>9, GoesOn, SMTT(30) DEF identify_stale, stale, InnerFree
  <2>2. QueueInv'
    BY <1>9, GoesOn DEF identify_stale, QueueInv, Waits
  <2>3. PoolPartition'
    BY <1>9, SMTT(30) DEF identify_stale
  <2> QED BY <2>1, <2>2, <2>3
<1>10. ASSUME NEW k \in Keys, reaper_remove(k)
      PROVE  PoolInv'
  <2>1. uapi' \in Seq(Request) /\ QueueInv'
    BY <1>10, ReaperWrites DEF reaper_remove, uapi_remove_peer
  <2>2. RegistryType' /\ ThreadsInv'
    BY <1>10, <2>1 DEF reaper_remove
  <2>3. PoolPartition'
    BY <1>10, SMTT(30) DEF reaper_remove
  <2> QED BY <2>1, <2>2, <2>3
<1>11. ASSUME commit_removal
      PROVE  PoolInv'
  <2>1. RegistryType' /\ ThreadsInv'
    BY <1>11, GoesOn, SMTT(30) DEF commit_removal
  <2>2. QueueInv'
    BY <1>11, GoesOn DEF commit_removal, QueueInv, Waits
  <2>3. PoolPartition'
    BY <1>11, SMTT(30) DEF commit_removal
  <2> QED BY <2>1, <2>2, <2>3
<1>12. ASSUME reaper_timeout
      PROVE  PoolInv'
  <2>1. uapi' \in Seq(Request) /\ QueueInv'
    BY <1>12, GivenUp DEF reaper_timeout
  <2>2. RegistryType' /\ ThreadsInv'
    BY <1>12, <2>1, GoesOn, SMTT(30) DEF reaper_timeout
  <2>3. PoolPartition'
    BY <1>12, SMTT(30) DEF reaper_timeout
  <2> QED BY <2>1, <2>2, <2>3
<1>13. ASSUME api_get
       PROVE  PoolInv'
  <2>1. /\ http' \in HttpThread /\ reaper' \in ReaperThread /\ uapi' \in Seq(Request)
        /\ ThreadsInv' /\ QueueInv'
    BY <1>13, Answered, Taken DEF api_get
  <2> HIDE DEF HttpThread, ReaperThread, ThreadsInv
  <2> QED BY <1>13, <2>1, SMTT(30) DEF api_get
<1>14. ASSUME api_set
       PROVE  PoolInv'
  <2>1. CASE device_peers[Head(uapi).key] # None
    BY <1>14, <2>1, Taken, SMTT(30) DEF api_set, QueueInv, Waits
  <2>2. CASE device_peers[Head(uapi).key] = None
    <3>1. /\ http' \in HttpThread /\ reaper' \in ReaperThread /\ uapi' \in Seq(Request)
          /\ ThreadsInv' /\ QueueInv'
      BY <1>14, <2>2, Answered, Taken DEF api_set
    <3>2. Head(uapi).key \in Keys \union {None} /\ Head(uapi).octet \in Octets \union {None}
      BY <1>14, Taken DEF api_set, Request
    <3>3. /\ device_peers' \in [Keys -> Octets \union {None}]
          /\ peers_by_ip' \in [Octets -> Keys \union {None}]
      <4>1. /\ device_peers' = [device_peers EXCEPT ![Head(uapi).key] = Head(uapi).octet]
            /\ peers_by_ip' = [peers_by_ip EXCEPT ![Head(uapi).octet] = Head(uapi).key]
        BY <1>14, <2>2 DEF api_set
      <4>2. /\ device_peers \in [Keys -> Octets \union {None}]
            /\ peers_by_ip \in [Octets -> Keys \union {None}]
        OBVIOUS
      <4> HIDE DEF PoolInv
      <4> QED BY <3>2, <4>1, <4>2
    <3> HIDE DEF HttpThread, ReaperThread, ThreadsInv
    <3> QED BY <1>14, <2>2, <3>1, <3>3, SMTT(30) DEF api_set
  <2> QED BY <2>1, <2>2
<1>15. ASSUME api_remove
       PROVE  PoolInv'
  <2>1. /\ http' \in HttpThread /\ reaper' \in ReaperThread /\ uapi' \in Seq(Request)
        /\ ThreadsInv' /\ QueueInv'
    BY <1>15, Answered, Taken DEF api_remove
  <2>2. /\ device_peers' \in [Keys -> Octets \union {None}]
        /\ peers_by_ip' \in [Octets -> Keys \union {None}]
    BY <1>15 DEF api_remove
  <2> HIDE DEF HttpThread, ReaperThread, ThreadsInv
  <2> QED BY <1>15, <2>1, <2>2, SMTT(30) DEF api_remove
<1>16. ASSUME NEW k \in Keys, NEW to \in {"none", "now", "recent", "stale"}, handshake_event(k, to)
      PROVE  PoolInv'
  <2>1. RegistryType' /\ ThreadsInv'
    BY <1>16, SMTT(30) DEF handshake_event
  <2>2. QueueInv'
    BY <1>16, SMTT(30) DEF handshake_event, QueueInv, Waits
  <2>3. PoolPartition'
    BY <1>16, SMTT(30) DEF handshake_event
  <2> QED BY <2>1, <2>2, <2>3
<1>17. ASSUME NEW k \in Keys, grow_old(k)
      PROVE  PoolInv'
  <2>1. RegistryType' /\ ThreadsInv'
    BY <1>17, SMTT(30) DEF grow_old
  <2>2. QueueInv'
    BY <1>17, SMTT(30) DEF grow_old, QueueInv, Waits
  <2>3. PoolPartition'
    BY <1>17, SMTT(30) DEF grow_old
  <2> QED BY <2>1, <2>2, <2>3
<1>18. CASE UNCHANGED vars
  BY <1>18, SMTT(30) DEF vars, QueueInv, Waits
<1> HIDE DEF PoolInv
<1> QED BY <1>1, <1>2, <1>3, <1>4, <1>5, <1>6, <1>7, <1>8, <1>9, <1>10, <1>11, <1>12,
           <1>13, <1>14, <1>15, <1>16, <1>17, <1>18 DEF Next

(* An address is either free or belongs to exactly one registered peer.    *)
THEOREM PoolIsPartitioned == Spec => []PoolPartition
<1>1. PoolInv => PoolPartition
  BY DEF PoolInv
<1> QED BY <1>1, InitPoolInv, NextPoolInv, PTL DEF Spec

-----------------------------------------------------------------------------
(* Registry and device *)

(* A request that has just been written is awaited.                        *)
LEMMA WrittenAwaited ==
  ASSUME RegistryType, NEW op \in {"get", "set", "remove"}, NEW key \in Keys \union {None},
         NEW octet \in Octets \union {None}, NEW from \in {"http", "reaper"},
         uapi_send(op, key, octet, from), \A i \in DOMAIN uapi : uapi[i].awaited
  PROVE  (\A i \in DOMAIN uapi : uapi[i].awaited)'
<1>1. /\ DOMAIN uapi' = DOMAIN uapi \union {Len(uapi) + 1}
      /\ \A i \in DOMAIN uapi : uapi'[i] = uapi[i]
      /\ uapi'[Len(uapi) + 1] = [op |-> op, key |-> key, octet |-> octet,
                                 from |-> from, awaited |-> TRUE]
  BY Written
<1>2. uapi'[Len(uapi) + 1].awaited = TRUE
  BY <1>1, SMTT(30)
<1> QED BY <1>1, <1>2

LEMMA InitInTime == Init => InTimeInv
BY SMTT(30) DEF Init, InTimeInv, Expected, Idle, Asleep

(* Every step keeps it: only a timeout leaves a request that is not        *)
(* awaited behind.                                                         *)
LEMMA NextInTime == PoolInv /\ InTimeInv /\ [Next]_vars => InTimeInv'
<1> SUFFICES ASSUME PoolInv, InTimeInv, [Next]_vars PROVE InTimeInv'
  OBVIOUS
<1> USE RegistrationAssumption
    DEF PoolInv, RegistryType, ThreadsInv, PoolPartition, InTimeInv, Expected,
        registryVars, deviceVars, Idle, Asleep, HttpThread, ReaperThread
<1>1. ASSUME NEW k \in Keys, NEW h \in Humans, handle_registration_v2(k, h)
      PROVE  InTimeInv'
  BY <1>1 DEF handle_registration_v2
<1>2. ASSUME handle_registration
      PROVE  InTimeInv'
  <2>1. (\A i \in DOMAIN uapi : uapi[i].awaited) => (\A i \in DOMAIN uapi : uapi[i].awaited)'
    <3>1. CASE server_known
      BY <1>2, <3>1 DEF handle_registration
    <3>2. CASE ~ server_known
      BY <1>2, <3>2, WrittenAwaited DEF handle_registration
    <3> QED BY <3>1, <3>2
  <2> QED BY <1>2, <2>1 DEF handle_registration, InnerFree
<1>3. ASSUME NEW configured \in BOOLEAN, lookup_done(configured)
      PROVE  InTimeInv'
  BY <1>3 DEF lookup_done
<1>4. ASSUME answer_at_once
      PROVE  InTimeInv'
  BY <1>4 DEF answer_at_once
<1>5. ASSUME NEW o \in Octets, allocate(o)
      PROVE  InTimeInv'
  <2>1. (\A i \in DOMAIN uapi : uapi[i].awaited) => (\A i \in DOMAIN uapi : uapi[i].awaited)'
    BY <1>5, WrittenAwaited DEF allocate
  <2> QED BY <1>5, <2>1 DEF allocate
<1>6. ASSUME commit_registration
      PROVE  InTimeInv'
  BY <1>6, SMTT(30) DEF commit_registration
<1>7. ASSUME http_timeout
      PROVE  InTimeInv'
  BY <1>7, SMTT(30) DEF http_timeout
<1>8. ASSUME reaper_query
      PROVE  InTimeInv'
  <2>1. (\A i \in DOMAIN uapi : uapi[i].awaited) => (\A i \in DOMAIN uapi : uapi[i].awaited)'
    BY <1>8, WrittenAwaited DEF reaper_query
  <2> QED BY <1>8, <2>1 DEF reaper_query
<1>9. ASSUME identify_stale
      PROVE  InTimeInv'
  BY <1>9, GoesOn DEF identify_stale, stale, InnerFree
<1>10. ASSUME NEW k \in Keys, reaper_remove(k)
      PROVE  InTimeInv'
  <2>1. (\A i \in DOMAIN uapi : uapi[i].awaited) => (\A i \in DOMAIN uapi : uapi[i].awaited)'
    BY <1>10, WrittenAwaited DEF reaper_remove, uapi_remove_peer
  <2> QED BY <1>10, <2>1 DEF reaper_remove
<1>11. ASSUME commit_removal
      PROVE  InTimeInv'
  BY <1>11, GoesOn, SMTT(30) DEF commit_removal
<1>12. ASSUME reaper_timeout
      PROVE  InTimeInv'
  BY <1>12, SMTT(30) DEF reaper_timeout
<1>13. ASSUME api_get
      PROVE  InTimeInv'
  BY <1>13, Taken, SMTT(30) DEF api_get, reply_to, QueueInv, Waits
<1>14. ASSUME api_set
      PROVE  InTimeInv'
  BY <1>14, Taken, SMTT(30) DEF api_set, reply_to, QueueInv, Waits
<1>15. ASSUME api_remove
      PROVE  InTimeInv'
  BY <1>15, Taken, SMTT(30) DEF api_remove, reply_to, QueueInv, Waits
<1>16. ASSUME NEW k \in Keys, NEW to \in {"none", "now", "recent", "stale"}, handshake_event(k, to)
      PROVE  InTimeInv'
  BY <1>16 DEF handshake_event
<1>17. ASSUME NEW k \in Keys, grow_old(k)
      PROVE  InTimeInv'
  BY <1>17 DEF grow_old
<1>18. CASE UNCHANGED vars
  BY <1>18 DEF vars
<1> HIDE DEF PoolInv, InTimeInv
<1> QED BY <1>1, <1>2, <1>3, <1>4, <1>5, <1>6, <1>7, <1>8, <1>9, <1>10, <1>11, <1>12,
           <1>13, <1>14, <1>15, <1>16, <1>17, <1>18 DEF Next

(* While UAPI requests are answered in time, the registry and the device   *)
(* agree whenever the inner mutex is free.                                 *)
THEOREM AgreementInTime == Spec => []RegistryMatchesDevice
<1>1. PoolInv /\ InTimeInv => RegistryMatchesDevice
  BY DEF PoolInv, InTimeInv, RegistryMatchesDevice, PoolPartition, InnerFree, Expected, RegistryType
<1> QED BY <1>1, InitPoolInv, NextPoolInv, InitInTime, NextInTime, PTL DEF Spec

(* While UAPI requests are answered in time, no registration asks the      *)
(* device for a key it still has, which would make update_peer panic.      *)
THEOREM NoPanicWhileInTime == Spec => []NoPanicInTime
<1>1. InTimeInv => NoPanicInTime
  BY DEF InTimeInv, NoPanicInTime
<1> QED BY <1>1, InitPoolInv, NextPoolInv, InitInTime, NextInTime, PTL DEF Spec

=============================================================================
