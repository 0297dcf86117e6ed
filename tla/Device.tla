------------------------------- MODULE Device -------------------------------
(***************************************************************************)
(* The device's peers, its sockets and the event loop that serves them     *)
(* (boringtun/src/device/mod.rs, peer.rs, epoll.rs, api.rs).               *)
(*                                                                         *)
(* Worker threads wait on one epoll instance.  A registered event is a     *)
(* boxed closure that owns its socket; it stands in a vector at the number *)
(* of the socket's file descriptor, and epoll holds a pointer to it.  An   *)
(* event is disarmed while a thread handles it.  A peer that has been      *)
(* heard gets a connected socket of its own: the closure owns one          *)
(* descriptor of it and the peer's endpoint a clone.  The UAPI commands    *)
(* that change the device run under the write lock, when no other thread   *)
(* holds an event (module DevLock); packets and timers are handled under   *)
(* the read lock, a peer's part of it under the peer's mutex.              *)
(*                                                                         *)
(* Of a socket's two descriptors only the one that a closure owns has an   *)
(* event at its number, and only these are numbered here; the one that the *)
(* endpoint or the device keeps stands as Kept.  A number is in use while  *)
(* a closure, or a thread that has just opened the socket, owns it; the    *)
(* lowest free one is given out, so that numbers are used again as soon as *)
(* they can be.  IPv6 sockets are opened, cleared and used together with   *)
(* the IPv4 ones and are left out.                                         *)
(***************************************************************************)
EXTENDS AllowedIps, IndexLfsr, Integers, Sequences, Functions

CONSTANTS Threads,
          Keys,         \* public keys of peers
          None,
          MaxFd,        \* bound on the descriptors owned by closures
          Requests,     \* the "set" requests: a sequence of peer sections each
          use_connected_socket

Sections == [key : Keys, remove : BOOLEAN \union {None}, endpoint : BOOLEAN,
             allowed_ips : SUBSET Networks]

ASSUME DeviceAssumption ==
  /\ MaxFd \in Nat
  /\ Requests \subseteq Seq(Sections)
  /\ use_connected_socket \in BOOLEAN

VARIABLES dev,       \* the Device's key pair, and its peers: each with its key,
                     \* index, allowed_ips, endpoint address (known or not) and
                     \* conn (the socket it is a clone of), and the tables
          udp4,      \* Device.udp4: descriptor of the listening socket
          events,    \* EventPoll.events, by descriptor
          interest,  \* what epoll polls, by descriptor
          thread,    \* the worker threads
          cleared,   \* history: peers dropped by clear_peers
          panicked   \* a command has panicked under the write lock

vars == <<dev, udp4, events, interest, thread, cleared, panicked>>

Fds == 0..MaxFd
PeerIds == DOMAIN dev.peer

NoFd == -1
Kept == -2

NoEvent == [kind |-> "none", peer |-> 0]
UdpEvent == [kind |-> "udp", peer |-> 0]
ConnEvent(o) == [kind |-> "conn", peer |-> o]

Waiting == [at |-> "wait", fd |-> NoFd, peer |-> 0, conn |-> NoFd]

(* A socket whose endpoint has been taken has been shut down.              *)
IsShutDown(fd) ==
  events[fd].kind = "conn" /\ dev.peer[events[fd].peer].conn # fd

(* The kernel gives out the lowest number that is free.                    *)
Lowest(S) == CHOOSE n \in S : \A m \in S : n <= m

FreeFds(evs) ==
  {fd \in Fds : evs[fd] = NoEvent /\ \A t \in Threads : thread[t].conn # fd}

Init ==
  /\ dev = [key_pair |-> FALSE, peers |-> [k \in Keys |-> 0],
            peers_by_idx |-> [i \in Indices |-> 0], peers_by_ip |-> EmptyTable,
            next_index |-> Default, peer |-> <<>>]
  /\ udp4 = NoFd
  /\ events = [fd \in Fds |-> NoEvent]
  /\ interest = [fd \in Fds |-> "absent"]
  /\ thread = [t \in Threads |-> Waiting]
  /\ cleared = {}
  /\ panicked = FALSE

-----------------------------------------------------------------------------
(* Commands under the write lock *)

(* LockReadGuard::try_writeable: the other threads have left.              *)
Exclusive == ~ panicked /\ \A t \in Threads : thread[t].at \in {"wait", "dead"}
SomeThread == \E t \in Threads : thread[t].at = "wait"

shutdown_endpoint(d, o) == [d EXCEPT !.peer[o].conn = NoFd]

(* Mutant: the connected socket is not shut down.                          *)
remove_peer_open(d, k) ==
  LET o == d.peers[k]
  IN  IF o = 0 THEN d
      ELSE [d EXCEPT !.peers[k] = 0, !.peers_by_idx[d.peer[o].index] = 0,
                     !.peers_by_ip = remove(@, o)]

(* Mutant: the routes to the peer stay.                                    *)
remove_peer_routed(d, k) ==
  LET o == d.peers[k]
  IN  IF o = 0 THEN d
      ELSE [shutdown_endpoint(d, o) EXCEPT
              !.peers[k] = 0, !.peers_by_idx[d.peer[o].index] = 0]

remove_peer(d, k) ==
  LET o == d.peers[k]
  IN  IF o = 0 THEN d
      ELSE [shutdown_endpoint(d, o) EXCEPT
              !.peers[k] = 0, !.peers_by_idx[d.peer[o].index] = 0,
              !.peers_by_ip = remove(@, o)]

(* A key that is already there, a register that comes round and a device   *)
(* without a key pair make update_peer panic.                              *)
MayAdd(d, k) == d.peers[k] = 0 /\ d.key_pair /\ ~ ComesRound(d.next_index)

add_peer(d, k, endpoint, allowed_ips) ==
  LET o     == Len(d.peer) + 1
      index == IndexOf(d.next_index)
  IN  [d EXCEPT
         !.next_index = next(@),
         !.peer = Append(@, [key |-> k, index |-> index,
                             allowed_ips |-> allowed_ips, addr |-> endpoint,
                             conn |-> NoFd]),
         !.peers[k] = o,
         !.peers_by_idx[index] = o,
         !.peers_by_ip = insert(@, allowed_ips, o)]

(* A section of a request as update_peer gets it.  "remove" and "endpoint" *)
(* keep their values from one section to the next; allowed_ips is cleared. *)
Section(acc, s) ==
  LET rm       == IF s.remove = None THEN acc.remove ELSE s.remove
      endpoint == s.endpoint \/ acc.endpoint
      may      == rm \/ MayAdd(acc.dev, s.key)
  IN  [remove |-> rm, endpoint |-> endpoint, ok |-> acc.ok /\ may,
       dev |-> IF ~ (acc.ok /\ may) THEN acc.dev
               ELSE IF rm THEN remove_peer(acc.dev, s.key)
               ELSE add_peer(acc.dev, s.key, endpoint, s.allowed_ips)]

(* After the sections of a request, one by one.                            *)
Processed(d, request) ==
  LET after[n \in 0..Len(request)] ==
        IF n = 0 THEN [dev |-> d, remove |-> FALSE, endpoint |-> FALSE, ok |-> TRUE]
        ELSE Section(after[n - 1], request[n])
  IN  after[Len(request)]

api_set_peer(request) ==
  /\ Exclusive /\ SomeThread
  /\ dev' = Processed(dev, request).dev
  /\ panicked' = ~ Processed(dev, request).ok
  /\ UNCHANGED <<udp4, events, interest, thread, cleared>>

(* replace_peers=true.  The connected sockets are not shut down.           *)
clear_peers ==
  /\ Exclusive /\ SomeThread
  /\ cleared' = cleared \union (Range(dev.peers) \ {0})
  /\ dev' = [dev EXCEPT !.peers = [k \in Keys |-> 0],
                        !.peers_by_idx = [i \in Indices |-> 0],
                        !.peers_by_ip = EmptyTable]
  /\ UNCHANGED <<udp4, events, interest, thread, panicked>>

set_key ==
  /\ Exclusive /\ SomeThread
  /\ ~ dev.key_pair
  /\ dev' = [dev EXCEPT !.key_pair = TRUE]
  /\ UNCHANGED <<udp4, events, interest, thread, cleared, panicked>>

(* Shut every known peer's socket down, clear the event at the descriptor  *)
(* of the listening socket and close it; then open a new one, of which a   *)
(* clone is registered.  When the port cannot be bound there is none.      *)
open_listen_socket(bound) ==
  /\ Exclusive /\ SomeThread
  /\ LET ps   == [o \in PeerIds |->
                    IF o \in Range(dev.peers)
                      THEN [dev.peer[o] EXCEPT !.conn = NoFd] ELSE dev.peer[o]]
         evs  == [fd \in Fds |-> IF fd = udp4 THEN NoEvent ELSE events[fd]]
         poll == [fd \in Fds |-> IF fd = udp4 THEN "absent" ELSE interest[fd]]
     IN  /\ dev' = [dev EXCEPT !.peer = ps]
         /\ \/ /\ bound /\ FreeFds(evs) # {}
               /\ udp4' = Kept
               /\ events' = [evs EXCEPT ![Lowest(FreeFds(evs))] = UdpEvent]
               /\ interest' = [poll EXCEPT ![Lowest(FreeFds(evs))] = "armed"]
            \/ /\ ~ bound
               /\ udp4' = NoFd /\ events' = evs /\ interest' = poll
  /\ UNCHANGED <<thread, cleared, panicked>>

-----------------------------------------------------------------------------
(* The event loop *)

(* Mutant: the event stays armed while it is handled (no EPOLLONESHOT).    *)
wait_armed(t, fd) ==
  /\ thread[t].at = "wait" /\ interest[fd] = "armed" /\ ~ panicked
  /\ thread' = [thread EXCEPT ![t].fd = fd,
                  ![t].at = IF IsShutDown(fd) THEN "eof" ELSE events[fd].kind]
  /\ UNCHANGED <<dev, udp4, events, interest, cleared, panicked>>

(* Mutant: the hang-up of a socket is not looked at.                       *)
wait_deaf(t, fd) ==
  /\ thread[t].at = "wait" /\ interest[fd] = "armed" /\ ~ panicked
  /\ thread' = [thread EXCEPT ![t].fd = fd, ![t].at = events[fd].kind]
  /\ interest' = [interest EXCEPT ![fd] = "disarmed"]
  /\ UNCHANGED <<dev, udp4, events, cleared, panicked>>

(* EventPoll::wait: an event is readable, or its socket has hung up.       *)
wait(t, fd) ==
  /\ thread[t].at = "wait" /\ interest[fd] = "armed" /\ ~ panicked
  /\ thread' = [thread EXCEPT ![t].fd = fd,
                  ![t].at = IF IsShutDown(fd) THEN "eof" ELSE events[fd].kind]
  /\ interest' = [interest EXCEPT ![fd] = "disarmed"]
  /\ UNCHANGED <<dev, udp4, events, cleared, panicked>>

(* Drop of the guard: the event is armed again.                            *)
finish(t) ==
  /\ thread[t].at \in {"udp", "conn", "done"}
  /\ thread[t].at = "udp" => dev.key_pair
  /\ thread' = [thread EXCEPT ![t] = Waiting]
  /\ interest' = [interest EXCEPT ![thread[t].fd] = "armed"]
  /\ UNCHANGED <<dev, udp4, events, cleared, panicked>>

(* The handlers' expect("Key not set") and expect("Not connected"): the    *)
(* thread ends, and its guard is dropped.                                  *)
handler_panics(t) ==
  /\ ~ panicked
  /\ \/ /\ thread[t].at = "udp" /\ ~ dev.key_pair
        /\ interest' = [interest EXCEPT ![thread[t].fd] = "armed"]
     \/ /\ thread[t].at = "wait" /\ udp4 = NoFd
        /\ UNCHANGED interest
  /\ thread' = [thread EXCEPT ![t] = [Waiting EXCEPT !.at = "dead"]]
  /\ UNCHANGED <<dev, udp4, events, cleared, panicked>>

(* The peers a packet can be for, by key or by index.                      *)
Known == (Range(dev.peers) \union Range(dev.peers_by_idx)) \ {0}

(* The peer's mutex is held while its connected socket is registered.      *)
Unlocked(o) == \A t \in Threads : thread[t].peer # o

(* The endpoint follows the address packets come from; the socket that was *)
(* connected to the old one is shut down.                                  *)
set_endpoint(peer, moved) ==
  [peer EXCEPT !.addr = TRUE, !.conn = IF moved THEN NoFd ELSE @]

(* A peer without a connected socket gets one, at the lowest free number.  *)
connect_endpoint(peer) == [peer EXCEPT !.conn = Lowest(FreeFds(events))]

(* A packet for the peer arrives at a listening socket, from the address   *)
(* known or from another one.  MAX_ITR, the number of packets a thread     *)
(* handles before it lets go of the event, is 1.                           *)
udp_packet(t, o, moved) ==
  /\ thread[t].at = "udp" /\ dev.key_pair
  /\ o \in Known /\ Unlocked(o)
  /\ LET known == set_endpoint(dev.peer[o], moved)
     IN  IF use_connected_socket /\ known.conn = NoFd
           THEN LET peer == connect_endpoint(known)
                IN  /\ FreeFds(events) # {}
                    /\ dev' = [dev EXCEPT !.peer[o] = peer]
                    /\ thread' = [thread EXCEPT ![t].at = "insert",
                                    ![t].peer = o, ![t].conn = peer.conn]
           ELSE /\ dev' = [dev EXCEPT !.peer[o] = known]
                /\ thread' = [thread EXCEPT ![t].at = "done"]
  /\ UNCHANGED <<udp4, events, interest, cleared, panicked>>

(* Mutant: the vector's mutex is not taken.                                *)
insert_at_unlocked(t) ==
  /\ thread[t].at = "insert"
  /\ events' = [events EXCEPT ![thread[t].conn] = ConnEvent(thread[t].peer)]
  /\ thread' = [thread EXCEPT ![t].at = "add"]
  /\ UNCHANGED <<dev, udp4, interest, cleared, panicked>>

(* register_conn_handler: the event goes into the vector, whose mutex      *)
(* clear_event_by_fd holds until it is done ...                            *)
insert_at(t) ==
  /\ thread[t].at = "insert"
  /\ \A u \in Threads : thread[u].at # "del"
  /\ events' = [events EXCEPT ![thread[t].conn] = ConnEvent(thread[t].peer)]
  /\ thread' = [thread EXCEPT ![t].at = "add"]
  /\ UNCHANGED <<dev, udp4, interest, cleared, panicked>>

(* ... and then to epoll.  The peer is unlocked.                           *)
register_event(t) ==
  /\ thread[t].at = "add"
  /\ interest' = [interest EXCEPT ![thread[t].conn] = "armed"]
  /\ thread' = [thread EXCEPT ![t].at = "done", ![t].peer = 0,
                              ![t].conn = NoFd]
  /\ UNCHANGED <<dev, udp4, events, cleared, panicked>>

(* Cancel after a hang-up: the closure is dropped, which closes its        *)
(* descriptor; the endpoint's clone is closed already, so that epoll       *)
(* forgets the socket ...                                                  *)
clear_event_by_fd(t) ==
  /\ thread[t].at = "eof"
  /\ \A u \in Threads : thread[u].at # "del"
  /\ events' = [events EXCEPT ![thread[t].fd] = NoEvent]
  /\ interest' = [interest EXCEPT ![thread[t].fd] = "absent"]
  /\ thread' = [thread EXCEPT ![t].at = "del"]
  /\ UNCHANGED <<dev, udp4, cleared, panicked>>

(* ... then EPOLL_CTL_DEL for the number, which may by now be a new        *)
(* socket's.                                                               *)
epoll_ctl_del(t) ==
  /\ thread[t].at = "del"
  /\ interest' = [interest EXCEPT ![thread[t].fd] = "absent"]
  /\ thread' = [thread EXCEPT ![t] = Waiting]
  /\ UNCHANGED <<dev, udp4, events, cleared, panicked>>

(* The timer finds a known peer's connection expired (register_timers).    *)
connection_expires(t, o) ==
  /\ thread[t].at = "wait" /\ ~ panicked /\ udp4 # NoFd
  /\ o \in Range(dev.peers) \ {0} /\ Unlocked(o)
  /\ dev.peer[o].addr /\ dev.peer[o].conn # NoFd
  /\ dev' = shutdown_endpoint(dev, o)
  /\ UNCHANGED <<udp4, events, interest, thread, cleared, panicked>>

-----------------------------------------------------------------------------
Next ==
  \/ \E request \in Requests : api_set_peer(request)
  \/ clear_peers
  \/ set_key
  \/ \E bound \in BOOLEAN : open_listen_socket(bound)
  \/ \E t \in Threads :
       \/ \E fd \in Fds : wait(t, fd)
       \/ finish(t)
       \/ handler_panics(t)
       \/ \E o \in PeerIds, moved \in BOOLEAN : udp_packet(t, o, moved)
       \/ insert_at(t) \/ register_event(t)
       \/ clear_event_by_fd(t) \/ epoll_ctl_del(t)
       \/ \E o \in PeerIds : connection_expires(t, o)

Spec == Init /\ [][Next]_vars

(* A thread inside a handler goes on, and gets the mutex of the vector     *)
(* when others keep taking it (SF); epoll returns its ready descriptors in *)
(* turn (SF).                                                              *)
Fairness ==
  /\ \A t \in Threads :
       SF_vars(finish(t) \/ insert_at(t) \/ register_event(t)
               \/ clear_event_by_fd(t) \/ epoll_ctl_del(t))
  /\ \A fd \in Fds : SF_vars(\E t \in Threads : wait(t, fd))

FairSpec == Spec /\ Fairness

-----------------------------------------------------------------------------
(* "It is guaranteed that only a single thread can have a reference to the *)
(* handler", and the memory of the handler is not freed while it is in use *)
(* (epoll.rs, 81 and 338): no other thread holds the event a thread is     *)
(* handling, and the event is still there.                                 *)
Holds(t) == thread[t].at \notin {"wait", "del", "dead"}
GuardsAreLive ==
  \A t \in Threads : Holds(t) =>
    /\ events[thread[t].fd] # NoEvent
    /\ \A u \in Threads \ {t} : Holds(u) => thread[u].fd # thread[t].fd

(* epoll polls exactly the events of the vector, those apart that are just *)
(* being added: no pointer to a freed event stays behind, and no event is  *)
(* lost when a descriptor's number is used again while it is cleared.      *)
PollMatchesEvents ==
  \A fd \in Fds :
    (events[fd] # NoEvent
       /\ \A t \in Threads : ~ (thread[t].at = "add" /\ thread[t].conn = fd))
      <=> interest[fd] # "absent"

(* A peer that has a connected socket is served on it, and it is a peer of *)
(* the device, unless replace_peers has dropped it (clear_peers leaves its *)
(* socket open): remove_peer "purges all references".                      *)
ConnectedIsServed ==
  \A o \in PeerIds :
    dev.peer[o].conn # NoFd =>
      /\ \/ events[dev.peer[o].conn] = ConnEvent(o)
         \/ \E t \in Threads : thread[t].at = "insert" /\ thread[t].peer = o
      /\ o \in Range(dev.peers) \union cleared

(* The three tables tell of the same peers: by key, by index (no two peers *)
(* share one), and by address, where the peer found has that address among *)
(* its own allowed ones and so may also send from it.                      *)
TablesAgree ==
  /\ \A k \in Keys : dev.peers[k] # 0 =>
       /\ dev.peer[dev.peers[k]].key = k
       /\ dev.peers_by_idx[dev.peer[dev.peers[k]].index] = dev.peers[k]
  /\ \A i \in Indices : dev.peers_by_idx[i] \in Range(dev.peers) \union {0}
  /\ \A a \in Addresses :
       LET o == find(dev.peers_by_ip, a, 0)
       IN  o # 0 => /\ o \in Range(dev.peers)
                    /\ \E net \in dev.peer[o].allowed_ips : Covers(net, a)

(* A connected socket that has been shut down (by remove_peer, a new       *)
(* listening socket, an expired session or a peer that has moved) is       *)
(* closed, as long as a thread is left to do it.                           *)
ShutSocketsClose ==
  \A fd \in Fds :
    IsShutDown(fd) ~> (~ IsShutDown(fd) \/ panicked
                         \/ \A t \in Threads : thread[t].at = "dead")

=============================================================================
