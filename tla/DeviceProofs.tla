---------------------------- MODULE DeviceProofs ----------------------------
(***************************************************************************)
(* Proofs about the device: its peers, its sockets and its event loop, for *)
(* any threads, keys, descriptors and requests, and any width of addresses *)
(* and of indices.                                                         *)
(***************************************************************************)
EXTENDS PeerTableProofs

(* A step that names no prover is left to Zenon.                           *)
USE ZenonT(30)

-----------------------------------------------------------------------------
(* The inductive invariant *)

Stages == {"wait", "dead", "udp", "conn", "eof", "done", "insert", "add", "del"}

ThreadRecords ==
  [at : Stages, fd : Fds \union {NoFd}, peer : Nat, conn : Fds \union {NoFd}]
EventRecords == [kind : {"none", "udp", "conn"}, peer : Nat]

(* The event loop.                                                         *)
LoopType ==
  /\ udp4 \in {NoFd, Kept}
  /\ events \in [Fds -> EventRecords]
  /\ interest \in [Fds -> {"absent", "armed", "disarmed"}]
  /\ thread \in [Threads -> ThreadRecords]
  /\ \A fd \in Fds :
       \/ events[fd] = NoEvent
       \/ events[fd] = UdpEvent
       \/ events[fd].kind = "conn" /\ events[fd].peer \in 1..Len(dev.peer)

(* What a thread has in its hands, by its place in the code.               *)
Registers(t) == thread[t].at \in {"insert", "add"}
Hand(t) ==
  /\ thread[t].at \in {"wait", "dead"} <=> thread[t].fd = NoFd
  /\ Holds(t) => /\ interest[thread[t].fd] = "disarmed"
                 /\ events[thread[t].fd] # NoEvent
  /\ thread[t].at = "eof" => IsShutDown(thread[t].fd)
  /\ thread[t].at = "del" => /\ events[thread[t].fd] = NoEvent
                             /\ interest[thread[t].fd] = "absent"
  /\ Registers(t) => /\ thread[t].peer \in 1..Len(dev.peer)
                     /\ thread[t].conn \in Fds
                     /\ dev.peer[thread[t].peer].conn = thread[t].conn
  /\ ~ Registers(t) => thread[t].peer = 0 /\ thread[t].conn = NoFd
  /\ thread[t].at = "insert" => events[thread[t].conn] = NoEvent
  /\ thread[t].at = "add" => /\ events[thread[t].conn] = ConnEvent(thread[t].peer)
                             /\ interest[thread[t].conn] = "absent"
HandsInv == \A t \in Threads : Hand(t)

(* No two threads have the same event or the same new socket.              *)
ApartInv ==
  \A t, u \in Threads : t # u =>
    /\ Holds(t) /\ Holds(u) => thread[t].fd # thread[u].fd
    /\ Registers(t) => thread[t].conn # thread[u].conn

PollInv ==
  \A fd \in Fds :
    /\ interest[fd] # "absent" => events[fd] # NoEvent
    /\ events[fd] # NoEvent /\ interest[fd] = "absent" =>
         \E t \in Threads : thread[t].at = "add" /\ thread[t].conn = fd

ServedInv ==
  \A o \in 1..Len(dev.peer) :
    dev.peer[o].conn # NoFd =>
      /\ \/ events[dev.peer[o].conn] = ConnEvent(o)
         \/ \E t \in Threads : thread[t].at = "insert" /\ thread[t].peer = o
      /\ Live(dev, o) \/ o \in cleared

DeviceInv ==
  /\ panicked \in BOOLEAN
  /\ DevInv(dev) /\ LoopType /\ HandsInv /\ ApartInv /\ PollInv /\ ServedInv

-----------------------------------------------------------------------------
(* The event loop *)

LEMMA FdFacts ==
  /\ Fds \subseteq Nat /\ NoFd \notin Fds /\ Kept \notin Fds
  /\ \A S : S \subseteq Fds /\ S # {} => Lowest(S) \in S
<1>1. Fds \subseteq Nat
  BY DeviceAssumption, SMTT(30) DEF Fds
<1>2. NoFd \notin Nat /\ Kept \notin Nat
  BY SMTT(30) DEF NoFd, Kept
<1>3. \A S : S \subseteq Fds /\ S # {} => Lowest(S) \in S
  BY <1>1, LowestIn
<1> QED BY <1>1, <1>2, <1>3

LEMMA EventFacts ==
  /\ NoEvent \in EventRecords /\ UdpEvent \in EventRecords /\ NoEvent # UdpEvent
  /\ NoEvent.kind = "none" /\ UdpEvent.kind = "udp"
  /\ \A o \in Nat : /\ ConnEvent(o) \in EventRecords /\ ConnEvent(o) # NoEvent
                    /\ ConnEvent(o).kind = "conn" /\ ConnEvent(o).peer = o
  /\ \A e \in EventRecords : e.kind = "conn" => e = ConnEvent(e.peer)
BY SMTT(30) DEF EventRecords, NoEvent, UdpEvent, ConnEvent

LEMMA InitDevice == Init => DeviceInv
<1> SUFFICES ASSUME Init PROVE DeviceInv
  OBVIOUS
<1>1. /\ dev.key_pair = FALSE /\ dev.peers = [k \in Keys |-> 0]
      /\ dev.peers_by_idx = [i \in Indices |-> 0] /\ dev.peers_by_ip = EmptyTable
      /\ dev.next_index = Default /\ dev.peer = <<>>
  BY DEF Init
<1>2. EmptyTable \in Tables /\ DOMAIN EmptyTable = {}
  <2>1. EmptyTable \in [{} -> Nat]
    BY DEF EmptyTable
  <2> QED BY <2>1, TableType
<1>3. Default \in [initial : {Seed}, lfsr : random_index, mask : {Mask}]
  BY IndexLfsrAssumption DEF Default
<1>4. <<>> \in Seq(Peer) /\ Len(dev.peer) = 0
  BY <1>1, SMTT(30)
<1>5. dev \in Devices
  BY <1>2, <1>3, <1>4 DEF Init, Devices
<1>6. Trail(dev)
  <2> DEFINE v == [i \in 1..1 |-> Seed]
  <2>1. v \in [1..(Len(dev.peer) + 1) -> random_index] /\ v[1] = Seed
    BY <1>4, IndexLfsrAssumption, SMTT(30)
  <2>2. dev.next_index.lfsr = Seed
    BY <1>1, SMTT(30) DEF Default
  <2> HIDE DEF v
  <2>3. IsTrail(dev, v)
    BY <1>4, <2>1, <2>2, SMTT(30) DEF IsTrail
  <2> QED BY <2>3 DEF Trail
<1>7. ByKey(dev) /\ ByIndex(dev) /\ ByNetwork(dev)
  BY <1>1, <1>2 DEF ByKey, ByIndex, ByNetwork
<1>8. DevInv(dev)
  BY <1>5, <1>6, <1>7 DEF DevInv
<1>9. LoopType
  BY EventFacts, FdFacts DEF Init, LoopType, EventRecords, ThreadRecords, Waiting, Stages
<1>10. HandsInv /\ ApartInv
  BY FdFacts DEF Init, HandsInv, Hand, ApartInv, Waiting, Holds, Registers
<1>11. PollInv /\ ServedInv
  BY <1>4, SMTT(30) DEF Init, PollInv, ServedInv
<1> QED BY <1>8, <1>9, <1>10, <1>11 DEF DeviceInv, Init

(* A command that leaves the loop alone.  No thread has anything in its    *)
(* hands meanwhile.                                                        *)
LEMMA CommandKeepsInv ==
  ASSUME DeviceInv, Exclusive, DevInv(dev'), panicked' \in BOOLEAN,
         UNCHANGED <<udp4, events, interest, thread>>,
         Len(dev.peer) <= Len(dev'.peer),
         \A o \in 1..Len(dev'.peer) : dev'.peer[o].conn # NoFd =>
           /\ o <= Len(dev.peer) /\ dev'.peer[o].conn = dev.peer[o].conn
           /\ Live(dev, o) \/ o \in cleared => Live(dev', o) \/ o \in cleared'
  PROVE  DeviceInv'
<1>1. \A t \in Threads : thread[t].at \in {"wait", "dead"}
  BY DEF Exclusive
<1>2. Len(dev.peer) \in Nat /\ Len(dev'.peer) \in Nat
  BY PeerTypes DEF DeviceInv, DevInv
<1>3. LoopType'
  BY <1>2, SMTT(30) DEF DeviceInv, LoopType
<1>4. HandsInv' /\ ApartInv'
  BY <1>1, SMTT(30) DEF DeviceInv, HandsInv, Hand, ApartInv, Holds, Registers
<1>5. PollInv'
  BY DEF DeviceInv, PollInv
<1>6. ServedInv'
  BY <1>2, SMTT(30) DEF DeviceInv, ServedInv
<1> QED BY <1>3, <1>4, <1>5, <1>6 DEF DeviceInv

LEMMA ApiSetPeerInv ==
  ASSUME DeviceInv, NEW request \in Requests, api_set_peer(request)
  PROVE  DeviceInv'
<1> DEFINE acc == Processed(dev, request)
<1>1. request \in Seq(Sections)
  BY DeviceAssumption
<1>2. SectionInv(dev, acc)
  BY <1>1, ProcessedKeepsInv DEF DeviceInv
<1>3. dev' = acc.dev /\ panicked' = ~ acc.ok /\ Exclusive
      /\ UNCHANGED <<udp4, events, interest, thread, cleared>>
  BY DEF api_set_peer
<1> HIDE DEF acc
<1>4. DevInv(dev') /\ Keeps(dev, dev') /\ panicked' \in BOOLEAN
  BY <1>2, <1>3 DEF SectionInv
<1> QED BY <1>3, <1>4, CommandKeepsInv DEF Keeps

LEMMA ClearPeersInv ==
  ASSUME DeviceInv, clear_peers
  PROVE  DeviceInv'
<1>1. dev \in Devices
  BY DEF DeviceInv, DevInv
<1>2. /\ Exclusive /\ panicked' = panicked /\ UNCHANGED <<udp4, events, interest, thread>>
      /\ cleared' = cleared \union (Range(dev.peers) \ {0})
  BY DEF clear_peers
<1>3. dev' = [dev EXCEPT !.peers = [k \in Keys |-> 0],
                         !.peers_by_idx = [i \in Indices |-> 0], !.peers_by_ip = EmptyTable]
  BY DEF clear_peers
<1>4. EmptyTable \in Tables /\ DOMAIN EmptyTable = {}
  <2>1. EmptyTable \in [{} -> Nat]
    BY DEF EmptyTable
  <2> QED BY <2>1, TableType
<1>5. /\ dev' \in Devices
      /\ dev'.peers = [k \in Keys |-> 0] /\ dev'.peers_by_idx = [i \in Indices |-> 0]
      /\ dev'.peers_by_ip = EmptyTable
      /\ dev'.peer = dev.peer /\ dev'.next_index = dev.next_index
  BY <1>1, <1>3, <1>4 DEF Devices
<1>6. Trail(dev')
  <2>1. PICK v : IsTrail(dev, v)
    BY DEF DeviceInv, DevInv, Trail
  <2>2. IsTrail(dev', v)
    BY <1>5, <2>1 DEF IsTrail
  <2> QED BY <2>2 DEF Trail
<1>7. ByKey(dev') /\ ByIndex(dev') /\ ByNetwork(dev')
  BY <1>4, <1>5 DEF ByKey, ByIndex, ByNetwork
<1>8. DevInv(dev')
  BY <1>5, <1>6, <1>7 DEF DevInv
<1>9. \A o \in 1..Len(dev.peer) : Live(dev, o) => o \in cleared'
  <2>1. dev.peers \in [Keys -> Nat] /\ Len(dev.peer) \in Nat
    BY <1>1, PeerTypes DEF Devices
  <2> QED BY <1>2, <2>1, SMTT(30) DEF Live, Range
<1>10. cleared \subseteq cleared' /\ panicked' \in BOOLEAN
  BY <1>2 DEF DeviceInv
<1>11. Len(dev.peer) <= Len(dev'.peer)
  BY <1>1, <1>5, PeerTypes, SMTT(30)
<1> QED BY <1>2, <1>5, <1>8, <1>9, <1>10, <1>11, CommandKeepsInv, SMTT(30)

LEMMA SetKeyInv ==
  ASSUME DeviceInv, set_key
  PROVE  DeviceInv'
<1>1. dev \in Devices /\ Len(dev.peer) \in Nat /\ DevInv(dev) /\ panicked \in BOOLEAN
  BY PeerTypes DEF DeviceInv, DevInv
<1>2. /\ dev' = [dev EXCEPT !.key_pair = TRUE] /\ Exclusive
      /\ UNCHANGED <<udp4, events, interest, thread, cleared, panicked>>
  BY DEF set_key
<1>3. /\ dev' \in Devices /\ dev'.peer = dev.peer /\ dev'.peers = dev.peers
      /\ dev'.peers_by_idx = dev.peers_by_idx /\ dev'.peers_by_ip = dev.peers_by_ip
      /\ dev'.next_index = dev.next_index
  BY <1>1, <1>2 DEF Devices
<1>4. SamePeers(dev, dev')
  BY <1>3 DEF SamePeers
<1>5. DevInv(dev') /\ \A o : Live(dev', o) <=> Live(dev, o)
  BY <1>1, <1>3, <1>4, SamePeersInv
<1>6. /\ Len(dev.peer) <= Len(dev'.peer)
      /\ \A o \in 1..Len(dev'.peer) : dev'.peer[o].conn # NoFd =>
           /\ o <= Len(dev.peer) /\ dev'.peer[o].conn = dev.peer[o].conn
           /\ Live(dev, o) \/ o \in cleared => Live(dev', o) \/ o \in cleared'
  <2>1. Len(dev'.peer) = Len(dev.peer) /\ dev'.peer = dev.peer /\ cleared' = cleared
        /\ Len(dev.peer) \in Nat
    BY <1>1, <1>2, <1>3
  <2> QED BY <1>5, <2>1, SMTT(30)
<1> QED BY <1>1, <1>2, <1>5, <1>6, CommandKeepsInv

LEMMA OpenListenSocketInv ==
  ASSUME DeviceInv, NEW bound \in BOOLEAN, open_listen_socket(bound)
  PROVE  DeviceInv'
<1>1. /\ dev \in Devices /\ dev.peer \in Seq(Peer) /\ Len(dev.peer) \in Nat /\ DevInv(dev)
      /\ LoopType /\ PollInv /\ ServedInv /\ HandsInv /\ panicked \in BOOLEAN
  BY PeerTypes DEF DeviceInv, DevInv, Devices
<1>2. \A t \in Threads : thread[t].at \in {"wait", "dead"}
  BY DEF Exclusive, open_listen_socket
<1> DEFINE ps == [o \in PeerIds |-> IF o \in Range(dev.peers)
                                      THEN [dev.peer[o] EXCEPT !.conn = NoFd] ELSE dev.peer[o]]
           evs == [fd \in Fds |-> IF fd = udp4 THEN NoEvent ELSE events[fd]]
           poll == [fd \in Fds |-> IF fd = udp4 THEN "absent" ELSE interest[fd]]
           new == Lowest(FreeFds(events))
<1>3. evs = events /\ poll = interest
  BY <1>1, FdFacts, SMTT(30) DEF LoopType
<1>4. /\ dev' = [dev EXCEPT !.peer = ps]
      /\ \/ /\ FreeFds(events) # {} /\ udp4' = Kept
            /\ events' = [events EXCEPT ![new] = UdpEvent]
            /\ interest' = [interest EXCEPT ![new] = "armed"]
         \/ udp4' = NoFd /\ events' = events /\ interest' = interest
      /\ thread' = thread /\ cleared' = cleared /\ panicked' = panicked
  <2>1. /\ dev' = [dev EXCEPT !.peer = ps]
        /\ \/ /\ bound /\ FreeFds(evs) # {}
              /\ udp4' = Kept
              /\ events' = [evs EXCEPT ![Lowest(FreeFds(evs))] = UdpEvent]
              /\ interest' = [poll EXCEPT ![Lowest(FreeFds(evs))] = "armed"]
           \/ /\ ~ bound
              /\ udp4' = NoFd /\ events' = evs /\ interest' = poll
        /\ UNCHANGED <<thread, cleared, panicked>>
    BY DEF open_listen_socket
  <2> HIDE DEF evs, poll
  <2> QED BY <1>3, <2>1
<1>5. PeerIds = 1..Len(dev.peer)
  BY <1>1, SMTT(30) DEF PeerIds
<1>6. \A o \in 1..Len(dev.peer) : /\ dev.peer[o] \in Peer
                                  /\ [dev.peer[o] EXCEPT !.conn = NoFd] \in Peer
  BY <1>1, PeerTypes DEF Peer
<1>7. /\ ps \in Seq(Peer) /\ Len(ps) = Len(dev.peer)
      /\ \A o \in 1..Len(dev.peer) :
           ps[o] = IF o \in Range(dev.peers)
                     THEN [dev.peer[o] EXCEPT !.conn = NoFd] ELSE dev.peer[o]
  BY <1>1, <1>5, <1>6, SMTT(30)
<1> HIDE DEF ps
<1>8. /\ dev' \in Devices /\ dev'.peer = ps /\ dev'.peers = dev.peers
      /\ dev'.peers_by_idx = dev.peers_by_idx /\ dev'.peers_by_ip = dev.peers_by_ip
      /\ dev'.next_index = dev.next_index
  BY <1>1, <1>4, <1>7 DEF Devices
<1>9. \A o \in 1..Len(dev.peer) :
        /\ dev'.peer[o].key = dev.peer[o].key /\ dev'.peer[o].index = dev.peer[o].index
        /\ dev'.peer[o].allowed_ips = dev.peer[o].allowed_ips
        /\ dev'.peer[o].conn # NoFd => dev'.peer[o].conn = dev.peer[o].conn
  BY <1>6, <1>7, <1>8 DEF Peer
<1>10. SamePeers(dev, dev')
  BY <1>7, <1>8, <1>9 DEF SamePeers
<1>11. DevInv(dev') /\ \A o : Live(dev', o) <=> Live(dev, o)
  BY <1>1, <1>8, <1>10, SamePeersInv
<1>12. Len(dev'.peer) = Len(dev.peer)
  BY <1>7, <1>8
<1>13. /\ udp4' \in {NoFd, Kept}
       /\ events' \in [Fds -> EventRecords]
       /\ interest' \in [Fds -> {"absent", "armed", "disarmed"}]
       /\ \A fd \in Fds : \/ events'[fd] = events[fd] /\ interest'[fd] = interest[fd]
                          \/ /\ events[fd] = NoEvent
                             /\ events'[fd] = UdpEvent /\ interest'[fd] = "armed"
  <2>1. FreeFds(events) # {} => new \in Fds /\ events[new] = NoEvent
    <3>1. FreeFds(events) \subseteq Fds
      BY DEF FreeFds
    <3>2. FreeFds(events) # {} => new \in FreeFds(events)
      BY <3>1, FdFacts
    <3> QED BY <3>2 DEF FreeFds
  <2> HIDE DEF new
  <2> QED BY <1>1, <1>4, <2>1, EventFacts, SMTT(30) DEF LoopType
<1>14. LoopType'
  BY <1>1, <1>4, <1>12, <1>13 DEF LoopType
<1>15. HandsInv' /\ ApartInv'
  BY <1>1, <1>2, <1>4 DEF HandsInv, Hand, ApartInv, Holds, Registers
<1>16. PollInv'
  BY <1>1, <1>4, <1>13, EventFacts, SMTT(30) DEF PollInv
<1>17. ServedInv'
  <2> SUFFICES ASSUME NEW o \in 1..Len(dev.peer), dev'.peer[o].conn # NoFd
               PROVE  /\ events'[dev'.peer[o].conn] = ConnEvent(o)
                      /\ Live(dev', o) \/ o \in cleared'
    BY <1>12 DEF ServedInv
  <2>1. dev.peer[o].conn = dev'.peer[o].conn /\ dev.peer[o].conn # NoFd
        /\ dev.peer[o].conn \in Fds
    BY <1>1, <1>9, PeerTypes
  <2>2. events[dev.peer[o].conn] = ConnEvent(o) /\ (Live(dev, o) \/ o \in cleared)
    BY <1>1, <1>2, <2>1 DEF ServedInv
  <2>3. ConnEvent(o) # NoEvent
    BY EventFacts, SMTT(30)
  <2> QED BY <1>4, <1>11, <1>13, <2>1, <2>2, <2>3
<1> QED BY <1>1, <1>4, <1>11, <1>14, <1>15, <1>16, <1>17 DEF DeviceInv

(* The steps of a thread.                                                  *)
LEMMA Typed ==
  ASSUME DeviceInv
  PROVE  /\ dev \in Devices /\ Len(dev.peer) \in Nat /\ DevInv(dev) /\ panicked \in BOOLEAN
         /\ LoopType /\ HandsInv /\ ApartInv /\ PollInv /\ ServedInv
         /\ \A t \in Threads : thread[t] \in ThreadRecords
         /\ \A fd \in Fds : events[fd] \in EventRecords
BY PeerTypes DEF DeviceInv, DevInv, LoopType

LEMMA WaitInv ==
  ASSUME DeviceInv, NEW t \in Threads, NEW fd \in Fds, wait(t, fd)
  PROVE  DeviceInv'
<1> DEFINE at == IF IsShutDown(fd) THEN "eof" ELSE events[fd].kind
<1>1. /\ thread[t].at = "wait" /\ interest[fd] = "armed"
      /\ thread' = [thread EXCEPT ![t].fd = fd, ![t].at = at]
      /\ interest' = [interest EXCEPT ![fd] = "disarmed"]
      /\ dev' = dev /\ udp4' = udp4 /\ events' = events /\ cleared' = cleared
      /\ panicked' = panicked
  BY DEF wait
<1>2. events[fd] # NoEvent
  BY <1>1, Typed DEF PollInv
<1>3. at \in {"udp", "conn", "eof"} /\ (at = "eof" => IsShutDown(fd))
  BY <1>2, Typed, EventFacts DEF LoopType
<1> HIDE DEF at
<1>4. /\ thread' \in [Threads -> ThreadRecords]
      /\ \A u \in Threads : u # t => thread'[u] = thread[u]
      /\ thread'[t].at = at /\ thread'[t].fd = fd
      /\ thread'[t].peer = thread[t].peer /\ thread'[t].conn = thread[t].conn
  BY <1>1, <1>3, Typed DEF LoopType, ThreadRecords, Stages
<1>5. /\ interest' \in [Fds -> {"absent", "armed", "disarmed"}] /\ interest'[fd] = "disarmed"
      /\ \A f \in Fds : f # fd => interest'[f] = interest[f]
  BY <1>1, Typed DEF LoopType
<1>6. LoopType'
  BY <1>1, <1>4, <1>5, Typed DEF LoopType
<1>7. \A f : IsShutDown(f)' <=> IsShutDown(f)
  BY <1>1 DEF IsShutDown
<1>8. \A u \in Threads : Holds(u) => thread[u].fd # fd
  BY <1>1, Typed DEF HandsInv, Hand
<1>9. HandsInv'
  <2>1. ASSUME NEW u \in Threads, u # t PROVE Hand(u)'
    <3>1. Hand(u) /\ thread'[u] = thread[u] /\ thread[u].fd \in Fds \union {NoFd}
      BY <1>4, <2>1, Typed DEF HandsInv, ThreadRecords
    <3>2. thread[u].at = "del" => thread[u].fd # fd
      BY <1>1, <3>1 DEF Hand
    <3>3. thread[u].at = "add" => thread[u].conn # fd
      BY <1>1, <3>1 DEF Hand
    <3> QED BY <1>1, <1>5, <1>7, <1>8, <3>1, <3>2, <3>3 DEF Hand, Holds, Registers
  <2>2. Hand(t)'
    <3>1. thread[t].peer = 0 /\ thread[t].conn = NoFd
      BY <1>1, Typed DEF HandsInv, Hand, Registers
    <3> QED BY <1>1, <1>2, <1>3, <1>4, <1>5, <1>7, <3>1, FdFacts, SMTT(30)
            DEF Hand, Holds, Registers
  <2> QED BY <2>1, <2>2 DEF HandsInv
<1>10. ApartInv'
  BY <1>1, <1>3, <1>4, <1>8, Typed, SMTT(30) DEF ApartInv, Holds, Registers
<1>11. PollInv'
  BY <1>1, <1>2, <1>3, <1>4, <1>5, Typed DEF PollInv
<1>12. ServedInv'
  BY <1>1, <1>3, <1>4, Typed DEF ServedInv
<1> QED BY <1>1, <1>6, <1>9, <1>10, <1>11, <1>12, Typed DEF DeviceInv

(* A thread lets go of its event, and waits again or is dead.              *)
LEMMA ReleaseInv ==
  ASSUME DeviceInv, NEW t \in Threads, NEW at \in {"wait", "dead"},
         thread[t].at \in {"udp", "conn", "done"},
         thread' = [thread EXCEPT ![t] = [Waiting EXCEPT !.at = at]],
         interest' = [interest EXCEPT ![thread[t].fd] = "armed"],
         dev' = dev, udp4' = udp4, events' = events, cleared' = cleared,
         panicked' = panicked
  PROVE  DeviceInv'
<1> DEFINE fd == thread[t].fd
<1>1. fd \in Fds /\ events[fd] # NoEvent /\ interest[fd] = "disarmed"
  BY Typed DEF HandsInv, Hand, Holds, ThreadRecords
<1> HIDE DEF fd
<1>2. /\ thread' \in [Threads -> ThreadRecords]
      /\ \A u \in Threads : u # t => thread'[u] = thread[u]
      /\ thread'[t].at = at /\ thread'[t].fd = NoFd
      /\ thread'[t].peer = 0 /\ thread'[t].conn = NoFd
  BY Typed DEF LoopType, ThreadRecords, Stages, Waiting
<1>3. /\ interest' \in [Fds -> {"absent", "armed", "disarmed"}] /\ interest'[fd] = "armed"
      /\ \A f \in Fds : f # fd => interest'[f] = interest[f]
  BY <1>1, Typed DEF LoopType, fd
<1>4. LoopType'
  BY <1>2, <1>3, Typed DEF LoopType
<1>5. \A f : IsShutDown(f)' <=> IsShutDown(f)
  BY DEF IsShutDown
<1>6. \A u \in Threads : u # t /\ Holds(u) => thread[u].fd # fd
  BY Typed DEF ApartInv, Holds, fd
<1>7. \A u \in Threads : thread[u].at = "del" => thread[u].fd # fd
  BY <1>1, Typed DEF HandsInv, Hand
<1>8. \A u \in Threads : thread[u].at = "add" => thread[u].conn # fd
  BY <1>1, Typed DEF HandsInv, Hand
<1>9. HandsInv'
  <2>1. ASSUME NEW u \in Threads, u # t PROVE Hand(u)'
    <3>1. Hand(u) /\ thread'[u] = thread[u] /\ thread[u].fd \in Fds \union {NoFd}
      BY <1>2, <2>1, Typed DEF HandsInv, ThreadRecords
    <3> QED BY <1>3, <1>5, <1>6, <1>7, <1>8, <2>1, <3>1, SMTT(30) DEF Hand, Holds, Registers
  <2>2. Hand(t)'
    BY <1>2 DEF Hand, Holds, Registers
  <2> QED BY <2>1, <2>2 DEF HandsInv
<1>10. ApartInv'
  BY <1>2, Typed, FdFacts, SMTT(30) DEF ApartInv, HandsInv, Hand, Holds, Registers
<1>11. PollInv'
  BY <1>1, <1>2, <1>3, Typed DEF PollInv
<1>12. ServedInv'
  BY <1>2, Typed DEF ServedInv
<1> QED BY <1>4, <1>9, <1>10, <1>11, <1>12, Typed DEF DeviceInv

LEMMA FinishInv ==
  ASSUME DeviceInv, NEW t \in Threads, finish(t)
  PROVE  DeviceInv'
<1>1. [Waiting EXCEPT !.at = "wait"] = Waiting
  BY SMTT(30) DEF Waiting
<1>2. /\ thread[t].at \in {"udp", "conn", "done"}
      /\ thread' = [thread EXCEPT ![t] = [Waiting EXCEPT !.at = "wait"]]
      /\ interest' = [interest EXCEPT ![thread[t].fd] = "armed"]
      /\ dev' = dev /\ udp4' = udp4 /\ events' = events /\ cleared' = cleared
      /\ panicked' = panicked
  BY <1>1 DEF finish
<1> QED BY <1>2, ReleaseInv

LEMMA HandlerPanicsInv ==
  ASSUME DeviceInv, NEW t \in Threads, handler_panics(t)
  PROVE  DeviceInv'
<1>1. /\ thread' = [thread EXCEPT ![t] = [Waiting EXCEPT !.at = "dead"]]
      /\ dev' = dev /\ udp4' = udp4 /\ events' = events /\ cleared' = cleared
      /\ panicked' = panicked
  BY DEF handler_panics
<1>2. CASE thread[t].at = "udp" /\ interest' = [interest EXCEPT ![thread[t].fd] = "armed"]
  BY <1>1, <1>2, ReleaseInv
<1>3. CASE thread[t].at = "wait" /\ interest' = interest
  <2>1. /\ thread' \in [Threads -> ThreadRecords]
        /\ \A u \in Threads : u # t => thread'[u] = thread[u]
        /\ thread'[t].at = "dead" /\ thread'[t].fd = NoFd
        /\ thread'[t].peer = 0 /\ thread'[t].conn = NoFd
    BY <1>1, Typed DEF LoopType, ThreadRecords, Stages, Waiting
  <2>2. LoopType'
    BY <1>1, <1>3, <2>1, Typed DEF LoopType
  <2>3. \A f : IsShutDown(f)' <=> IsShutDown(f)
    BY <1>1 DEF IsShutDown
  <2>4. HandsInv'
    BY <1>1, <1>3, <2>1, <2>3, Typed, SMTT(30) DEF HandsInv, Hand, Holds, Registers
  <2>5. ApartInv'
    BY <1>1, <1>3, <2>1, Typed, FdFacts, SMTT(30) DEF ApartInv, HandsInv, Hand, Holds, Registers
  <2>6. PollInv' /\ ServedInv'
    BY <1>1, <1>3, <2>1, Typed DEF PollInv, ServedInv
  <2> QED BY <1>1, <2>2, <2>4, <2>5, <2>6, Typed DEF DeviceInv
<1> QED BY <1>2, <1>3 DEF handler_panics

(* A peer nobody has locked keeps its socket, loses it or gets a new one.  *)
LEMMA EndpointMoves ==
  ASSUME DeviceInv, NEW o \in 1..Len(dev.peer), Unlocked(o), NEW p \in Peer,
         p.key = dev.peer[o].key, p.index = dev.peer[o].index,
         p.allowed_ips = dev.peer[o].allowed_ips,
         \/ p.conn \in {dev.peer[o].conn, NoFd}
         \/ p.conn \in Fds /\ events[p.conn] = NoEvent,
         dev' = [dev EXCEPT !.peer[o] = p], events' = events
  PROVE  /\ DevInv(dev') /\ \A q : Live(dev', q) <=> Live(dev, q)
         /\ Len(dev'.peer) = Len(dev.peer)
         /\ \A q \in 1..Len(dev.peer) : dev'.peer[q] = IF q = o THEN p ELSE dev.peer[q]
         /\ \A fd \in Fds : IsShutDown(fd) => IsShutDown(fd)'
         /\ \A u \in Threads : Registers(u) =>
              /\ thread[u].peer # o
              /\ dev'.peer[thread[u].peer].conn = thread[u].conn
<1>1. /\ DevInv(dev') /\ \A q : Live(dev', q) <=> Live(dev, q)
      /\ Len(dev'.peer) = Len(dev.peer)
      /\ \A q \in 1..Len(dev.peer) : dev'.peer[q] = IF q = o THEN p ELSE dev.peer[q]
  <2>1. DevInv(dev)
    BY DEF DeviceInv
  <2>2. PICK e : e = dev'
    OBVIOUS
  <2>3. e = [dev EXCEPT !.peer[o] = p]
    BY <2>2
  <2>4. /\ DevInv(e) /\ \A q : Live(e, q) <=> Live(dev, q)
        /\ Len(e.peer) = Len(dev.peer)
        /\ \A q \in 1..Len(dev.peer) : e.peer[q] = IF q = o THEN p ELSE dev.peer[q]
    BY <2>1, <2>3, OnePeerChanged, SMTT(30)
  <2> QED BY <2>2, <2>4
<1>2. ASSUME NEW fd \in Fds, IsShutDown(fd) PROVE IsShutDown(fd)'
  <2>1. /\ events[fd].kind = "conn" /\ dev.peer[events[fd].peer].conn # fd
        /\ events[fd].peer \in 1..Len(dev.peer) /\ events[fd] # NoEvent
    BY <1>2, Typed, EventFacts DEF IsShutDown, LoopType
  <2>2. dev'.peer[events[fd].peer].conn # fd
    BY <1>1, <2>1, FdFacts
  <2> QED BY <2>1, <2>2 DEF IsShutDown
<1>3. ASSUME NEW u \in Threads, Registers(u)
      PROVE  thread[u].peer # o /\ dev'.peer[thread[u].peer].conn = thread[u].conn
  BY <1>1, <1>3, Typed, SMTT(30) DEF Unlocked, HandsInv, Hand
<1> QED BY <1>1, <1>2, <1>3

(* A thread that keeps what it has in its hands.                           *)
LEMMA SameHand ==
  ASSUME DeviceInv, NEW u \in Threads, thread'[u] = thread[u],
         events' = events, interest' = interest, Len(dev'.peer) = Len(dev.peer),
         \A fd \in Fds : IsShutDown(fd) => IsShutDown(fd)',
         Registers(u) => dev'.peer[thread[u].peer].conn = thread[u].conn
  PROVE  Hand(u)'
<1>1. Hand(u) /\ thread[u] \in ThreadRecords
  BY Typed DEF HandsInv
<1>2. thread[u].at = "eof" => IsShutDown(thread[u].fd)'
  BY <1>1 DEF Hand, ThreadRecords
<1> QED BY <1>1, <1>2 DEF Hand, Holds, Registers

LEMMA ConnectionExpiresInv ==
  ASSUME DeviceInv, NEW t \in Threads, NEW o \in PeerIds, connection_expires(t, o)
  PROVE  DeviceInv'
<1> DEFINE p == [dev.peer[o] EXCEPT !.conn = NoFd]
<1>1. o \in 1..Len(dev.peer) /\ dev.peer[o] \in Peer
  BY Typed, PeerTypes, SMTT(30) DEF PeerIds, Devices
<1>2. /\ p \in Peer /\ p.conn = NoFd /\ p.key = dev.peer[o].key
      /\ p.index = dev.peer[o].index /\ p.allowed_ips = dev.peer[o].allowed_ips
  BY <1>1 DEF Peer
<1>3. dev' = [dev EXCEPT !.peer[o] = p]
  BY <1>1, Typed DEF connection_expires, shutdown_endpoint, Devices
<1>4. /\ Unlocked(o) /\ udp4' = udp4 /\ events' = events /\ interest' = interest
      /\ thread' = thread /\ cleared' = cleared /\ panicked' = panicked
  BY DEF connection_expires
<1> HIDE DEF p
<1>5. /\ DevInv(dev') /\ \A q : Live(dev', q) <=> Live(dev, q)
      /\ Len(dev'.peer) = Len(dev.peer)
      /\ \A q \in 1..Len(dev.peer) : dev'.peer[q] = IF q = o THEN p ELSE dev.peer[q]
      /\ \A fd \in Fds : IsShutDown(fd) => IsShutDown(fd)'
      /\ \A u \in Threads : Registers(u) => dev'.peer[thread[u].peer].conn = thread[u].conn
  BY <1>1, <1>2, <1>3, <1>4, EndpointMoves
<1>6. LoopType' /\ ApartInv' /\ PollInv'
  BY <1>4, <1>5, Typed, SMTT(30) DEF LoopType, ApartInv, PollInv, Holds, Registers
<1>7. HandsInv'
  BY <1>4, <1>5, SameHand DEF HandsInv
<1>8. ServedInv'
  BY <1>2, <1>4, <1>5, Typed DEF ServedInv
<1> QED BY <1>4, <1>5, <1>6, <1>7, <1>8, Typed DEF DeviceInv

LEMMA KnownPeers ==
  ASSUME DeviceInv
  PROVE  \A o \in Known : o \in 1..Len(dev.peer) /\ Live(dev, o)
<1>1. DOMAIN dev.peers = Keys /\ DOMAIN dev.peers_by_idx = Indices
  BY Typed DEF Devices
<1>2. ByKey(dev) /\ ByIndex(dev)
  BY Typed DEF DevInv
<1>3. \A o \in Known : Live(dev, o)
  BY <1>1, <1>2, SMTT(30) DEF Known, Range, Live, ByIndex
<1>4. \A o \in Known : o \in 1..Len(dev.peer)
  BY <1>2, <1>3 DEF Known, Live, ByKey
<1> QED BY <1>3, <1>4

LEMMA UdpPacketInv ==
  ASSUME DeviceInv, NEW t \in Threads, NEW o \in PeerIds, NEW moved \in BOOLEAN,
         udp_packet(t, o, moved)
  PROVE  DeviceInv'
<1> DEFINE known == set_endpoint(dev.peer[o], moved)
           new == Lowest(FreeFds(events))
<1>1. /\ thread[t].at = "udp" /\ o \in Known /\ Unlocked(o)
      /\ udp4' = udp4 /\ events' = events /\ interest' = interest
      /\ cleared' = cleared /\ panicked' = panicked
  BY DEF udp_packet
<1>2. o \in 1..Len(dev.peer) /\ Live(dev, o) /\ dev.peer[o] \in Peer
  BY <1>1, KnownPeers, Typed, PeerTypes DEF Devices
<1>3. /\ known \in Peer /\ known.conn \in {dev.peer[o].conn, NoFd}
      /\ known.key = dev.peer[o].key /\ known.index = dev.peer[o].index
      /\ known.allowed_ips = dev.peer[o].allowed_ips
  BY <1>2 DEF set_endpoint, Peer
<1>4. thread[t].peer = 0 /\ thread[t].conn = NoFd /\ thread[t].fd \in Fds
      /\ events[thread[t].fd] # NoEvent /\ interest[thread[t].fd] = "disarmed"
  BY <1>1, Typed DEF HandsInv, Hand, Registers, Holds, ThreadRecords
<1>5. CASE /\ FreeFds(events) # {}
           /\ dev' = [dev EXCEPT !.peer[o] = connect_endpoint(known)]
           /\ thread' = [thread EXCEPT ![t].at = "insert", ![t].peer = o,
                                       ![t].conn = connect_endpoint(known).conn]
  <2> DEFINE p == connect_endpoint(known)
  <2>1. new \in Fds /\ events[new] = NoEvent /\ \A u \in Threads : thread[u].conn # new
    <3>1. FreeFds(events) \subseteq Fds
      BY DEF FreeFds
    <3>2. new \in FreeFds(events)
      BY <1>5, <3>1, FdFacts
    <3> QED BY <3>2 DEF FreeFds
  <2> HIDE DEF known
  <2>2. /\ p \in Peer /\ p.conn = new /\ p.key = dev.peer[o].key
        /\ p.index = dev.peer[o].index /\ p.allowed_ips = dev.peer[o].allowed_ips
    BY <1>3, <2>1 DEF connect_endpoint, Peer
  <2> HIDE DEF new, p
  <2>3. /\ DevInv(dev') /\ \A q : Live(dev', q) <=> Live(dev, q)
        /\ Len(dev'.peer) = Len(dev.peer)
        /\ \A q \in 1..Len(dev.peer) : dev'.peer[q] = IF q = o THEN p ELSE dev.peer[q]
        /\ \A fd \in Fds : IsShutDown(fd) => IsShutDown(fd)'
        /\ \A u \in Threads : Registers(u) =>
             thread[u].peer # o /\ dev'.peer[thread[u].peer].conn = thread[u].conn
    <3>1. dev' = [dev EXCEPT !.peer[o] = p]
      BY <1>5 DEF p
    <3> QED BY <1>1, <1>2, <2>1, <2>2, <3>1, EndpointMoves
  <2>4. /\ thread' \in [Threads -> ThreadRecords]
        /\ \A u \in Threads : u # t => thread'[u] = thread[u]
        /\ thread'[t].at = "insert" /\ thread'[t].fd = thread[t].fd
        /\ thread'[t].peer = o /\ thread'[t].conn = new
    <3>1. thread' = [thread EXCEPT ![t].at = "insert", ![t].peer = o, ![t].conn = new]
      BY <1>5, <2>2 DEF p
    <3> QED BY <1>2, <2>1, <3>1, Typed, SMTT(30) DEF LoopType, ThreadRecords, Stages
  <2>5. LoopType' /\ PollInv'
    BY <1>1, <2>3, <2>4, Typed, SMTT(30) DEF LoopType, PollInv
  <2>6. HandsInv'
    <3>1. \A u \in Threads : u # t => Hand(u)'
      BY <1>1, <2>3, <2>4, SameHand
    <3>2. Hand(t)'
      BY <1>1, <1>2, <1>4, <2>1, <2>2, <2>3, <2>4, FdFacts DEF Hand, Holds, Registers
    <3> QED BY <3>1, <3>2 DEF HandsInv
  <2>7. ApartInv'
    BY <1>1, <2>1, <2>4, Typed, SMTT(30) DEF ApartInv, Holds, Registers
  <2>8. ServedInv'
    <3> SUFFICES ASSUME NEW q \in 1..Len(dev.peer), dev'.peer[q].conn # NoFd
                 PROVE  /\ \/ events[dev'.peer[q].conn] = ConnEvent(q)
                           \/ \E u \in Threads : thread'[u].at = "insert" /\ thread'[u].peer = q
                        /\ Live(dev', q) \/ q \in cleared'
      BY <1>1, <2>3 DEF ServedInv
    <3>1. CASE q = o
      BY <1>2, <2>3, <2>4, <3>1
    <3>2. CASE q # o
      <4>1. dev'.peer[q] = dev.peer[q]
        BY <2>3, <3>2
      <4>2. \A u \in Threads : thread[u].at = "insert" => thread'[u] = thread[u]
        BY <1>1, <2>4
      <4> QED BY <1>1, <2>3, <4>1, <4>2, Typed, SMTT(30) DEF ServedInv
    <3> QED BY <3>1, <3>2
  <2> QED BY <1>1, <2>3, <2>5, <2>6, <2>7, <2>8, Typed DEF DeviceInv
<1>6. CASE /\ dev' = [dev EXCEPT !.peer[o] = known]
           /\ thread' = [thread EXCEPT ![t].at = "done"]
  <2> HIDE DEF known
  <2>1. /\ DevInv(dev') /\ \A q : Live(dev', q) <=> Live(dev, q)
        /\ Len(dev'.peer) = Len(dev.peer)
        /\ \A q \in 1..Len(dev.peer) : dev'.peer[q] = IF q = o THEN known ELSE dev.peer[q]
        /\ \A fd \in Fds : IsShutDown(fd) => IsShutDown(fd)'
        /\ \A u \in Threads : Registers(u) => dev'.peer[thread[u].peer].conn = thread[u].conn
    BY <1>1, <1>2, <1>3, <1>6, EndpointMoves
  <2>2. /\ thread' \in [Threads -> ThreadRecords]
        /\ \A u \in Threads : u # t => thread'[u] = thread[u]
        /\ thread'[t].at = "done" /\ thread'[t].fd = thread[t].fd
        /\ thread'[t].peer = 0 /\ thread'[t].conn = NoFd
    BY <1>4, <1>6, Typed DEF LoopType, ThreadRecords, Stages
  <2>3. LoopType' /\ PollInv'
    BY <1>1, <2>1, <2>2, Typed, SMTT(30) DEF LoopType, PollInv
  <2>4. HandsInv'
    <3>1. \A u \in Threads : u # t => Hand(u)'
      BY <1>1, <2>1, <2>2, SameHand
    <3>2. Hand(t)'
      BY <1>1, <1>4, <2>2, FdFacts DEF Hand, Holds, Registers
    <3> QED BY <3>1, <3>2 DEF HandsInv
  <2>5. ApartInv'
    BY <1>1, <1>4, <2>2, Typed, SMTT(30) DEF ApartInv, Holds, Registers
  <2>6. ServedInv'
    <3>1. \A u \in Threads : thread[u].at = "insert" => thread'[u] = thread[u]
      BY <1>1, <2>2
    <3>2. \A q \in 1..Len(dev.peer) :
            dev'.peer[q].conn # NoFd => dev'.peer[q].conn = dev.peer[q].conn
      BY <1>3, <2>1
    <3> SUFFICES ASSUME NEW q \in 1..Len(dev.peer), dev'.peer[q].conn # NoFd
                 PROVE  /\ \/ events[dev'.peer[q].conn] = ConnEvent(q)
                           \/ \E u \in Threads : thread'[u].at = "insert" /\ thread'[u].peer = q
                        /\ Live(dev', q) \/ q \in cleared'
      BY <1>1, <2>1 DEF ServedInv
    <3>3. /\ dev'.peer[q].conn = dev.peer[q].conn
          /\ \/ events[dev.peer[q].conn] = ConnEvent(q)
             \/ \E u \in Threads : thread[u].at = "insert" /\ thread[u].peer = q
          /\ Live(dev, q) \/ q \in cleared
      BY <3>2, Typed DEF ServedInv
    <3>4. Live(dev', q) \/ q \in cleared'
      BY <1>1, <2>1, <3>3
    <3> QED BY <3>1, <3>3, <3>4
  <2> QED BY <1>1, <2>1, <2>3, <2>4, <2>5, <2>6, Typed DEF DeviceInv
<1> QED BY <1>5, <1>6 DEF udp_packet

LEMMA InsertAtInv ==
  ASSUME DeviceInv, NEW t \in Threads, insert_at(t)
  PROVE  DeviceInv'
<1> DEFINE c == thread[t].conn
           o == thread[t].peer
<1>1. /\ thread[t].at = "insert" /\ \A u \in Threads : thread[u].at # "del"
      /\ events' = [events EXCEPT ![c] = ConnEvent(o)]
      /\ thread' = [thread EXCEPT ![t].at = "add"]
      /\ dev' = dev /\ udp4' = udp4 /\ interest' = interest
      /\ cleared' = cleared /\ panicked' = panicked
  BY DEF insert_at
<1>2. /\ c \in Fds /\ o \in 1..Len(dev.peer) /\ dev.peer[o].conn = c
      /\ events[c] = NoEvent /\ interest[thread[t].fd] = "disarmed"
      /\ events[thread[t].fd] # NoEvent /\ thread[t].fd \in Fds
  BY <1>1, Typed DEF HandsInv, Hand, Registers, Holds, ThreadRecords
<1>3. interest[c] = "absent"
  BY <1>2, Typed DEF PollInv
<1>4. /\ thread' \in [Threads -> ThreadRecords]
      /\ \A u \in Threads : u # t => thread'[u] = thread[u]
      /\ thread'[t].at = "add" /\ thread'[t].fd = thread[t].fd
      /\ thread'[t].peer = o /\ thread'[t].conn = c
  BY <1>1, Typed DEF LoopType, ThreadRecords, Stages
<1>5. \A u \in Threads : u # t /\ Registers(u) => thread[u].conn # c
  BY <1>1, Typed DEF ApartInv, Registers
<1> HIDE DEF c, o
<1>6. /\ events' \in [Fds -> EventRecords] /\ events'[c] = ConnEvent(o)
      /\ \A fd \in Fds : fd # c => events'[fd] = events[fd]
      /\ ConnEvent(o) # NoEvent /\ ConnEvent(o).kind = "conn" /\ ConnEvent(o).peer = o
  BY <1>1, <1>2, Typed, EventFacts, SMTT(30) DEF LoopType
<1>7. LoopType'
  BY <1>1, <1>2, <1>4, <1>6, Typed DEF LoopType
<1>8. ASSUME NEW u \in Threads, u # t PROVE Hand(u)'
  <2>1. Hand(u) /\ thread'[u] = thread[u] /\ thread[u] \in ThreadRecords
    BY <1>4, <1>8, Typed DEF HandsInv
  <2>2. Holds(u) => thread[u].fd \in Fds /\ thread[u].fd # c
    BY <1>2, <2>1, FdFacts DEF Hand, Holds, ThreadRecords
  <2>3. thread[u].at = "eof" => IsShutDown(thread[u].fd)'
    BY <1>1, <1>6, <2>1, <2>2 DEF Hand, Holds, IsShutDown
  <2> QED BY <1>1, <1>5, <1>6, <1>8, <2>1, <2>2, <2>3 DEF Hand, Holds, Registers
<1>9. Hand(t)'
  BY <1>1, <1>2, <1>3, <1>4, <1>6, FdFacts, SMTT(30) DEF Hand, Holds, Registers
<1>10. ApartInv'
  BY <1>1, <1>4, <1>5, Typed, SMTT(30) DEF ApartInv, Holds, Registers
<1>11. PollInv'
  BY <1>1, <1>2, <1>3, <1>4, <1>6, Typed, SMTT(30) DEF PollInv
<1>12. ServedInv'
  <2> SUFFICES ASSUME NEW q \in 1..Len(dev.peer), dev.peer[q].conn # NoFd
               PROVE  /\ \/ events'[dev.peer[q].conn] = ConnEvent(q)
                         \/ \E u \in Threads : thread'[u].at = "insert" /\ thread'[u].peer = q
                      /\ Live(dev, q) \/ q \in cleared
    BY <1>1 DEF ServedInv
  <2>1. dev.peer[q].conn \in Fds
    BY Typed, PeerTypes
  <2>2. CASE events[dev.peer[q].conn] = ConnEvent(q)
    <3>1. dev.peer[q].conn # c
      BY <1>2, <2>2, EventFacts, SMTT(30)
    <3> QED BY <1>6, <2>1, <2>2, <3>1, Typed DEF ServedInv
  <2>3. ASSUME NEW u \in Threads, thread[u].at = "insert", thread[u].peer = q
        PROVE  \/ events'[dev.peer[q].conn] = ConnEvent(q)
               \/ \E v \in Threads : thread'[v].at = "insert" /\ thread'[v].peer = q
    BY <1>2, <1>4, <1>6, <2>3 DEF o
  <2> QED BY <2>2, <2>3, Typed DEF ServedInv
<1> QED BY <1>1, <1>7, <1>8, <1>9, <1>10, <1>11, <1>12, Typed DEF DeviceInv, HandsInv

LEMMA RegisterEventInv ==
  ASSUME DeviceInv, NEW t \in Threads, register_event(t)
  PROVE  DeviceInv'
<1> DEFINE c == thread[t].conn
<1>1. /\ thread[t].at = "add"
      /\ interest' = [interest EXCEPT ![c] = "armed"]
      /\ thread' = [thread EXCEPT ![t].at = "done", ![t].peer = 0, ![t].conn = NoFd]
      /\ dev' = dev /\ udp4' = udp4 /\ events' = events
      /\ cleared' = cleared /\ panicked' = panicked
  BY DEF register_event
<1>2. /\ c \in Fds /\ thread[t].peer \in 1..Len(dev.peer)
      /\ events[c] = ConnEvent(thread[t].peer) /\ interest[c] = "absent"
      /\ interest[thread[t].fd] = "disarmed"
      /\ events[thread[t].fd] # NoEvent /\ thread[t].fd \in Fds
  BY <1>1, Typed DEF HandsInv, Hand, Registers, Holds, ThreadRecords
<1>3. events[c] # NoEvent
  BY <1>2, EventFacts, SMTT(30)
<1>4. /\ thread' \in [Threads -> ThreadRecords]
      /\ \A u \in Threads : u # t => thread'[u] = thread[u]
      /\ thread'[t].at = "done" /\ thread'[t].fd = thread[t].fd
      /\ thread'[t].peer = 0 /\ thread'[t].conn = NoFd
  BY <1>1, Typed DEF LoopType, ThreadRecords, Stages
<1>5. \A u \in Threads : u # t /\ Registers(u) => thread[u].conn # c
  BY <1>1, Typed DEF ApartInv, Registers
<1>6. /\ interest' \in [Fds -> {"absent", "armed", "disarmed"}] /\ interest'[c] = "armed"
      /\ \A fd \in Fds : fd # c => interest'[fd] = interest[fd]
  BY <1>1, <1>2, Typed DEF LoopType
<1>7. LoopType'
  BY <1>1, <1>4, <1>6, Typed DEF LoopType
<1>8. \A u \in Threads : thread[u].at = "add" /\ thread[u].conn = c => u = t
  BY <1>5 DEF Registers
<1>9. PollInv'
  BY <1>1, <1>3, <1>4, <1>6, <1>8, Typed, SMTT(30) DEF PollInv
<1> HIDE DEF c
<1>10. ASSUME NEW u \in Threads, u # t PROVE Hand(u)'
  <2>1. Hand(u) /\ thread'[u] = thread[u] /\ thread[u] \in ThreadRecords
    BY <1>4, <1>10, Typed DEF HandsInv
  <2>2. thread[u].fd \in Fds \union {NoFd} /\ (Holds(u) => thread[u].fd # c)
        /\ (thread[u].at = "del" => thread[u].fd # c)
    BY <1>2, <1>3, <2>1 DEF Hand, ThreadRecords
  <2>3. thread[u].at = "eof" => IsShutDown(thread[u].fd)'
    BY <1>1, <2>1 DEF Hand, IsShutDown
  <2>4. /\ Holds(u) => interest'[thread[u].fd] = "disarmed"
        /\ thread[u].at = "del" => interest'[thread[u].fd] = "absent"
    BY <1>6, <2>1, <2>2, FdFacts DEF Hand, Holds
  <2>5. thread[u].at = "add" => interest'[thread[u].conn] = "absent"
    BY <1>5, <1>6, <1>10, <2>1 DEF Hand, Registers
  <2> QED BY <1>1, <2>1, <2>3, <2>4, <2>5 DEF Hand, Holds, Registers
<1>11. Hand(t)'
  BY <1>1, <1>2, <1>4, <1>6, FdFacts, SMTT(30) DEF Hand, Holds, Registers
<1>12. ApartInv'
  <2>1. \A u \in Threads : Registers(u) => thread[u].conn # NoFd
    BY Typed, FdFacts DEF HandsInv, Hand
  <2> QED BY <1>1, <1>4, <2>1, Typed, SMTT(30) DEF ApartInv, Holds, Registers
<1>13. ServedInv'
  BY <1>1, <1>4, Typed DEF ServedInv
<1> QED BY <1>1, <1>7, <1>9, <1>10, <1>11, <1>12, <1>13, Typed DEF DeviceInv, HandsInv

LEMMA ClearEventByFdInv ==
  ASSUME DeviceInv, NEW t \in Threads, clear_event_by_fd(t)
  PROVE  DeviceInv'
<1> DEFINE f == thread[t].fd
<1>1. /\ thread[t].at = "eof" /\ \A u \in Threads : thread[u].at # "del"
      /\ events' = [events EXCEPT ![f] = NoEvent]
      /\ interest' = [interest EXCEPT ![f] = "absent"]
      /\ thread' = [thread EXCEPT ![t].at = "del"]
      /\ dev' = dev /\ udp4' = udp4 /\ cleared' = cleared /\ panicked' = panicked
  BY DEF clear_event_by_fd
<1>2. /\ f \in Fds /\ interest[f] = "disarmed" /\ events[f] # NoEvent /\ IsShutDown(f)
      /\ thread[t].peer = 0 /\ thread[t].conn = NoFd
  BY <1>1, Typed DEF HandsInv, Hand, Registers, Holds, ThreadRecords
<1>3. \A u \in Threads : u # t /\ Holds(u) => thread[u].fd # f
  BY <1>1, Typed DEF ApartInv, Holds
<1>4. /\ thread' \in [Threads -> ThreadRecords]
      /\ \A u \in Threads : u # t => thread'[u] = thread[u]
      /\ thread'[t].at = "del" /\ thread'[t].fd = f
      /\ thread'[t].peer = 0 /\ thread'[t].conn = NoFd
  BY <1>1, <1>2, Typed DEF LoopType, ThreadRecords, Stages
<1> HIDE DEF f
<1>5. /\ interest' \in [Fds -> {"absent", "armed", "disarmed"}] /\ interest'[f] = "absent"
      /\ \A fd \in Fds : fd # f => interest'[fd] = interest[fd]
      /\ events' \in [Fds -> EventRecords] /\ events'[f] = NoEvent
      /\ \A fd \in Fds : fd # f => events'[fd] = events[fd]
  BY <1>1, <1>2, Typed, EventFacts DEF LoopType
<1>6. LoopType'
  BY <1>1, <1>4, <1>5, Typed DEF LoopType
<1>7. ASSUME NEW u \in Threads, u # t PROVE Hand(u)'
  <2>1. Hand(u) /\ thread'[u] = thread[u] /\ thread[u] \in ThreadRecords
    BY <1>4, <1>7, Typed DEF HandsInv
  <2>2. Holds(u) => thread[u].fd \in Fds /\ thread[u].fd # f
    BY <1>3, <1>7, <2>1 DEF Hand, Holds, ThreadRecords
  <2>3. thread[u].at = "eof" => IsShutDown(thread[u].fd)'
    BY <1>1, <1>5, <2>1, <2>2 DEF Hand, Holds, IsShutDown
  <2>4. thread[u].at = "add" => thread[u].conn # f
    BY <1>2, <2>1 DEF Hand
  <2>5. Holds(u) => /\ interest'[thread[u].fd] = "disarmed"
                    /\ events'[thread[u].fd] # NoEvent
    BY <1>5, <2>1, <2>2 DEF Hand
  <2>6. Registers(u) => thread[u].conn \in Fds
    BY <2>1 DEF Hand
  <2>7. /\ thread[u].at = "insert" => events'[thread[u].conn] = NoEvent
        /\ thread[u].at = "add" => /\ events'[thread[u].conn] = ConnEvent(thread[u].peer)
                                   /\ interest'[thread[u].conn] = "absent"
    BY <1>5, <2>1, <2>4, <2>6 DEF Hand, Registers
  <2> QED BY <1>1, <2>1, <2>3, <2>5, <2>7 DEF Hand, Holds, Registers
<1>8. Hand(t)'
  BY <1>2, <1>4, <1>5, FdFacts DEF Hand, Holds, Registers
<1>9. ApartInv'
  <2>1. \A u \in Threads : Registers(u) => thread[u].conn # NoFd
    BY Typed, FdFacts DEF HandsInv, Hand
  <2> QED BY <1>1, <1>4, <2>1, Typed, SMTT(30) DEF ApartInv, Holds, Registers
<1>10. PollInv'
  <2>1. \A u \in Threads : thread[u].at = "add" => u # t
    BY <1>1
  <2> QED BY <1>4, <1>5, <2>1, Typed, SMTT(30) DEF PollInv
<1>11. ServedInv'
  <2>1. \A q \in 1..Len(dev.peer) :
          dev.peer[q].conn # NoFd /\ events[dev.peer[q].conn] = ConnEvent(q) =>
            dev.peer[q].conn \in Fds /\ dev.peer[q].conn # f
    BY <1>2, Typed, PeerTypes, EventFacts, SMTT(30) DEF IsShutDown
  <2>2. \A u \in Threads : thread[u].at = "insert" => u # t
    BY <1>1
  <2> QED BY <1>1, <1>4, <1>5, <2>1, <2>2, Typed, SMTT(30) DEF ServedInv
<1> QED BY <1>1, <1>6, <1>7, <1>8, <1>9, <1>10, <1>11, Typed DEF DeviceInv, HandsInv

LEMMA EpollCtlDelInv ==
  ASSUME DeviceInv, NEW t \in Threads, epoll_ctl_del(t)
  PROVE  DeviceInv'
<1>1. /\ thread[t].at = "del"
      /\ interest' = [interest EXCEPT ![thread[t].fd] = "absent"]
      /\ thread' = [thread EXCEPT ![t] = Waiting]
      /\ dev' = dev /\ udp4' = udp4 /\ events' = events
      /\ cleared' = cleared /\ panicked' = panicked
  BY DEF epoll_ctl_del
<1>2. thread[t].fd \in Fds /\ interest[thread[t].fd] = "absent"
  BY <1>1, Typed DEF HandsInv, Hand, ThreadRecords
<1>3. interest' = interest
  BY <1>1, <1>2, Typed DEF LoopType
<1>4. /\ thread' \in [Threads -> ThreadRecords]
      /\ \A u \in Threads : u # t => thread'[u] = thread[u]
      /\ thread'[t].at = "wait" /\ thread'[t].fd = NoFd
      /\ thread'[t].peer = 0 /\ thread'[t].conn = NoFd
  BY <1>1, Typed DEF LoopType, ThreadRecords, Stages, Waiting
<1>5. LoopType'
  BY <1>1, <1>3, <1>4, Typed DEF LoopType
<1>6. \A u \in Threads : u # t => Hand(u)'
  <2>1. \A fd : IsShutDown(fd) => IsShutDown(fd)'
    BY <1>1 DEF IsShutDown
  <2>2. \A u \in Threads : Registers(u) => dev'.peer[thread[u].peer].conn = thread[u].conn
    BY <1>1, Typed DEF HandsInv, Hand
  <2> QED BY <1>1, <1>3, <1>4, <2>1, <2>2, SameHand
<1>7. Hand(t)'
  BY <1>4 DEF Hand, Holds, Registers
<1>8. ApartInv'
  <2>1. \A u \in Threads : Registers(u) => thread[u].conn # NoFd
    BY Typed, FdFacts DEF HandsInv, Hand
  <2> QED BY <1>1, <1>4, <2>1, Typed, SMTT(30) DEF ApartInv, Holds, Registers
<1>9. PollInv' /\ ServedInv'
  BY <1>1, <1>3, <1>4, Typed, SMTT(30) DEF PollInv, ServedInv
<1> QED BY <1>1, <1>5, <1>6, <1>7, <1>8, <1>9, Typed DEF DeviceInv, HandsInv

-----------------------------------------------------------------------------
(* The theorems *)

LEMMA NextDevice == DeviceInv /\ [Next]_vars => DeviceInv'
<1> SUFFICES ASSUME DeviceInv, [Next]_vars PROVE DeviceInv'
  OBVIOUS
<1>1. CASE \E request \in Requests : api_set_peer(request)
  BY <1>1, ApiSetPeerInv
<1>2. CASE clear_peers
  BY <1>2, ClearPeersInv
<1>3. CASE set_key
  BY <1>3, SetKeyInv
<1>4. CASE \E bound \in BOOLEAN : open_listen_socket(bound)
  BY <1>4, OpenListenSocketInv
<1>5. ASSUME NEW t \in Threads,
             \/ \E fd \in Fds : wait(t, fd)
             \/ finish(t)
             \/ handler_panics(t)
             \/ \E o \in PeerIds, moved \in BOOLEAN : udp_packet(t, o, moved)
             \/ insert_at(t) \/ register_event(t)
             \/ clear_event_by_fd(t) \/ epoll_ctl_del(t)
             \/ \E o \in PeerIds : connection_expires(t, o)
      PROVE  DeviceInv'
  BY <1>5, WaitInv, FinishInv, HandlerPanicsInv, UdpPacketInv, InsertAtInv,
     RegisterEventInv, ClearEventByFdInv, EpollCtlDelInv, ConnectionExpiresInv
<1>6. CASE UNCHANGED vars
  <2>1. /\ dev' = dev /\ udp4' = udp4 /\ events' = events /\ interest' = interest
        /\ thread' = thread /\ cleared' = cleared /\ panicked' = panicked
    BY <1>6 DEF vars
  <2>2. LoopType' /\ HandsInv' /\ ApartInv' /\ PollInv' /\ ServedInv'
    <3>1. LoopType' /\ PollInv' /\ ServedInv'
      BY <2>1, Typed, SMTT(30) DEF LoopType, PollInv, ServedInv
    <3>2. HandsInv'
      BY <2>1, Typed DEF HandsInv, Hand, Holds, Registers, IsShutDown
    <3>3. ApartInv'
      BY <2>1, Typed DEF ApartInv, Holds, Registers
    <3> QED BY <3>1, <3>2, <3>3
  <2> QED BY <2>1, <2>2, Typed DEF DeviceInv
<1> QED BY <1>1, <1>2, <1>3, <1>4, <1>5, <1>6 DEF Next

LEMMA DeviceKeepsInv == Spec => []DeviceInv
BY InitDevice, NextDevice, PTL DEF Spec

(* However many threads wait on one epoll instance, a thread that handles  *)
(* an event is the only one that does, and the event is not freed under    *)
(* it: EPOLLONESHOT and the order in which EventGuard is dropped are       *)
(* enough (epoll.rs).                                                      *)
THEOREM EventsAreHeldByOne == Spec => []GuardsAreLive
<1>1. DeviceInv => GuardsAreLive
  BY DEF DeviceInv, HandsInv, Hand, ApartInv, GuardsAreLive
<1> QED BY <1>1, DeviceKeepsInv, PTL

(* epoll polls the events of the vector and no other, also when the number *)
(* of a socket that is being cleared is already a new socket's: the vector *)
(* is locked from the removal to EPOLL_CTL_DEL (clear_event_by_fd).        *)
THEOREM PollFollowsEvents == Spec => []PollMatchesEvents
<1>1. DeviceInv => PollMatchesEvents
  <2> SUFFICES ASSUME DeviceInv, NEW fd \in Fds
               PROVE  (events[fd] # NoEvent
                         /\ \A t \in Threads : ~ (thread[t].at = "add" /\ thread[t].conn = fd))
                        <=> interest[fd] # "absent"
    BY DEF PollMatchesEvents
  <2>1. /\ interest[fd] # "absent" => events[fd] # NoEvent
        /\ events[fd] # NoEvent /\ interest[fd] = "absent" =>
             \E t \in Threads : thread[t].at = "add" /\ thread[t].conn = fd
    BY DEF DeviceInv, PollInv
  <2>2. \A t \in Threads : thread[t].at = "add" /\ thread[t].conn = fd => interest[fd] = "absent"
    BY DEF DeviceInv, HandsInv, Hand
  <2> QED BY <2>1, <2>2
<1> QED BY <1>1, DeviceKeepsInv, PTL

(* A peer's connected socket has the peer's own event, or a thread is      *)
(* about to register it, and it is a peer of the device or one that        *)
(* replace_peers has dropped (connect_endpoint, shutdown_endpoint,         *)
(* remove_peer, clear_peers).                                              *)
THEOREM SocketsAreServed == Spec => []ConnectedIsServed
<1>1. DeviceInv => ConnectedIsServed
  <2> SUFFICES ASSUME DeviceInv PROVE ConnectedIsServed
    OBVIOUS
  <2>1. DOMAIN dev.peers = Keys /\ PeerIds = 1..Len(dev.peer)
    BY Typed, SMTT(30) DEF Devices, PeerIds
  <2>2. \A o : Live(dev, o) => o \in Range(dev.peers)
    BY <2>1 DEF Live, Range
  <2> QED BY <2>1, <2>2, Typed DEF ServedInv, ConnectedIsServed
<1> QED BY <1>1, DeviceKeepsInv, PTL

(* After any sequence of requests, for any number of peers, bits and       *)
(* networks, the tables by key, by index and by address tell of the same   *)
(* peers: no index is given out twice while its peer is there, because the *)
(* register does not come round, and an address leads to a peer that       *)
(* allows it (update_peer, remove_peer, clear_peers, AllowedIps).          *)
THEOREM PeerTablesAgree == Spec => []TablesAgree
<1>1. DeviceInv => TablesAgree
  <2> SUFFICES ASSUME DeviceInv PROVE TablesAgree
    OBVIOUS
  <2>1. ByKey(dev) /\ ByIndex(dev) /\ ByNetwork(dev) /\ dev.peers_by_ip \in Tables
    BY Typed DEF DevInv, Devices
  <2>2. DOMAIN dev.peers = Keys
    BY Typed DEF Devices
  <2>3. \A o : Live(dev, o) => o \in Range(dev.peers)
    BY <2>2 DEF Live, Range
  <2>4. \A i \in Indices : dev.peers_by_idx[i] \in Range(dev.peers) \union {0}
    BY <2>1, <2>3 DEF ByIndex
  <2>5. ASSUME NEW a \in Addresses, find(dev.peers_by_ip, a, 0) # 0
        PROVE  LET o == find(dev.peers_by_ip, a, 0)
               IN  /\ o \in Range(dev.peers)
                   /\ \E net \in dev.peer[o].allowed_ips : Covers(net, a)
    <3>1. PICK n \in DOMAIN dev.peers_by_ip :
            find(dev.peers_by_ip, a, 0) = dev.peers_by_ip[n] /\ Covers(n, a)
      <4>1. DOMAIN dev.peers_by_ip \subseteq Networks
        BY <2>1 DEF Tables
      <4> QED BY <2>5, <4>1, FoundCovers
    <3>2. PICK own \in dev.peer[dev.peers_by_ip[n]].allowed_ips : Truncated(own) = n
      BY <2>1, <3>1 DEF ByNetwork
    <3>3. dev.peers_by_ip[n] \in Range(dev.peers)
      BY <2>1, <2>3, <3>1 DEF ByNetwork
    <3>4. own \in Networks
      <4>1. dev.peers_by_ip[n] \in 1..Len(dev.peer)
        BY <2>1, <3>1 DEF ByNetwork, ByKey, Live
      <4> QED BY <3>2, <4>1, Typed, PeerTypes DEF Peer
    <3>5. Covers(own, a)
      BY <3>1, <3>2, <3>4, TruncatedCovers
    <3> QED BY <3>1, <3>2, <3>3, <3>5
  <2> QED BY <2>1, <2>4, <2>5 DEF ByKey, TablesAgree
<1> QED BY <1>1, DeviceKeepsInv, PTL

(* No index is given out twice, not even when the first peer to have it    *)
(* has gone, so that a packet for an old peer never finds a new one: the   *)
(* register is a permutation of the numbers but 0, and it panics before it *)
(* is back at its seed (IndexLfsr::next).                                  *)
THEOREM IndicesAreFresh ==
  Spec => [](\A o, q \in PeerIds : dev.peer[o].index = dev.peer[q].index => o = q)
<1>1. DeviceInv => \A o, q \in PeerIds : dev.peer[o].index = dev.peer[q].index => o = q
  <2> SUFFICES ASSUME DeviceInv, NEW o \in PeerIds, NEW q \in PeerIds,
                      dev.peer[o].index = dev.peer[q].index
               PROVE  o = q
    OBVIOUS
  <2>1. o \in 1..Len(dev.peer) /\ q \in 1..Len(dev.peer) /\ Len(dev.peer) \in Nat
    BY Typed, SMTT(30) DEF PeerIds, Devices
  <2>2. PICK v : IsTrail(dev, v)
    BY Typed DEF DevInv, Trail
  <2>3. /\ v[o] \in random_index /\ v[q] \in random_index
        /\ dev.peer[o].index = Xor(Decrement(v[o]), Mask)
        /\ dev.peer[q].index = Xor(Decrement(v[q]), Mask)
        /\ v[o] = v[q] => o = q
    <3>1. o \in 1..(Len(dev.peer) + 1) /\ q \in 1..(Len(dev.peer) + 1)
      BY <2>1, SMTT(30)
    <3>2. /\ v \in [1..(Len(dev.peer) + 1) -> random_index]
          /\ \A i \in 1..Len(dev.peer) : dev.peer[i].index = Xor(Decrement(v[i]), Mask)
          /\ \A i, j \in 1..(Len(dev.peer) + 1) : v[i] = v[j] => i = j
      BY <2>2 DEF IsTrail
    <3> QED BY <2>1, <3>1, <3>2
  <2>4. Decrement(v[o]) = Decrement(v[q])
    BY <2>3, XorInjective
  <2> QED BY <2>3, <2>4, DecrementInjective
<1> QED BY <1>1, DeviceKeepsInv, PTL

=============================================================================
