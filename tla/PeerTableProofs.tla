--------------------------- MODULE PeerTableProofs --------------------------
(***************************************************************************)
(* Proofs about the peers of the device: what adding and removing a peer,  *)
(* a section of a UAPI request and a change of endpoint do to the tables   *)
(* by key, by index and by network, and why no index is given out twice.   *)
(* For any keys and requests and any width of addresses and of indices.    *)
(***************************************************************************)
EXTENDS Device, WellFoundedInduction, TLAPS

(* A step that names no prover is left to Zenon.                           *)
USE ZenonT(30)

-----------------------------------------------------------------------------
(* Least numbers *)

(* Every set of natural numbers but the empty one has a least member, and  *)
(* a set with 0 in it, and with n also n + 1, has them all.                *)
LEMMA Least ==
  ASSUME NEW S, S \subseteq Nat, S # {}
  PROVE  \E n \in S : \A m \in S : n <= m
<1> DEFINE less == {p \in Nat \X Nat : p[1] < p[2]}
<1>1. less = OpToRel(<, Nat)
  BY DEF OpToRel
<1>2. IsWellFoundedOn(less, Nat)
  BY <1>1, NatLessThanWellFounded
<1>3. PICK n \in S : \A m \in S : ~ (<<m, n>> \in less)
  <2> HIDE DEF less
  <2> QED BY <1>2, WFMin
<1>4. \A m \in S : m < n => <<m, n>> \in less
  BY S \subseteq Nat
<1>5. \A m \in S : n <= m
  <2> HIDE DEF less
  <2>1. \A m \in S : ~ (m < n)
    BY <1>3, <1>4
  <2> QED BY <2>1, S \subseteq Nat, SMTT(30)
<1> QED BY <1>5

LEMMA Induction ==
  ASSUME NEW S, 0 \in S, \A n \in Nat : n \in S => n + 1 \in S
  PROVE  Nat \subseteq S
<1> SUFFICES ASSUME Nat \ S # {} PROVE FALSE
  OBVIOUS
<1>1. PICK n \in Nat \ S : \A m \in Nat \ S : n <= m
  BY Least
<1>2. n - 1 \in Nat /\ n - 1 \in S
  BY <1>1, SMTT(30)
<1> QED BY <1>2, SMTT(30)

LEMMA LowestIn ==
  ASSUME NEW S, S \subseteq Nat, S # {}
  PROVE  Lowest(S) \in S
BY Least DEF Lowest

-----------------------------------------------------------------------------
(* The index register *)

LEMMA TopBit ==
  /\ IndexBits - 1 \in Bits /\ IndexBits - 1 \in LfsrPoly
  /\ LfsrPoly \subseteq Bits /\ Bits \subseteq Nat
  /\ \A v \in Indices : IndexBits \notin v
BY IndexLfsrAssumption, SMTT(30) DEF Bits, Indices

(* A shift sets the top bit if and only if it drops a one, so that nothing *)
(* is lost: the register can be run backwards.                             *)
LEMMA ShiftedTop ==
  ASSUME NEW v \in Indices
  PROVE  IndexBits - 1 \in Shifted(v) <=> 0 \in v
<1>1. IndexBits - 1 \notin {i \in Bits : i + 1 \in v}
  BY TopBit, IndexLfsrAssumption, SMTT(30)
<1> QED BY <1>1, TopBit DEF Shifted, Xor

LEMMA ShiftedType ==
  ASSUME NEW v \in random_index
  PROVE  Shifted(v) \in random_index
<1>1. v \subseteq Bits /\ v # {} /\ v \in Indices
  BY DEF random_index, Indices
<1>2. Shifted(v) \subseteq Bits
  BY TopBit DEF Shifted, Xor
<1>3. CASE 0 \in v
  BY <1>1, <1>2, <1>3, ShiftedTop DEF random_index, Indices
<1>4. CASE 0 \notin v
  <2>1. PICK i \in v : TRUE
    BY <1>1
  <2>2. i - 1 \in Bits /\ (i - 1) + 1 = i
    BY <1>1, <1>4, <2>1, IndexLfsrAssumption, SMTT(30) DEF Bits
  <2>3. i - 1 \in Shifted(v)
    BY <1>4, <2>1, <2>2 DEF Shifted, Xor
  <2> QED BY <1>2, <2>3 DEF random_index, Indices
<1> QED BY <1>3, <1>4

LEMMA ShiftedInjective ==
  ASSUME NEW v \in Indices, NEW w \in Indices, Shifted(v) = Shifted(w)
  PROVE  v = w
<1> DEFINE half(x) == {i \in Bits : i + 1 \in x}
           flip(x) == IF 0 \in x THEN LfsrPoly ELSE {}
<1>1. 0 \in v <=> 0 \in w
  BY ShiftedTop
<1>2. flip(v) = flip(w)
  BY <1>1
<1>3. Xor(half(v), flip(v)) = Xor(half(w), flip(v))
  BY <1>2 DEF Shifted
<1>4. half(v) = half(w)
  <2> HIDE DEF half, flip
  <2> QED BY <1>3 DEF Xor
<1>5. \A i \in Bits : i # 0 => i - 1 \in Bits /\ (i - 1) + 1 = i
  BY IndexLfsrAssumption, SMTT(30) DEF Bits
<1>6. \A i \in Bits : i # 0 => (i \in v <=> i \in w)
  BY <1>4, <1>5
<1> QED BY <1>1, <1>6, SMTT(30) DEF Indices

(* Numbers above 0 differ when they differ after minus one.                *)
LEMMA DecrementInjective ==
  ASSUME NEW v \in random_index, NEW w \in random_index, Decrement(v) = Decrement(w)
  PROVE  v = w
<1>1. v \subseteq Bits /\ v # {} /\ w \subseteq Bits /\ w # {} /\ Bits \subseteq Nat
  BY TopBit DEF random_index, Indices
<1>2. PICK k \in v : \A j \in v : k <= j
  BY <1>1, Least
<1>3. PICK l \in w : \A j \in w : l <= j
  BY <1>1, Least
<1>4. k \in Bits /\ l \in Bits /\ k \in Nat /\ l \in Nat
  BY <1>1
<1>5. k \notin Decrement(v) /\ l \notin Decrement(w)
  BY <1>1, <1>2, <1>3, <1>4, SMTT(30) DEF Decrement
<1>6. \A i \in Bits : /\ i < k => i \in Decrement(v)
                      /\ i < l => i \in Decrement(w)
  BY <1>1, <1>2, <1>3, <1>4, SMTT(30) DEF Decrement
<1>7. k = l
  BY <1>4, <1>5, <1>6, SMTT(30)
<1>8. \A i \in Bits : i > k => /\ i \in v <=> i \in Decrement(v)
                               /\ i \in w <=> i \in Decrement(w)
  BY <1>1, <1>2, <1>3, <1>4, <1>7 DEF Decrement
<1>9. \A i \in Bits : i \in v <=> i \in w
  <2> TAKE i \in Bits
  <2>1. i \in Nat
    BY <1>1
  <2>2. CASE i < k
    BY <1>1, <1>2, <1>3, <1>4, <1>7, <2>1, <2>2, SMTT(30)
  <2>3. CASE i = k
    BY <1>2, <1>3, <1>7, <2>3
  <2>4. CASE i > k
    BY <1>8, <2>4
  <2> QED BY <1>4, <2>1, <2>2, <2>3, <2>4, SMTT(30)
<1> QED BY <1>1, <1>9

LEMMA XorInjective ==
  ASSUME NEW a, NEW b, NEW c, Xor(a, c) = Xor(b, c)
  PROVE  a = b
BY DEF Xor

LEMMA IndexType ==
  ASSUME NEW v
  PROVE  Xor(Decrement(v), Mask) \in Indices
BY IndexLfsrAssumption DEF Xor, Decrement, Indices, random_index

-----------------------------------------------------------------------------
(* The peers *)

Peer == [key : Keys, index : Indices, allowed_ips : SUBSET Networks,
         addr : BOOLEAN, conn : Fds \union {NoFd}]

Tables == UNION {[nets -> Nat] : nets \in SUBSET Networks}
Devices ==
  [key_pair : BOOLEAN, peers : [Keys -> Nat], peers_by_idx : [Indices -> Nat],
   peers_by_ip : Tables, peer : Seq(Peer),
   next_index : [initial : {Seed}, lfsr : random_index, mask : {Mask}]]

(* The values the register has gone through: the first is the seed, the    *)
(* last its value now, each gave the index of one peer, and no two are the *)
(* same.                                                                   *)
IsTrail(d, v) ==
  /\ v \in [1..(Len(d.peer) + 1) -> random_index]
  /\ v[1] = Seed
  /\ v[Len(d.peer) + 1] = d.next_index.lfsr
  /\ \A i \in 1..Len(d.peer) : /\ v[i + 1] = Shifted(v[i])
                               /\ d.peer[i].index = Xor(Decrement(v[i]), Mask)
  /\ \A i, j \in 1..(Len(d.peer) + 1) : v[i] = v[j] => i = j
Trail(d) == \E v : IsTrail(d, v)

(* The tables of a device: by key, by index and by network.                *)
ByKey(d) ==
  \A k \in Keys : d.peers[k] # 0 =>
    /\ d.peers[k] \in 1..Len(d.peer)
    /\ d.peer[d.peers[k]].key = k
    /\ d.peers_by_idx[d.peer[d.peers[k]].index] = d.peers[k]

Live(d, o) == \E k \in Keys : d.peers[k] = o

ByIndex(d) ==
  \A i \in Indices : d.peers_by_idx[i] # 0 =>
    /\ Live(d, d.peers_by_idx[i])
    /\ d.peer[d.peers_by_idx[i]].index = i

ByNetwork(d) ==
  \A net \in DOMAIN d.peers_by_ip :
    /\ d.peers_by_ip[net] # 0
    /\ Live(d, d.peers_by_ip[net])
    /\ \E own \in d.peer[d.peers_by_ip[net]].allowed_ips : Truncated(own) = net

DevInv(d) == d \in Devices /\ Trail(d) /\ ByKey(d) /\ ByIndex(d) /\ ByNetwork(d)

-----------------------------------------------------------------------------
(* The table of networks *)

(* What find gives is stored for a network that covers the address.        *)
LEMMA FoundCovers ==
  ASSUME NEW table, DOMAIN table \subseteq Networks, NEW addr, find(table, addr, 0) # 0
  PROVE  \E n \in DOMAIN table : Covers(n, addr) /\ find(table, addr, 0) = table[n]
<1> DEFINE matches == {n \in DOMAIN table : Covers(n, addr)}
           rest == {AddrBits - n.cidr : n \in matches}
           longest(n) == \A o \in matches : o.cidr <= n.cidr
<1>1. find(table, addr, 0) =
        IF matches = {} THEN 0 ELSE table[CHOOSE n \in matches : longest(n)]
  BY DEF find
<1>2. matches # {}
  BY <1>1
<1>3. \A n \in matches : n.cidr \in Nat /\ AddrBits - n.cidr \in Nat
  BY AllowedIpsAssumption, SMTT(30) DEF Networks
<1> HIDE DEF matches
<1>4. rest \subseteq Nat /\ rest # {}
  BY <1>2, <1>3
<1>5. PICK r \in rest : \A q \in rest : r <= q
  BY <1>4, Least
<1>6. PICK n \in matches : r = AddrBits - n.cidr
  BY <1>5
<1>7. \A o \in matches : AddrBits - o.cidr \in rest
  OBVIOUS
<1>8. longest(n)
  <2> HIDE DEF rest
  <2> QED BY <1>3, <1>5, <1>6, <1>7, AllowedIpsAssumption, SMTT(30)
<1> HIDE DEF longest
<1>9. (CHOOSE x \in matches : longest(x)) \in matches
  BY <1>6, <1>8
<1> QED BY <1>1, <1>2, <1>9 DEF matches

LEMMA TruncatedCovers ==
  ASSUME NEW net \in Networks
  PROVE  /\ Truncated(net) \in Networks
         /\ \A a : Covers(Truncated(net), a) => Covers(net, a)
BY AllowedIpsAssumption DEF Truncated, Covers, Prefix, Networks, Addresses

LEMMA TableType ==
  ASSUME NEW table
  PROVE  table \in Tables <=> \E nets \in SUBSET Networks : table \in [nets -> Nat]
BY DEF Tables

LEMMA InsertTable ==
  ASSUME NEW table \in Tables, NEW nets \in SUBSET Networks, NEW o \in Nat
  PROVE  /\ insert(table, nets, o) \in Tables
         /\ \A n \in DOMAIN insert(table, nets, o) :
              \/ /\ \E own \in nets : Truncated(own) = n
                 /\ insert(table, nets, o)[n] = o
              \/ n \in DOMAIN table /\ insert(table, nets, o)[n] = table[n]
<1> DEFINE new == {Truncated(net) : net \in nets}
<1>1. PICK old \in SUBSET Networks : table \in [old -> Nat]
  BY TableType
<1>2. new \subseteq Networks
  BY TruncatedCovers
<1>3. insert(table, nets, o) =
        [n \in DOMAIN table \union new |-> IF n \in new THEN o ELSE table[n]]
  BY DEF insert
<1>4. \A n \in new : \E own \in nets : Truncated(own) = n
  OBVIOUS
<1> HIDE DEF new
<1>5. insert(table, nets, o) \in [old \union new -> Nat]
  BY <1>1, <1>3
<1>6. insert(table, nets, o) \in Tables
  BY <1>2, <1>5, TableType
<1>7. DOMAIN insert(table, nets, o) = DOMAIN table \union new
  BY <1>3
<1>8. \A n \in DOMAIN insert(table, nets, o) :
        insert(table, nets, o)[n] = IF n \in new THEN o ELSE table[n]
  BY <1>3
<1> QED BY <1>4, <1>6, <1>7, <1>8

LEMMA RemoveTable ==
  ASSUME NEW table \in Tables, NEW o
  PROVE  /\ remove(table, o) \in Tables
         /\ \A n \in DOMAIN remove(table, o) :
              n \in DOMAIN table /\ remove(table, o)[n] = table[n] /\ table[n] # o
<1> DEFINE left == {m \in DOMAIN table : table[m] # o}
<1>1. PICK old \in SUBSET Networks : table \in [old -> Nat]
  BY TableType
<1>2. remove(table, o) = [n \in left |-> table[n]]
  BY DEF remove
<1>3. /\ left \in SUBSET Networks
      /\ \A n \in left : n \in DOMAIN table /\ table[n] \in Nat /\ table[n] # o
  BY <1>1
<1> HIDE DEF left
<1>4. remove(table, o) \in [left -> Nat]
  BY <1>2, <1>3
<1> QED BY <1>2, <1>3, <1>4, TableType

-----------------------------------------------------------------------------
(* Removing and adding a peer *)

LEMMA RemoveFields ==
  ASSUME NEW d \in Devices, NEW k \in Keys, NEW o \in 1..Len(d.peer), d.peers[k] = o,
         NEW e, e = remove_peer(d, k)
  PROVE  /\ e \in Devices
         /\ e.key_pair = d.key_pair /\ e.next_index = d.next_index
         /\ \A q \in Keys : e.peers[q] = IF q = k THEN 0 ELSE d.peers[q]
         /\ \A i \in Indices :
              e.peers_by_idx[i] = IF i = d.peer[o].index THEN 0 ELSE d.peers_by_idx[i]
         /\ e.peers_by_ip = remove(d.peers_by_ip, o)
         /\ Len(e.peer) = Len(d.peer)
         /\ \A p \in 1..Len(d.peer) :
              e.peer[p] = IF p = o THEN [d.peer[o] EXCEPT !.conn = NoFd] ELSE d.peer[p]
<1>1. d.peer \in Seq(Peer) /\ o # 0
  BY SMTT(30) DEF Devices
<1>2. d.peer[o] \in Peer
  BY <1>1, SMTT(30)
<1> DEFINE i == d.peer[o].index
           ps == [d.peer EXCEPT ![o].conn = NoFd]
<1>3. i \in Indices /\ [d.peer[o] EXCEPT !.conn = NoFd] \in Peer
  BY <1>2 DEF Peer
<1>4. /\ ps \in Seq(Peer) /\ Len(ps) = Len(d.peer)
      /\ \A p \in 1..Len(d.peer) :
           ps[p] = IF p = o THEN [d.peer[o] EXCEPT !.conn = NoFd] ELSE d.peer[p]
  BY <1>1, <1>3, SMTT(30)
<1>5. remove(d.peers_by_ip, o) \in Tables
  BY RemoveTable, SMTT(30) DEF Devices
<1> DEFINE s == [d EXCEPT !.peer = ps]
<1>6. shutdown_endpoint(d, o) = s
  BY DEF shutdown_endpoint
<1>7. e = [s EXCEPT !.peers[k] = 0, !.peers_by_idx[i] = 0, !.peers_by_ip = remove(@, o)]
  BY <1>1, <1>6 DEF remove_peer
<1> HIDE DEF ps, i
<1>8. /\ e.key_pair = d.key_pair /\ e.next_index = d.next_index
      /\ e.peers = [d.peers EXCEPT ![k] = 0]
      /\ e.peers_by_idx = [d.peers_by_idx EXCEPT ![i] = 0]
      /\ e.peers_by_ip = remove(d.peers_by_ip, o)
      /\ e.peer = ps
  BY <1>7 DEF Devices
<1>9. e \in Devices
  <2>1. s \in Devices /\ s.peers = d.peers /\ s.peers_by_idx = d.peers_by_idx
        /\ s.peers_by_ip = d.peers_by_ip
    BY <1>4 DEF Devices
  <2> HIDE DEF s
  <2>2. /\ [s.peers EXCEPT ![k] = 0] \in [Keys -> Nat]
        /\ [s.peers_by_idx EXCEPT ![i] = 0] \in [Indices -> Nat]
        /\ remove(s.peers_by_ip, o) \in Tables
    BY <1>5, <2>1 DEF Devices
  <2> QED BY <1>7, <2>1, <2>2 DEF Devices
<1>10. d.peers \in [Keys -> Nat] /\ d.peers_by_idx \in [Indices -> Nat]
  BY DEF Devices
<1>11. \A q \in Keys : e.peers[q] = IF q = k THEN 0 ELSE d.peers[q]
  BY <1>8, <1>10
<1>12. \A j \in Indices : e.peers_by_idx[j] = IF j = i THEN 0 ELSE d.peers_by_idx[j]
  BY <1>8, <1>10
<1> QED BY <1>4, <1>8, <1>9, <1>11, <1>12 DEF i

LEMMA AddFields ==
  ASSUME NEW d \in Devices, NEW k \in Keys, NEW endpoint \in BOOLEAN,
         NEW nets \in SUBSET Networks, NEW e, e = add_peer(d, k, endpoint, nets),
         NEW o, o = Len(d.peer) + 1, NEW i, i = IndexOf(d.next_index)
  PROVE  /\ i \in Indices /\ o \in Nat \ {0}
         /\ e \in Devices
         /\ e.key_pair = d.key_pair /\ e.next_index = next(d.next_index)
         /\ \A q \in Keys : e.peers[q] = IF q = k THEN o ELSE d.peers[q]
         /\ \A j \in Indices : e.peers_by_idx[j] = IF j = i THEN o ELSE d.peers_by_idx[j]
         /\ e.peers_by_ip = insert(d.peers_by_ip, nets, o)
         /\ Len(e.peer) = o
         /\ \A p \in 1..Len(d.peer) : e.peer[p] = d.peer[p]
         /\ e.peer[o].key = k /\ e.peer[o].index = i /\ e.peer[o].allowed_ips = nets
         /\ e.peer[o].conn = NoFd
<1> DEFINE new == [key |-> k, index |-> i, allowed_ips |-> nets, addr |-> endpoint,
                   conn |-> NoFd]
           ps == Append(d.peer, new)
           reg == next(d.next_index)
<1>1. d.peer \in Seq(Peer) /\ o \in Nat \ {0} /\ d.next_index.mask = Mask
      /\ d.next_index.lfsr \in random_index
  BY SMTT(30) DEF Devices
<1>2. i \in Indices
  BY <1>1, IndexType DEF IndexOf
<1>3. new \in Peer
  BY <1>2 DEF Peer
<1>4. ps \in Seq(Peer) /\ Len(ps) = o /\ ps[o] = new
      /\ \A p \in 1..Len(d.peer) : ps[p] = d.peer[p]
  BY <1>1, <1>3, SMTT(30)
<1>5. insert(d.peers_by_ip, nets, o) \in Tables
  BY <1>1, InsertTable DEF Devices
<1>6. reg \in [initial : {Seed}, lfsr : random_index, mask : {Mask}]
  BY <1>1, ShiftedType DEF next, Devices
<1>7. e = [d EXCEPT !.next_index = reg, !.peer = ps, !.peers[k] = o, !.peers_by_idx[i] = o,
                    !.peers_by_ip = insert(@, nets, o)]
  BY DEF add_peer
<1> HIDE DEF ps, reg
<1>8. d.peers \in [Keys -> Nat] /\ d.peers_by_idx \in [Indices -> Nat]
  BY DEF Devices
<1>9. /\ e.key_pair = d.key_pair /\ e.next_index = reg
      /\ e.peers = [d.peers EXCEPT ![k] = o]
      /\ e.peers_by_idx = [d.peers_by_idx EXCEPT ![i] = o]
      /\ e.peers_by_ip = insert(d.peers_by_ip, nets, o)
      /\ e.peer = ps
  BY <1>7 DEF Devices
<1>10. e \in Devices
  <2>1. /\ [d.peers EXCEPT ![k] = o] \in [Keys -> Nat]
        /\ [d.peers_by_idx EXCEPT ![i] = o] \in [Indices -> Nat]
    BY <1>1, <1>2, <1>8
  <2> QED BY <1>4, <1>5, <1>6, <1>7, <2>1 DEF Devices
<1>11. \A q \in Keys : e.peers[q] = IF q = k THEN o ELSE d.peers[q]
  BY <1>8, <1>9
<1>12. \A j \in Indices : e.peers_by_idx[j] = IF j = i THEN o ELSE d.peers_by_idx[j]
  BY <1>8, <1>9
<1> QED BY <1>1, <1>2, <1>4, <1>9, <1>10, <1>11, <1>12, SMTT(30) DEF reg

(* What the commands leave alone of a device: a connected socket stays     *)
(* with the peer it belongs to, and the peer in the tables it was in.      *)
Keeps(d, e) ==
  /\ Len(d.peer) <= Len(e.peer)
  /\ \A o \in 1..Len(e.peer) : e.peer[o].conn # NoFd =>
       /\ o <= Len(d.peer)
       /\ e.peer[o].conn = d.peer[o].conn
       /\ Live(d, o) => Live(e, o)

LEMMA PeerTypes ==
  ASSUME NEW d \in Devices
  PROVE  /\ Len(d.peer) \in Nat
         /\ \A o \in 1..Len(d.peer) :
              /\ d.peer[o] \in Peer
              /\ d.peer[o].key \in Keys /\ d.peer[o].index \in Indices
              /\ d.peer[o].allowed_ips \in SUBSET Networks
              /\ d.peer[o].addr \in BOOLEAN /\ d.peer[o].conn \in Fds \union {NoFd}
<1>1. d.peer \in Seq(Peer)
  BY DEF Devices
<1>2. \A o \in 1..Len(d.peer) : d.peer[o] \in Peer
  BY <1>1, SMTT(30)
<1> QED BY <1>1, <1>2, SMTT(30) DEF Peer

(* remove_peer purges the peer from all tables.                            *)
LEMMA RemoveKeepsInv ==
  ASSUME NEW d, DevInv(d), NEW k \in Keys
  PROVE  DevInv(remove_peer(d, k)) /\ Keeps(d, remove_peer(d, k))
<1>1. d \in Devices /\ ByKey(d) /\ ByIndex(d) /\ ByNetwork(d)
  BY DEF DevInv
<1>2. d.peers \in [Keys -> Nat] /\ d.peers_by_idx \in [Indices -> Nat] /\ d.peer \in Seq(Peer)
  BY <1>1 DEF Devices
<1> DEFINE o == d.peers[k]
           e == remove_peer(d, k)
           n == Len(d.peer)
<1>3. CASE o = 0
  <2>1. e = d
    BY <1>3 DEF remove_peer
  <2>2. Keeps(d, d)
    BY <1>1, PeerTypes, SMTT(30) DEF Keeps
  <2> QED BY <2>1, <2>2
<1>4. CASE o # 0
  <2>1. o \in 1..n /\ d.peer[o].key = k /\ d.peers_by_idx[d.peer[o].index] = o /\ n \in Nat
    BY <1>1, <1>4, PeerTypes DEF ByKey
  <2> HIDE DEF e, o, n
  <2>2. /\ e \in Devices
        /\ e.key_pair = d.key_pair /\ e.next_index = d.next_index
        /\ \A q \in Keys : e.peers[q] = IF q = k THEN 0 ELSE d.peers[q]
        /\ \A i \in Indices :
             e.peers_by_idx[i] = IF i = d.peer[o].index THEN 0 ELSE d.peers_by_idx[i]
        /\ e.peers_by_ip = remove(d.peers_by_ip, o)
        /\ Len(e.peer) = n
        /\ \A p \in 1..n :
             e.peer[p] = IF p = o THEN [d.peer[o] EXCEPT !.conn = NoFd] ELSE d.peer[p]
    <3>1. d.peers[k] = o /\ o \in 1..Len(d.peer) /\ e = remove_peer(d, k)
      BY <2>1 DEF o, n, e
    <3> QED BY <1>1, <3>1, RemoveFields, SMTT(30) DEF n
  <2>3. d.peer[o].index \in Indices /\ \A p \in 1..n : d.peer[p].index \in Indices
    BY <1>1, <2>1, PeerTypes DEF n
  <2>4. \A p \in 1..n : /\ e.peer[p].key = d.peer[p].key /\ e.peer[p].index = d.peer[p].index
                        /\ e.peer[p].allowed_ips = d.peer[p].allowed_ips
                        /\ e.peer[p].conn = IF p = o THEN NoFd ELSE d.peer[p].conn
    <3>1. \A p \in 1..n : d.peer[p] \in Peer
      BY <1>1, PeerTypes DEF n
    <3>2. d.peer[o] \in Peer
      BY <2>1, <3>1
    <3>3. LET r == [d.peer[o] EXCEPT !.conn = NoFd]
          IN  /\ r.key = d.peer[o].key /\ r.index = d.peer[o].index
              /\ r.allowed_ips = d.peer[o].allowed_ips /\ r.conn = NoFd
      BY <3>2 DEF Peer
    <3> QED BY <2>2, <3>3
  <2>5. \A net \in DOMAIN e.peers_by_ip :
          /\ net \in DOMAIN d.peers_by_ip /\ e.peers_by_ip[net] = d.peers_by_ip[net]
          /\ d.peers_by_ip[net] # o
    <3>1. d.peers_by_ip \in Tables
      BY <1>1 DEF Devices
    <3> QED BY <2>2, <3>1, RemoveTable, SMTT(30)
  <2>6. \A p : p # o /\ Live(d, p) => Live(e, p)
    BY <2>2 DEF Live, o
  <2>7. Trail(e)
    <3>1. PICK v : IsTrail(d, v)
      BY DEF DevInv, Trail
    <3>2. IsTrail(e, v)
      BY <2>2, <2>4, <3>1 DEF IsTrail, n
    <3> QED BY <3>2 DEF Trail
  <2>8. ByKey(e)
    <3> SUFFICES ASSUME NEW q \in Keys, e.peers[q] # 0
                 PROVE  /\ e.peers[q] \in 1..Len(e.peer)
                        /\ e.peer[e.peers[q]].key = q
                        /\ e.peers_by_idx[e.peer[e.peers[q]].index] = e.peers[q]
      BY DEF ByKey
    <3> DEFINE p == d.peers[q]
    <3>1. q # k /\ e.peers[q] = p /\ p # 0
      BY <2>2
    <3>2. p \in 1..n /\ d.peer[p].key = q /\ d.peers_by_idx[d.peer[p].index] = p
      BY <1>1, <3>1 DEF ByKey, n
    <3>3. p # o
      BY <2>1, <3>1, <3>2
    <3>4. d.peer[p].index # d.peer[o].index /\ d.peer[p].index \in Indices
      BY <2>1, <2>3, <3>2, <3>3
    <3> HIDE DEF p
    <3>5. e.peer[p].key = q /\ e.peer[p].index = d.peer[p].index
      BY <2>4, <3>2
    <3>6. e.peers_by_idx[d.peer[p].index] = p
      BY <2>2, <3>2, <3>4
    <3>7. p \in 1..Len(e.peer)
      BY <2>2, <3>2
    <3> QED BY <3>1, <3>5, <3>6, <3>7
  <2>9. ByIndex(e)
    <3> SUFFICES ASSUME NEW i \in Indices, e.peers_by_idx[i] # 0
                 PROVE  /\ Live(e, e.peers_by_idx[i])
                        /\ e.peer[e.peers_by_idx[i]].index = i
      BY DEF ByIndex
    <3> DEFINE p == d.peers_by_idx[i]
    <3>1. i # d.peer[o].index /\ e.peers_by_idx[i] = p /\ p # 0
      BY <2>2
    <3>2. Live(d, p) /\ d.peer[p].index = i
      BY <1>1, <3>1 DEF ByIndex
    <3>3. p # o
      BY <3>1, <3>2
    <3>4. p \in 1..n
      BY <1>1, <3>1, <3>2 DEF Live, ByKey, n
    <3> QED BY <2>4, <2>6, <3>1, <3>2, <3>3, <3>4
  <2>10. ByNetwork(e)
    <3> SUFFICES ASSUME NEW net \in DOMAIN e.peers_by_ip
                 PROVE  /\ e.peers_by_ip[net] # 0
                        /\ Live(e, e.peers_by_ip[net])
                        /\ \E own \in e.peer[e.peers_by_ip[net]].allowed_ips :
                             Truncated(own) = net
      BY DEF ByNetwork
    <3> DEFINE p == d.peers_by_ip[net]
    <3>1. net \in DOMAIN d.peers_by_ip /\ e.peers_by_ip[net] = p /\ p # o
      BY <2>5
    <3>2. p # 0 /\ Live(d, p) /\ \E own \in d.peer[p].allowed_ips : Truncated(own) = net
      BY <1>1, <3>1 DEF ByNetwork
    <3>3. p \in 1..n
      BY <1>1, <3>2 DEF Live, ByKey, n
    <3> QED BY <2>4, <2>6, <3>1, <3>2, <3>3
  <2>11. Keeps(d, e)
    BY <2>1, <2>2, <2>4, <2>6, SMTT(30) DEF Keeps, n
  <2> QED BY <2>2, <2>7, <2>8, <2>9, <2>10, <2>11 DEF DevInv, e
<1> QED BY <1>3, <1>4

(* The register gives no index twice: while it has not come round, the     *)
(* next one is different from the index of every peer there ever was.      *)
LEMMA FreshIndex ==
  ASSUME NEW d \in Devices, NEW v, IsTrail(d, v), NEW p \in 1..Len(d.peer)
  PROVE  d.peer[p].index # IndexOf(d.next_index)
<1>1. Len(d.peer) \in Nat /\ d.next_index.mask = Mask
  BY PeerTypes DEF Devices
<1>2. /\ v[p] \in random_index /\ v[Len(d.peer) + 1] \in random_index
      /\ v[Len(d.peer) + 1] = d.next_index.lfsr
      /\ d.peer[p].index = Xor(Decrement(v[p]), Mask)
      /\ v[p] # v[Len(d.peer) + 1]
  BY <1>1, SMTT(30) DEF IsTrail
<1>3. Decrement(v[p]) # Decrement(v[Len(d.peer) + 1])
  BY <1>2, DecrementInjective
<1> QED BY <1>1, <1>2, <1>3, XorInjective DEF IndexOf

LEMMA TrailGrows ==
  ASSUME NEW d \in Devices, NEW v, IsTrail(d, v), ~ ComesRound(d.next_index),
         NEW e \in Devices, Len(e.peer) = Len(d.peer) + 1,
         e.next_index = next(d.next_index),
         \A p \in 1..Len(d.peer) : e.peer[p].index = d.peer[p].index,
         e.peer[Len(d.peer) + 1].index = IndexOf(d.next_index)
  PROVE  Trail(e)
<1> DEFINE n == Len(d.peer)
           l == n + 1
           w == [j \in 1..(l + 1) |-> IF j = l + 1 THEN Shifted(v[l]) ELSE v[j]]
<1>1. n \in Nat /\ d.next_index.mask = Mask /\ d.next_index.initial = Seed
      /\ e.next_index.lfsr = Shifted(d.next_index.lfsr)
  BY PeerTypes DEF Devices, next
<1>2. /\ v \in [1..l -> random_index] /\ v[1] = Seed /\ v[l] = d.next_index.lfsr
      /\ \A i \in 1..n : v[i + 1] = Shifted(v[i]) /\ d.peer[i].index = Xor(Decrement(v[i]), Mask)
      /\ \A i, j \in 1..l : v[i] = v[j] => i = j
  BY DEF IsTrail
<1>3. Shifted(v[l]) # Seed /\ Shifted(v[l]) \in random_index
  BY <1>1, <1>2, ShiftedType DEF ComesRound, next, Devices
<1> HIDE DEF n
<1>4. w \in [1..(l + 1) -> random_index]
  BY <1>1, <1>2, <1>3, SMTT(30)
<1>5. w[l + 1] = Shifted(v[l]) /\ \A j \in 1..l : w[j] = v[j]
  BY <1>1, SMTT(30)
<1> HIDE DEF w
<1>6. \A j \in 1..l : v[j] # Shifted(v[l])
  <2> SUFFICES ASSUME NEW j \in 1..l, v[j] = Shifted(v[l]) PROVE FALSE
    OBVIOUS
  <2>1. j # 1
    BY <1>2, <1>3
  <2>2. j - 1 \in 1..n /\ (j - 1) + 1 = j /\ j - 1 \in 1..l
    BY <1>1, <2>1, SMTT(30)
  <2>3. v[j] = Shifted(v[j - 1])
    BY <1>2, <2>2
  <2>4. v[j - 1] \in Indices /\ v[l] \in Indices
    BY <1>1, <1>2, <2>2, SMTT(30) DEF random_index
  <2>5. v[j - 1] = v[l]
    BY <2>3, <2>4, ShiftedInjective
  <2>6. j - 1 = l
    BY <1>1, <1>2, <2>2, <2>5, SMTT(30)
  <2> QED BY <1>1, <2>6, SMTT(30)
<1>7. \A i, j \in 1..(l + 1) : w[i] = w[j] => i = j
  <2> SUFFICES ASSUME NEW i \in 1..(l + 1), NEW j \in 1..(l + 1), w[i] = w[j], i < j
               PROVE  FALSE
    BY <1>1, SMTT(30)
  <2>1. i \in 1..l
    BY <1>1, SMTT(30)
  <2>2. CASE j = l + 1
    BY <1>5, <1>6, <2>1, <2>2
  <2>3. CASE j # l + 1
    <3>1. j \in 1..l
      BY <1>1, <2>3, SMTT(30)
    <3> QED BY <1>2, <1>5, <2>1, <3>1, SMTT(30)
  <2> QED BY <2>2, <2>3
<1>8. w[1] = Seed /\ w[l + 1] = e.next_index.lfsr
  BY <1>1, <1>2, <1>5, SMTT(30)
<1>9. \A i \in 1..l : w[i + 1] = Shifted(w[i]) /\ e.peer[i].index = Xor(Decrement(w[i]), Mask)
  <2> TAKE i \in 1..l
  <2>1. CASE i = l
    BY <1>1, <1>2, <1>5, <2>1 DEF IndexOf, n
  <2>2. CASE i # l
    <3>1. i \in 1..n /\ i + 1 \in 1..l
      BY <1>1, <2>2, SMTT(30)
    <3> QED BY <1>2, <1>5, <3>1 DEF n
  <2> QED BY <2>1, <2>2
<1>10. IsTrail(e, w)
  BY <1>4, <1>7, <1>8, <1>9 DEF IsTrail, n
<1> QED BY <1>10 DEF Trail

(* add_peer enters a new peer under a free key and a fresh index.          *)
LEMMA AddKeepsInv ==
  ASSUME NEW d, DevInv(d), NEW k \in Keys, MayAdd(d, k), NEW endpoint \in BOOLEAN,
         NEW nets \in SUBSET Networks, NEW e, e = add_peer(d, k, endpoint, nets)
  PROVE  DevInv(e) /\ Keeps(d, e)
<1>1. d \in Devices /\ ByKey(d) /\ ByIndex(d) /\ ByNetwork(d)
  BY DEF DevInv
<1>2. PICK v : IsTrail(d, v)
  BY DEF DevInv, Trail
<1>3. d.peers[k] = 0 /\ ~ ComesRound(d.next_index)
  BY DEF MayAdd
<1> DEFINE n == Len(d.peer)
           o == n + 1
           i == IndexOf(d.next_index)
<1> HIDE DEF n, o, i
<1>4. n \in Nat /\ o = n + 1 /\ o \notin 1..n
  BY <1>1, PeerTypes, SMTT(30) DEF n, o
<1>5. /\ i \in Indices /\ o \in Nat \ {0}
      /\ e \in Devices
      /\ e.key_pair = d.key_pair /\ e.next_index = next(d.next_index)
      /\ \A q \in Keys : e.peers[q] = IF q = k THEN o ELSE d.peers[q]
      /\ \A j \in Indices : e.peers_by_idx[j] = IF j = i THEN o ELSE d.peers_by_idx[j]
      /\ e.peers_by_ip = insert(d.peers_by_ip, nets, o)
      /\ Len(e.peer) = o
      /\ \A p \in 1..n : e.peer[p] = d.peer[p]
      /\ e.peer[o].key = k /\ e.peer[o].index = i /\ e.peer[o].allowed_ips = nets
      /\ e.peer[o].conn = NoFd
  <2>1. o = Len(d.peer) + 1 /\ i = IndexOf(d.next_index)
    BY DEF o, n, i
  <2> QED BY <1>1, <2>1, AddFields, SMTT(30) DEF n
<1>6. \A p \in 1..n : d.peer[p].index # i /\ d.peer[p].index \in Indices
  BY <1>1, <1>2, FreshIndex, PeerTypes DEF n, i
<1>7. \A p : p # 0 /\ Live(d, p) => Live(e, p) /\ p \in 1..n
  BY <1>1, <1>3, <1>5, SMTT(30) DEF Live, ByKey, n
<1>8. Live(e, o)
  BY <1>5 DEF Live
<1>9. Trail(e)
  BY <1>1, <1>2, <1>3, <1>5, TrailGrows DEF n, o, i
<1>10. ByKey(e)
  <2> SUFFICES ASSUME NEW q \in Keys, e.peers[q] # 0
               PROVE  /\ e.peers[q] \in 1..Len(e.peer)
                      /\ e.peer[e.peers[q]].key = q
                      /\ e.peers_by_idx[e.peer[e.peers[q]].index] = e.peers[q]
    BY DEF ByKey
  <2>1. CASE q = k
    <3>1. e.peers[q] = o /\ e.peers_by_idx[i] = o /\ e.peer[o].key = k /\ e.peer[o].index = i
      BY <1>5, <2>1
    <3>2. Len(e.peer) = o /\ o \in Nat \ {0}
      BY <1>5
    <3>3. o \in 1..Len(e.peer)
      BY <3>2, SMTT(30)
    <3> QED BY <2>1, <3>1, <3>3
  <2>2. CASE q # k
    <3> DEFINE p == d.peers[q]
    <3>1. e.peers[q] = p /\ p # 0
      BY <1>5, <2>2
    <3>2. p \in 1..n /\ d.peer[p].key = q /\ d.peers_by_idx[d.peer[p].index] = p
      BY <1>1, <3>1 DEF ByKey, n
    <3> HIDE DEF p
    <3>3. e.peer[p] = d.peer[p] /\ p \in 1..Len(e.peer)
      BY <1>4, <1>5, <3>2, SMTT(30)
    <3>4. e.peers_by_idx[d.peer[p].index] = p
      BY <1>5, <1>6, <3>2
    <3> QED BY <3>1, <3>2, <3>3, <3>4
  <2> QED BY <2>1, <2>2
<1>11. ByIndex(e)
  <2> SUFFICES ASSUME NEW j \in Indices, e.peers_by_idx[j] # 0
               PROVE  /\ Live(e, e.peers_by_idx[j])
                      /\ e.peer[e.peers_by_idx[j]].index = j
    BY DEF ByIndex
  <2>1. CASE j = i
    BY <1>5, <1>8, <2>1
  <2>2. CASE j # i
    <3> DEFINE p == d.peers_by_idx[j]
    <3>1. e.peers_by_idx[j] = p /\ p # 0
      BY <1>5, <2>2
    <3>2. Live(d, p) /\ d.peer[p].index = j
      BY <1>1, <3>1 DEF ByIndex
    <3> QED BY <1>5, <1>7, <3>1, <3>2, SMTT(30)
  <2> QED BY <2>1, <2>2
<1>12. ByNetwork(e)
  <2> SUFFICES ASSUME NEW net \in DOMAIN e.peers_by_ip
               PROVE  /\ e.peers_by_ip[net] # 0
                      /\ Live(e, e.peers_by_ip[net])
                      /\ \E own \in e.peer[e.peers_by_ip[net]].allowed_ips : Truncated(own) = net
    BY DEF ByNetwork
  <2>1. d.peers_by_ip \in Tables
    BY <1>1 DEF Devices
  <2>2. \/ (\E own \in nets : Truncated(own) = net) /\ e.peers_by_ip[net] = o
        \/ net \in DOMAIN d.peers_by_ip /\ e.peers_by_ip[net] = d.peers_by_ip[net]
    BY <1>5, <2>1, InsertTable, SMTT(30)
  <2>3. CASE (\E own \in nets : Truncated(own) = net) /\ e.peers_by_ip[net] = o
    BY <1>5, <1>8, <2>3
  <2>4. CASE net \in DOMAIN d.peers_by_ip /\ e.peers_by_ip[net] = d.peers_by_ip[net]
    <3> DEFINE p == d.peers_by_ip[net]
    <3>1. p # 0 /\ Live(d, p) /\ \E own \in d.peer[p].allowed_ips : Truncated(own) = net
      BY <1>1, <2>4 DEF ByNetwork
    <3> QED BY <1>5, <1>7, <2>4, <3>1, SMTT(30)
  <2> QED BY <2>2, <2>3, <2>4
<1>13. Keeps(d, e)
  <2>1. Len(d.peer) = n /\ Len(d.peer) <= Len(e.peer)
    BY <1>4, <1>5, SMTT(30) DEF n
  <2>2. \A p \in 1..Len(e.peer) : e.peer[p].conn # NoFd => p \in 1..n
    BY <1>4, <1>5, SMTT(30)
  <2> QED BY <1>4, <1>5, <1>7, <2>1, <2>2, SMTT(30) DEF Keeps
<1> QED BY <1>5, <1>9, <1>10, <1>11, <1>12, <1>13 DEF DevInv

LEMMA KeepsTransitive ==
  ASSUME NEW d \in Devices, NEW e \in Devices, NEW f \in Devices, Keeps(d, e), Keeps(e, f)
  PROVE  Keeps(d, f)
<1>1. Len(d.peer) \in Nat /\ Len(e.peer) \in Nat /\ Len(f.peer) \in Nat
  BY PeerTypes
<1> QED BY <1>1, SMTT(30) DEF Keeps

(* One section of a request.                                               *)
SectionInv(d, acc) ==
  /\ acc.remove \in BOOLEAN /\ acc.endpoint \in BOOLEAN /\ acc.ok \in BOOLEAN
  /\ DevInv(acc.dev) /\ Keeps(d, acc.dev)

LEMMA SectionKeepsInv ==
  ASSUME NEW d \in Devices, NEW acc, SectionInv(d, acc), NEW s \in Sections
  PROVE  SectionInv(d, Section(acc, s))
<1> DEFINE rm == IF s.remove = None THEN acc.remove ELSE s.remove
           endpoint == s.endpoint \/ acc.endpoint
           may == rm \/ MayAdd(acc.dev, s.key)
           ok == acc.ok /\ may
           e == IF ~ ok THEN acc.dev
                ELSE IF rm THEN remove_peer(acc.dev, s.key)
                ELSE add_peer(acc.dev, s.key, endpoint, s.allowed_ips)
<1>1. /\ s.key \in Keys /\ s.allowed_ips \in SUBSET Networks /\ s.endpoint \in BOOLEAN
      /\ s.remove \in BOOLEAN \union {None}
  BY DEF Sections
<1>2. /\ acc.remove \in BOOLEAN /\ acc.endpoint \in BOOLEAN /\ acc.ok \in BOOLEAN
      /\ DevInv(acc.dev) /\ Keeps(d, acc.dev)
  BY DEF SectionInv
<1>3. rm \in BOOLEAN /\ endpoint \in BOOLEAN /\ ok \in BOOLEAN
  BY <1>1, <1>2
<1>4. Section(acc, s) = [remove |-> rm, endpoint |-> endpoint, ok |-> ok, dev |-> e]
  BY DEF Section
<1> HIDE DEF rm, endpoint
<1>5. DevInv(e) /\ Keeps(acc.dev, e)
  <2>1. CASE ~ ok
    <3>1. Keeps(acc.dev, acc.dev)
      BY <1>2, PeerTypes, SMTT(30) DEF Keeps, DevInv
    <3>2. e = acc.dev
      BY <2>1
    <3> QED BY <1>2, <3>1, <3>2
  <2>2. CASE acc.ok /\ rm
    <3>1. e = remove_peer(acc.dev, s.key)
      BY <2>2
    <3> QED BY <1>1, <1>2, <3>1, RemoveKeepsInv
  <2>3. CASE acc.ok /\ ~ rm /\ MayAdd(acc.dev, s.key)
    <3>1. e = add_peer(acc.dev, s.key, endpoint, s.allowed_ips)
      BY <2>3
    <3> HIDE DEF e
    <3> QED BY <1>1, <1>2, <1>3, <2>3, <3>1, AddKeepsInv
  <2> QED BY <2>1, <2>2, <2>3
<1> HIDE DEF e, ok
<1>6. Keeps(d, e)
  BY <1>2, <1>5, KeepsTransitive DEF DevInv
<1>7. LET a == Section(acc, s)
      IN  a.remove = rm /\ a.endpoint = endpoint /\ a.ok = ok /\ a.dev = e
  BY <1>4, SMTT(30)
<1> QED BY <1>3, <1>5, <1>6, <1>7 DEF SectionInv

(* The sections of a request one after another: the function that          *)
(* Processed defines by recursion exists, and keeps the invariant as far   *)
(* as it goes.                                                             *)
LEMMA ProcessedKeepsInv ==
  ASSUME NEW d, DevInv(d), NEW request \in Seq(Sections)
  PROVE  SectionInv(d, Processed(d, request))
<1> DEFINE start == [dev |-> d, remove |-> FALSE, endpoint |-> FALSE, ok |-> TRUE]
           l == Len(request)
           step(f, n) == IF n = 0 THEN start ELSE Section(f[n - 1], request[n])
           after == CHOOSE f : f = [n \in 0..l |-> step(f, n)]
<1>1. Processed(d, request) = after[l]
  BY DEF Processed
<1>2. l \in Nat /\ \A n \in 1..l : request[n] \in Sections
  BY SMTT(30)
<1>3. SectionInv(d, start)
  <2>1. Keeps(d, d)
    BY PeerTypes, SMTT(30) DEF Keeps, DevInv
  <2> QED BY <2>1 DEF SectionInv
<1> HIDE DEF start, l
<1>4. \E f : f = [n \in 0..l |-> step(f, n)]
  <2> DEFINE some == {m \in Nat : \E f : f = [n \in 0..m |-> step(f, n)]}
  <2>1. 0 \in some
    <3> DEFINE g == [n \in 0..0 |-> start]
    <3>1. g = [n \in 0..0 |-> step(g, n)]
      BY SMTT(30)
    <3> QED BY <3>1
  <2>2. ASSUME NEW m \in Nat, m \in some PROVE m + 1 \in some
    <3>1. PICK f : f = [n \in 0..m |-> step(f, n)]
      BY <2>2
    <3> DEFINE g == [n \in 0..(m + 1) |-> IF n = m + 1 THEN Section(f[m], request[m + 1])
                                          ELSE f[n]]
    <3>2. \A n \in 0..m : f[n] = step(f, n)
      BY <3>1
    <3>3. \A n \in 0..(m + 1) : g[n] = step(g, n)
      <4> TAKE n \in 0..(m + 1)
      <4>1. CASE n = m + 1
        BY <4>1, SMTT(30)
      <4>2. CASE n # m + 1
        <5>1. n \in 0..m /\ g[n] = f[n]
          BY <4>2, SMTT(30)
        <5>2. CASE n = 0
          BY <3>2, <5>1, <5>2
        <5>3. CASE n # 0
          <6>1. n - 1 \in 0..m /\ g[n - 1] = f[n - 1]
            BY <5>1, <5>3, SMTT(30)
          <6> QED BY <3>2, <5>1, <5>3, <6>1
        <5> QED BY <5>2, <5>3
      <4> QED BY <4>1, <4>2
    <3>4. g = [n \in 0..(m + 1) |-> step(g, n)]
      <4>1. g = [n \in 0..(m + 1) |-> g[n]]
        OBVIOUS
      <4> HIDE DEF g
      <4> QED BY <3>3, <4>1
    <3>5. m + 1 \in Nat
      BY SMTT(30)
    <3> HIDE DEF g
    <3>6. \E h : h = [n \in 0..(m + 1) |-> step(h, n)]
      BY <3>4
    <3> QED BY <3>5, <3>6
  <2> HIDE DEF some
  <2>3. Nat \subseteq some
    BY <2>1, <2>2, Induction
  <2> QED BY <1>2, <2>3 DEF some
<1>5. after = [n \in 0..l |-> step(after, n)]
  BY <1>4
<1> HIDE DEF after
<1>6. after[0] = start /\ \A n \in 1..l : after[n] = Section(after[n - 1], request[n])
  BY <1>2, <1>5, SMTT(30)
<1> DEFINE kept == {n \in Nat : n <= l => SectionInv(d, after[n])}
<1>7. 0 \in kept
  BY <1>3, <1>6
<1>8. ASSUME NEW n \in Nat, n \in kept PROVE n + 1 \in kept
  <2> SUFFICES ASSUME n + 1 <= l PROVE SectionInv(d, after[n + 1])
    BY SMTT(30)
  <2>1. n + 1 \in 1..l /\ (n + 1) - 1 = n /\ n <= l
    BY <1>2, SMTT(30)
  <2>2. SectionInv(d, after[n]) /\ request[n + 1] \in Sections
    BY <1>2, <1>8, <2>1
  <2>3. SectionInv(d, Section(after[n], request[n + 1]))
    BY <2>2, SectionKeepsInv DEF DevInv
  <2> QED BY <1>6, <2>1, <2>3
<1> HIDE DEF kept
<1>9. Nat \subseteq kept
  BY <1>7, <1>8, Induction
<1>10. SectionInv(d, after[l])
  BY <1>2, <1>9, SMTT(30) DEF kept
<1> QED BY <1>1, <1>10 DEF after, l, start

-----------------------------------------------------------------------------
(* Endpoints *)

(* Of the peers only endpoints have changed.                               *)
SamePeers(d, e) ==
  /\ e.peers = d.peers /\ e.peers_by_idx = d.peers_by_idx
  /\ e.peers_by_ip = d.peers_by_ip /\ e.next_index = d.next_index
  /\ Len(e.peer) = Len(d.peer)
  /\ \A o \in 1..Len(d.peer) : /\ e.peer[o].key = d.peer[o].key
                               /\ e.peer[o].index = d.peer[o].index
                               /\ e.peer[o].allowed_ips = d.peer[o].allowed_ips

LEMMA SamePeersInv ==
  ASSUME NEW d, DevInv(d), NEW e \in Devices, SamePeers(d, e)
  PROVE  DevInv(e) /\ \A o : Live(e, o) <=> Live(d, o)
<1>1. /\ e.peers = d.peers /\ e.peers_by_idx = d.peers_by_idx
      /\ e.peers_by_ip = d.peers_by_ip /\ e.next_index = d.next_index
      /\ Len(e.peer) = Len(d.peer)
      /\ \A o \in 1..Len(d.peer) : /\ e.peer[o].key = d.peer[o].key
                                   /\ e.peer[o].index = d.peer[o].index
                                   /\ e.peer[o].allowed_ips = d.peer[o].allowed_ips
  BY DEF SamePeers
<1>2. ByKey(d) /\ ByIndex(d) /\ ByNetwork(d)
  BY DEF DevInv
<1>3. \A o : Live(e, o) <=> Live(d, o)
  BY <1>1 DEF Live
<1>4. \A o : o # 0 /\ Live(d, o) => o \in 1..Len(d.peer)
  BY <1>2 DEF Live, ByKey
<1>5. Trail(e)
  <2>1. PICK v : IsTrail(d, v)
    BY DEF DevInv, Trail
  <2>2. IsTrail(e, v)
    BY <1>1, <2>1 DEF IsTrail
  <2> QED BY <2>2 DEF Trail
<1>6. ByKey(e)
  <2> SUFFICES ASSUME NEW k \in Keys, d.peers[k] # 0
               PROVE  /\ d.peers[k] \in 1..Len(d.peer)
                      /\ e.peer[d.peers[k]].key = k
                      /\ d.peers_by_idx[e.peer[d.peers[k]].index] = d.peers[k]
    BY <1>1 DEF ByKey
  <2>1. /\ d.peers[k] \in 1..Len(d.peer)
        /\ d.peer[d.peers[k]].key = k
        /\ d.peers_by_idx[d.peer[d.peers[k]].index] = d.peers[k]
    BY <1>2 DEF ByKey
  <2> QED BY <1>1, <2>1
<1>7. ByIndex(e)
  BY <1>1, <1>2, <1>3, <1>4, SMTT(30) DEF ByIndex
<1>8. ByNetwork(e)
  BY <1>1, <1>2, <1>3, <1>4, SMTT(30) DEF ByNetwork
<1> QED BY <1>3, <1>5, <1>6, <1>7, <1>8 DEF DevInv

(* One peer's endpoint has changed.                                        *)
LEMMA OnePeerChanged ==
  ASSUME NEW d, DevInv(d), NEW o \in 1..Len(d.peer), NEW p \in Peer,
         p.key = d.peer[o].key, p.index = d.peer[o].index,
         p.allowed_ips = d.peer[o].allowed_ips,
         NEW e, e = [d EXCEPT !.peer[o] = p]
  PROVE  /\ DevInv(e) /\ \A q : Live(e, q) <=> Live(d, q)
         /\ Len(e.peer) = Len(d.peer) /\ e.key_pair = d.key_pair
         /\ e.peers = d.peers /\ e.peers_by_idx = d.peers_by_idx
         /\ \A q \in 1..Len(d.peer) : e.peer[q] = IF q = o THEN p ELSE d.peer[q]
<1> DEFINE ps == [d.peer EXCEPT ![o] = p]
<1>1. d \in Devices /\ d.peer \in Seq(Peer)
  BY DEF DevInv, Devices
<1>2. /\ ps \in Seq(Peer) /\ Len(ps) = Len(d.peer)
      /\ \A q \in 1..Len(d.peer) : ps[q] = IF q = o THEN p ELSE d.peer[q]
  BY <1>1, SMTT(30)
<1>3. e = [d EXCEPT !.peer = ps]
  BY <1>1 DEF Devices
<1> HIDE DEF ps
<1>4. /\ e \in Devices /\ e.peer = ps /\ e.key_pair = d.key_pair
      /\ e.peers = d.peers /\ e.peers_by_idx = d.peers_by_idx
      /\ e.peers_by_ip = d.peers_by_ip /\ e.next_index = d.next_index
  BY <1>1, <1>2, <1>3 DEF Devices
<1>5. SamePeers(d, e)
  BY <1>2, <1>4 DEF SamePeers
<1> QED BY <1>2, <1>4, <1>5, SamePeersInv

=============================================================================
