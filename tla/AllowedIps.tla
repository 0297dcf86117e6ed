----------------------------- MODULE AllowedIps -----------------------------
(***************************************************************************)
(* The table of networks behind cryptokey routing                          *)
(* (boringtun/src/device/allowed_ips.rs).  A table is a function from      *)
(* networks to what is stored for them; an address is the set of its one   *)
(* bits, counted from the first.                                           *)
(***************************************************************************)
EXTENDS Naturals

CONSTANT AddrBits  \* width of an address (32 or 128)

ASSUME AllowedIpsAssumption == AddrBits \in Nat

Addresses == SUBSET (1..AddrBits)
Networks == [addr : Addresses, cidr : 0..AddrBits]

(* The addresses a network covers agree with it on its first cidr bits.    *)
Prefix(addr, cidr) == addr \intersect (1..cidr)
Covers(net, addr) == Prefix(net.addr, net.cidr) = Prefix(addr, net.cidr)

(* IpNetwork::new_truncate: the host bits are cleared.                     *)
Truncated(net) == [addr |-> Prefix(net.addr, net.cidr), cidr |-> net.cidr]

EmptyTable == [net \in {} |-> 0]

(* The networks of one owner are inserted; one that is there already takes *)
(* the new data.                                                           *)
insert(table, nets, data) ==
  LET new == {Truncated(net) : net \in nets}
  IN  [n \in DOMAIN table \union new |-> IF n \in new THEN data ELSE table[n]]

(* Longest match: none, or the data of the longest prefix that covers the  *)
(* address.                                                                *)
find(table, addr, none) ==
  LET matches == {n \in DOMAIN table : Covers(n, addr)}
  IN  IF matches = {} THEN none
      ELSE table[CHOOSE n \in matches : \A o \in matches : o.cidr <= n.cidr]

(* Every entry that holds the data goes.                                   *)
remove(table, data) ==
  [n \in {m \in DOMAIN table : table[m] # data} |-> table[n]]

=============================================================================
