------------------------------- MODULE WsRelay -------------------------------
(***************************************************************************)
(* WireGuard packets over WebSocket (boringtun/src/device/ws_bridge.rs on  *)
(* the client's side, ws_proxy.rs on the server's).                        *)
(*                                                                         *)
(*   client - UDP - bridge - WebSocket - session - UDP - server            *)
(*                                                                         *)
(* The bridge is one thread; the proxy starts a thread with a UDP socket   *)
(* of its own, a session, for each connection.  Bridge and session each    *)
(* read one packet of each side in turn; a read that finds nothing times   *)
(* out.  A connection may be closed by either end or cut without either    *)
(* of them being told.  Packets are numbered in the order in which client  *)
(* and server send them.  Pings and text messages, which move no packet,   *)
(* are left out, and so is shutdown_flag, which nothing sets.              *)
(***************************************************************************)
EXTENDS Sequences, Functions

CONSTANTS MaxConnections,  \* bound on the connections made
          MaxUp, MaxDown,  \* bounds on the packets of client and server
          UdpBuffer        \* packets that a UDP socket keeps

ASSUME WsRelayAssumption == {MaxConnections, UdpBuffer} \subseteq Nat \ {0}

VARIABLES bridge,       \* the bridge's place, and its connection or 0
          client_addr,  \* does the bridge know the client's address
          local,        \* what waits at the bridge's UDP socket
          link,         \* the connections
          session,      \* the proxy's threads, by connection
          endpoint,     \* the session the server last heard from, or 0
          up, down      \* how many packets were sent, and those that arrived,
                        \* each with the connection it went over

relayVars == <<bridge, client_addr, local, link, session, endpoint, up, down>>

Connections == 1..MaxConnections

RelayInit ==
  /\ bridge = [at |-> "connect", conn |-> 0]
  /\ client_addr = FALSE
  /\ local = <<>>
  /\ link = [c \in Connections |-> [state |-> "none", up |-> <<>>, down |-> <<>>]]
  /\ session = [c \in Connections |-> [at |-> "none", udp |-> <<>>]]
  /\ endpoint = 0
  /\ up = [sent |-> 0, got |-> <<>>] /\ down = [sent |-> 0, got |-> <<>>]

-----------------------------------------------------------------------------
(* Client, server and network *)

(* A UDP socket that is full drops what comes.                             *)
Queued(q, p) == IF Len(q) < UdpBuffer THEN Append(q, p) ELSE q

client_sends ==
  /\ up.sent < MaxUp
  /\ up' = [up EXCEPT !.sent = @ + 1]
  /\ local' = Queued(local, up.sent + 1)
  /\ UNCHANGED <<bridge, client_addr, link, session, endpoint, down>>

(* The server answers the address it last had a packet from.               *)
server_sends ==
  /\ endpoint # 0 /\ down.sent < MaxDown
  /\ down' = [down EXCEPT !.sent = @ + 1]
  /\ session' = IF session[endpoint].at = "ended" THEN session
                ELSE [session EXCEPT ![endpoint].udp = Queued(@, down.sent + 1)]
  /\ UNCHANGED <<bridge, client_addr, local, link, endpoint, up>>

Beginnings(q) == {SubSeq(q, 1, n) : n \in 0..Len(q)}

(* The connection fails; what is on its way may or may not arrive.         *)
cut(c) ==
  /\ link[c].state = "open"
  /\ \E u \in Beginnings(link[c].up), d \in Beginnings(link[c].down) :
       link' = [link EXCEPT ![c] = [state |-> "cut", up |-> u, down |-> d]]
  /\ UNCHANGED <<bridge, client_addr, local, session, endpoint, up, down>>

-----------------------------------------------------------------------------
(* run_ws_bridge *)

(* connect_ws.  A connection that is not made, or whose WebSocket          *)
(* handshake fails, changes nothing: it is tried again after a delay.      *)
connect_ws(c) ==
  /\ bridge.at = "connect"
  /\ link[c].state = "none" /\ \A b \in 1..(c - 1) : link[b].state # "none"
  /\ bridge' = [at |-> "udp", conn |-> c]
  /\ link' = [link EXCEPT ![c].state = "open"]
  /\ session' = [session EXCEPT ![c].at = "start"]
  /\ UNCHANGED <<client_addr, local, endpoint, up, down>>

(* A message sent on a connection the other end has left, or that has been *)
(* cut, is lost, and the sender told or not.                               *)
SendFails(c) == link[c].state # "open"

(* Mutant: a packet is kept until the connection has taken it, and is sent *)
(* again after an error.                                                   *)
bridge_udp_retry ==
  /\ bridge.at = "udp"
  /\ LET c == bridge.conn
     IN  \/ /\ local = <<>>
            /\ \E at \in {"ws", "close"} : bridge' = [bridge EXCEPT !.at = at]
            /\ UNCHANGED <<client_addr, local, link>>
         \/ /\ local # <<>>
            /\ client_addr' = TRUE
            /\ link' = IF SendFails(c) THEN link
                       ELSE [link EXCEPT ![c].up = Append(@, Head(local))]
            /\ \/ bridge' = [bridge EXCEPT !.at = "ws"] /\ local' = Tail(local)
               \/ bridge' = [bridge EXCEPT !.at = "close"] /\ UNCHANGED local
  /\ UNCHANGED <<session, endpoint, up, down>>

(* A packet of the client goes to the connection.  When there is none the  *)
(* read times out, or fails, which ends the connection too.                *)
bridge_udp ==
  /\ bridge.at = "udp"
  /\ LET c == bridge.conn
     IN  \/ /\ local = <<>>
            /\ \E at \in {"ws", "close"} : bridge' = [bridge EXCEPT !.at = at]
            /\ UNCHANGED <<client_addr, local, link>>
         \/ /\ local # <<>>
            /\ client_addr' = TRUE /\ local' = Tail(local)
            /\ link' = IF SendFails(c) THEN link
                       ELSE [link EXCEPT ![c].up = Append(@, Head(local))]
            /\ \/ bridge' = [bridge EXCEPT !.at = "ws"]
               \/ SendFails(c) /\ bridge' = [bridge EXCEPT !.at = "close"]
  /\ UNCHANGED <<session, endpoint, up, down>>

(* Mutant: a read does not time out (connect_ws sets no timeout).          *)
ReadTimesOut_never(c, closed) == FALSE

(* Mutant: the other end's Close is passed over like a Ping.               *)
ReadFails_cut(c, closed) == link[c].state = "cut"

(* What a read that finds no message does: time out, or tell that the      *)
(* other end has closed the connection, or that it has failed.             *)
ReadTimesOut(c, closed) == link[c].state # closed
ReadFails(c, closed) == link[c].state \in {closed, "cut"}

(* A packet of the connection goes to the client, if its address is known. *)
bridge_ws ==
  /\ bridge.at = "ws"
  /\ LET c == bridge.conn
     IN  \/ /\ link[c].down # <<>>
            /\ link' = [link EXCEPT ![c].down = Tail(@)]
            /\ down' = IF client_addr
                         THEN [down EXCEPT !.got = Append(@,
                                 [n |-> Head(link[c].down), via |-> c])]
                         ELSE down
            /\ bridge' = [bridge EXCEPT !.at = "udp"]
         \/ /\ link[c].down = <<>>
            /\ \/ ReadTimesOut(c, "dropped")
                  /\ bridge' = [bridge EXCEPT !.at = "udp"]
               \/ ReadFails(c, "dropped")
                  /\ bridge' = [bridge EXCEPT !.at = "close"]
            /\ UNCHANGED <<link, down>>
  /\ UNCHANGED <<client_addr, local, session, endpoint, up>>

(* ws.close; then, after a delay, the next connection.                     *)
bridge_close ==
  /\ bridge.at = "close"
  /\ LET c == bridge.conn
     IN  \E u \in Beginnings(link[c].up) :
           link' = [link EXCEPT ![c] =
                      [state |-> IF @.state = "open" THEN "left" ELSE "gone",
                       up |-> u, down |-> <<>>]]
  /\ bridge' = [at |-> "connect", conn |-> 0]
  /\ UNCHANGED <<client_addr, local, session, endpoint, up, down>>

-----------------------------------------------------------------------------
(* handle_ws_client, the thread of connection c *)

(* The UDP socket is bound, or cannot be.                                  *)
handle_ws_client(c) ==
  /\ session[c].at = "start"
  /\ \E at \in {"ws", "close"} : session' = [session EXCEPT ![c].at = at]
  /\ UNCHANGED <<bridge, client_addr, local, link, endpoint, up, down>>

(* A packet of the connection goes to the server, which learns where to    *)
(* answer.  When it cannot be sent the session ends.                       *)
session_ws(c) ==
  /\ session[c].at = "ws"
  /\ \/ /\ link[c].up # <<>>
        /\ link' = [link EXCEPT ![c].up = Tail(@)]
        /\ \/ /\ session' = [session EXCEPT ![c].at = "udp"]
              /\ up' = [up EXCEPT !.got = Append(@,
                          [n |-> Head(link[c].up), via |-> c])]
              /\ endpoint' = c
           \/ /\ session' = [session EXCEPT ![c].at = "close"]
              /\ UNCHANGED <<up, endpoint>>
     \/ /\ link[c].up = <<>>
        /\ \/ ReadTimesOut(c, "left") /\ session' = [session EXCEPT ![c].at = "udp"]
           \/ ReadFails(c, "left") /\ session' = [session EXCEPT ![c].at = "close"]
        /\ UNCHANGED <<link, up, endpoint>>
  /\ UNCHANGED <<bridge, client_addr, local, down>>

(* A packet of the server goes to the connection.                          *)
session_udp(c) ==
  /\ session[c].at = "udp"
  /\ \/ /\ session[c].udp = <<>>
        /\ \E at \in {"ws", "close"} : session' = [session EXCEPT ![c].at = at]
        /\ UNCHANGED link
     \/ /\ session[c].udp # <<>>
        /\ link' = IF SendFails(c) THEN link
                   ELSE [link EXCEPT ![c].down = Append(@, Head(session[c].udp))]
        /\ \E at \in {"ws"} \union (IF SendFails(c) THEN {"close"} ELSE {}) :
             session' = [session EXCEPT ![c] = [at |-> at, udp |-> Tail(@.udp)]]
  /\ UNCHANGED <<bridge, client_addr, local, endpoint, up, down>>

session_close(c) ==
  /\ session[c].at = "close"
  /\ \E d \in Beginnings(link[c].down) :
       link' = [link EXCEPT ![c] =
                  [state |-> IF @.state = "open" THEN "dropped" ELSE @.state,
                   up |-> <<>>, down |-> d]]
  /\ session' = [session EXCEPT ![c] = [at |-> "ended", udp |-> <<>>]]
  /\ UNCHANGED <<bridge, client_addr, local, endpoint, up, down>>

-----------------------------------------------------------------------------
RelayNext ==
  \/ client_sends \/ server_sends
  \/ bridge_udp \/ bridge_ws \/ bridge_close
  \/ \E c \in Connections :
       \/ cut(c) \/ connect_ws(c)
       \/ handle_ws_client(c)
       \/ session_ws(c) \/ session_udp(c) \/ session_close(c)

RelaySpec == RelayInit /\ [][RelayNext]_relayVars

(* The threads go on: every read and write has a timeout.                  *)
RelayFairness ==
  /\ WF_relayVars(bridge_udp \/ bridge_ws \/ bridge_close)
  /\ \A c \in Connections :
       WF_relayVars(handle_ws_client(c) \/ session_ws(c) \/ session_udp(c)
                    \/ session_close(c))

RelayFairSpec == RelaySpec /\ RelayFairness

-----------------------------------------------------------------------------
(* What the relay may do to a tunnel's packets: lose some, and reorder     *)
(* those of different connections.  None arrives twice, and those of one   *)
(* connection arrive in the order in which they were sent; and an answer   *)
(* always finds the client's address known, after any number of reconnects *)
(* (ws_bridge.rs, 105, has nothing to drop).                               *)
InOrder(got) ==
  /\ \A i, j \in DOMAIN got : i < j => got[i].n # got[j].n
  /\ \A i, j \in DOMAIN got :
       i < j /\ got[i].via = got[j].via => got[i].n < got[j].n

RelayedOnceInOrder ==
  /\ InOrder(up.got) /\ InOrder(down.got)
  /\ \A c \in Connections : link[c].down # <<>> => client_addr

(* While a connection lasts, neither direction waits for traffic of the    *)
(* other: whatever has come to either end of it is passed on.              *)
Underway(c) ==
  /\ bridge.conn = c /\ link[c].state = "open"
  /\ local \o link[c].up \o link[c].down \o session[c].udp # <<>>

NothingStalls == \A c \in Connections : Underway(c) ~> ~ Underway(c)

(* The thread of a connection that the client has closed ends, and does    *)
(* not keep the client from getting the next one: sessions do not pile up, *)
(* those of connections apart that were cut without notice.                *)
SessionsEnd ==
  \A c \in Connections : link[c].state = "left" ~> session[c].at = "ended"

=============================================================================
