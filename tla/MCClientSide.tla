----------------------------- MODULE MCClientSide ----------------------------
(***************************************************************************)
(* Instances for TLC of the two programs on the client's side of the       *)
(* tunnel: the desktop client, for what must happen in it, and the relay   *)
(* over WebSocket.  They share no state: a behaviour is one of one of      *)
(* them, part says which; the variables of the other stay as they are.     *)
(***************************************************************************)
EXTENDS Client, WsRelay

AllSteps == Range(Steps)

VARIABLE part

sideVars == <<part, vars, relayVars>>

SideInit == part \in {"client", "relay"} /\ Init /\ RelayInit

Clicking == part = "client" /\ Next /\ UNCHANGED <<part, relayVars>>
Relaying == part = "relay" /\ RelayNext /\ UNCHANGED <<part, vars>>

SideNext == Clicking \/ Relaying

(* What is fair of one is disabled in the initial state of the other: no   *)
(* command was given, and there is no connection.                          *)
SideSpec == SideInit /\ [][SideNext]_sideVars /\ Fairness /\ RelayFairness

==============================================================================
