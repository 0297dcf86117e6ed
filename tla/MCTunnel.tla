------------------------------ MODULE MCTunnel ------------------------------
(***************************************************************************)
(* Tunnel for TLC: one endpoint starts two handshakes, the other one,     *)
(* and time passes on the first.                                           *)
(***************************************************************************)
EXTENDS Tunnel, TLC

CONSTANTS a, b

TwoAndOne == (a :> 2) @@ (b :> 1)
OneAndZero == (a :> 1) @@ (b :> 0)
=============================================================================
