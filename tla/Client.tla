------------------------------- MODULE Client -------------------------------
(***************************************************************************)
(* The desktop client: the window (App.tsx), the commands it invokes       *)
(* (lib.rs) and the connection manager (vpn.rs), which changes the system  *)
(* one command at a time and undoes what it did when a step fails, with a  *)
(* health check that outlives the step that started it.                    *)
(*                                                                         *)
(* The system is the set of what has been installed in it.  Commands that  *)
(* install fail or succeed as a whole; those that remove are taken to      *)
(* succeed.  Messages from the commands reach the window in the order they *)
(* were sent.                                                              *)
(***************************************************************************)
EXTENDS Sequences, Functions

CONSTANTS Platform,      \* target_os
          HumanOnly,     \* the selected server wants a World ID proof
          Resolvconf,    \* the system has resolvconf (Linux)
          MayFail,       \* steps of connect that may fail
          MaxConnects, MaxStarts, MaxPolls, MaxDeaths   \* bounds

ASSUME ClientAssumption ==
  /\ Platform \in {"linux", "macos"}
  /\ HumanOnly \in BOOLEAN /\ Resolvconf \in BOOLEAN
  /\ MaxConnects \in Nat /\ MaxStarts \in Nat /\ MaxPolls \in Nat /\ MaxDeaths \in Nat

VARIABLES
  \* the window
  status, worldProof,
  starting,   \* calls of start_world_id that have not returned
  polling,    \* is the interval of pollingRef set?  The QR code is open while it is
  orphaned,   \* is one set that pollingRef no longer names?
  polls,      \* polls that have not returned
  polled,     \* polls so far
  inbox,      \* events and results on their way to the window
  \* the commands and the VpnManager
  waiting,    \* commands that wait for the lock on the manager
  step,       \* the step of the connect that holds it, 0 if none
  ctx,        \* the connection in self.ctx, 0 if None
  health,     \* the health check of each connection
  cancelled,  \* connections whose health_cancel was cancelled
  connects,   \* connections made so far
  deaths,     \* times boringtun-cli has died by itself
  \* the machine
  system,
  readable,   \* could resolv.conf be read before the first connection?
  \* history: a connect was refused because there was a connection
  refused

worldId == <<starting, polling, orphaned, polls, polled>>
window == <<status, worldProof, worldId>>
machine == <<system, readable>>
manager == <<step, ctx, health, cancelled, connects, deaths, machine, refused>>
vars == <<window, inbox, waiting, manager>>

-----------------------------------------------------------------------------
(* What connect installs, and what undoes it *)

Routes == IF Platform = "linux" THEN <<"fwmark", "rule", "table", "rule_main">>
                                ELSE <<"server_route", "low_half", "high_half">>
Dns == IF Platform = "macos" THEN "networksetup"
       ELSE IF Resolvconf THEN "resolvconf" ELSE "resolv.conf"

Steps == <<"register", "process", "interface", "wireguard", "address", "original_saved">>
           \o Routes \o <<Dns, "balance">>
LastStep == Len(Steps)
At(name) == CHOOSE i \in 1..LastStep : Steps[i] = name

(* Steps that leave nothing behind.                                        *)
Reads == {"register", "original_saved", "balance"}

OfInterface == {"interface", "address", "table", "low_half", "high_half"}
OfProcess == OfInterface \union {"process", "wireguard", "fwmark"}

kill_boringtun(S) == S \ OfProcess
teardown_interface(S) == S \ OfInterface
teardown_routes(S) == S \ (Range(Routes) \ {"fwmark"})

(* save_original_dns takes a resolv.conf that cannot be read for empty, an *)
(* empty backup is not written back, and a later one holds what was left   *)
(* then.  resolvconf is not told.                                          *)
restore_dns(S) == IF readable THEN S \ {"resolv.conf", "networksetup"} ELSE S

(* Mutant: the interface is left to boringtun-cli, the routes to it.       *)
cleanup_process_only(S, i) == IF i > At("process") THEN kill_boringtun(S) ELSE S

(* Cleanup::run when step i fails: what was pushed, last first.            *)
cleanup(S, i) ==
  LET routes == IF i > At(Routes[Len(Routes)]) THEN teardown_routes(S) ELSE S
      iface  == IF i > At("address") THEN teardown_interface(routes) ELSE routes
  IN  IF i > At("process") THEN kill_boringtun(iface) ELSE iface

(* Can step i succeed on this system?  A rule that is there cannot be      *)
(* added again.                                                            *)
Possible(S, i) ==
  /\ Steps[i] \in Range(Routes) \ OfProcess => Steps[i] \notin S
  /\ Steps[i] \in {"interface", "wireguard", "fwmark"} => "process" \in S
  /\ Steps[i] \in OfInterface \ {"interface"} => "interface" \in S

Installed(S, i) ==
  CASE Steps[i] = "process" -> kill_boringtun(S) \union {"process"}
    [] Steps[i] \in Reads   -> S
    [] OTHER                -> S \union {Steps[i]}

-----------------------------------------------------------------------------
Init ==
  /\ status = "disconnected" /\ worldProof = FALSE
  /\ starting = 0 /\ polling = FALSE /\ orphaned = FALSE /\ polls = 0 /\ polled = 0
  /\ inbox = <<>> /\ waiting = <<>> /\ step = 0 /\ ctx = 0
  /\ health = [c \in 1..MaxConnects |-> "none"] /\ cancelled = {}
  /\ connects = 0 /\ deaths = 0 /\ system = {} /\ refused = FALSE
  /\ readable \in IF Platform = "linux" THEN BOOLEAN ELSE {TRUE}

Event(s) == [of |-> "event", status |-> s]
Result(command, ok) == [of |-> command, ok |-> ok]

-----------------------------------------------------------------------------
(* The window *)

invoke(command, announced) ==
  /\ waiting' = Append(waiting, command)
  /\ inbox' = Append(inbox, Event(announced))
  /\ UNCHANGED manager

doConnect ==
  /\ connects + Len(waiting) < MaxConnects
  /\ status' = "connecting"
  /\ invoke("connect", "connecting")

(* The button: disabled while loading, not while World ID is under way.    *)
handleClick ==
  \/ /\ status \in {"connected", "error"}
     /\ status' = "disconnecting"
     /\ invoke("disconnect", "disconnecting")
     /\ UNCHANGED <<worldProof, worldId>>
  \/ /\ status = "disconnected" /\ (HumanOnly => worldProof)
     /\ doConnect
     /\ UNCHANGED <<worldProof, worldId>>
  \/ /\ status = "disconnected" /\ HumanOnly /\ ~ worldProof
     /\ starting < MaxStarts /\ polled < MaxPolls /\ starting' = starting + 1
     /\ UNCHANGED <<status, worldProof, polling, orphaned, polls, polled, inbox, waiting, manager>>

(* start_world_id has failed, or an interval is set.  One set before goes  *)
(* on, and nothing can clear it.                                           *)
start_returns ==
  /\ starting > 0 /\ starting' = starting - 1
  /\ \/ UNCHANGED <<polling, orphaned>>
     \/ polling' = TRUE /\ orphaned' = (orphaned \/ polling)
  /\ UNCHANGED <<status, worldProof, polls, polled, inbox, waiting, manager>>

(* The user closes the QR code.  Polls that are under way return.          *)
closeWorldId ==
  /\ polling /\ polling' = FALSE
  /\ UNCHANGED <<status, worldProof, starting, orphaned, polls, polled, inbox, waiting, manager>>

(* Every 1.5 s another poll, whether or not the last one has returned.     *)
poll_world_id ==
  /\ polling \/ orphaned
  /\ polled < MaxPolls
  /\ polls' = polls + 1 /\ polled' = polled + 1
  /\ UNCHANGED <<status, worldProof, starting, polling, orphaned, inbox, waiting, manager>>

(* A poll returns: confirmed, failed, or to be repeated.  Confirmation     *)
(* connects at once.                                                       *)
poll_returns ==
  /\ polls > 0
  /\ polls' = polls - 1
  /\ \/ /\ polling' = FALSE /\ worldProof' = TRUE
        /\ doConnect
     \/ /\ polling' \in {polling, FALSE}
        /\ UNCHANGED <<status, worldProof, inbox, waiting, manager>>
  /\ UNCHANGED <<starting, orphaned, polled>>

(* Mutant: a failed connect is shown like a successful one.                *)
shown_optimist(m) ==
  CASE m.of = "event"      -> m.status
    [] m.of = "health"     -> "error"
    [] m.of = "connect"    -> "connected"
    [] m.of = "disconnect" -> "disconnected"

(* The status a message leads to.                                          *)
shown(m) ==
  CASE m.of = "event"      -> m.status
    [] m.of = "health"     -> "error"
    [] m.of = "connect"    -> IF m.ok THEN "connected" ELSE "disconnected"
    [] m.of = "disconnect" -> "disconnected"

receive ==
  /\ inbox # <<>>
  /\ status' = shown(Head(inbox))
  /\ worldProof' = (worldProof /\ Head(inbox) # Result("disconnect", TRUE))
  /\ inbox' = Tail(inbox)
  /\ UNCHANGED <<worldId, waiting, manager>>

-----------------------------------------------------------------------------
(* VpnManager *)

(* Mutant: connect replaces the connection there is.                       *)
already_connected_never == FALSE

already_connected == ctx # 0

(* A connect takes the lock, and gives it up if there is a connection.     *)
connect ==
  /\ step = 0 /\ waiting # <<>> /\ Head(waiting) = "connect"
  /\ waiting' = Tail(waiting)
  /\ IF already_connected
       THEN /\ inbox' = inbox \o <<Event("error"), Result("connect", FALSE)>>
            /\ refused' = TRUE
            /\ UNCHANGED <<step, connects>>
       ELSE /\ step' = 1 /\ connects' = connects + 1
            /\ UNCHANGED <<inbox, refused>>
  /\ UNCHANGED <<window, ctx, health, cancelled, deaths, machine>>

(* The next step succeeds.  With the last one the health check starts and  *)
(* the connection is there.                                                *)
connect_step ==
  /\ step \in 1..(LastStep - 1) /\ Possible(system, step)
  /\ system' = Installed(system, step)
  /\ step' = step + 1
  /\ IF Steps[step] = Dns
       THEN ctx' = connects /\ health' = [health EXCEPT ![connects] = "waiting"]
       ELSE UNCHANGED <<ctx, health>>
  /\ UNCHANGED <<window, inbox, waiting, cancelled, connects, deaths, readable, refused>>

(* A step fails, and those before it are undone.  find_available_iface and *)
(* boringtun_binary fail after stale processes were killed.                *)
connect_fails ==
  /\ step \in 1..(LastStep - 1)
  /\ Steps[step] \in MayFail \/ ~ Possible(system, step)
  /\ system' = LET S == IF Steps[step] = "process" THEN kill_boringtun(system) ELSE system
               IN  cleanup(S, step)
  /\ step' = 0
  /\ inbox' = inbox \o <<Event("error"), Result("connect", FALSE)>>
  /\ UNCHANGED <<window, waiting, ctx, health, cancelled, connects, deaths, readable, refused>>

(* Mutant: no timeout.                                                     *)
query_gateway_balance_hangs == FALSE

(* The balance is known, or its request has failed or timed out.           *)
query_gateway_balance == step = LastStep

connect_returns ==
  /\ query_gateway_balance
  /\ step' = 0
  /\ inbox' = inbox \o <<Event("connected"), Result("connect", TRUE)>>
  /\ UNCHANGED <<window, waiting, ctx, health, cancelled, connects, deaths, machine, refused>>

disconnect ==
  /\ step = 0 /\ waiting # <<>> /\ Head(waiting) = "disconnect"
  /\ waiting' = Tail(waiting)
  /\ inbox' = inbox \o <<Event("disconnected"), Result("disconnect", ctx # 0)>>
  /\ IF ctx = 0 THEN UNCHANGED <<ctx, cancelled, system>>
     ELSE /\ ctx' = 0 /\ cancelled' = cancelled \union {ctx}
          /\ system' = kill_boringtun(teardown_interface(teardown_routes(restore_dns(system))))
  /\ UNCHANGED <<window, step, health, connects, deaths, readable, refused>>

-----------------------------------------------------------------------------
(* The health check of connection c, and the process it watches *)

(* Mutant: a dead process ends the check.                                  *)
health_check_silent(c) ==
  /\ health[c] = "waiting"
  /\ health' = [health EXCEPT ![c] = "done"]
  /\ c \in cancelled \/ "process" \notin system

(* Cancelled, or the process is found dead; else it waits on.              *)
health_check(c) ==
  /\ health[c] = "waiting"
  /\ \/ c \in cancelled /\ health' = [health EXCEPT ![c] = "done"]
     \/ "process" \notin system /\ health' = [health EXCEPT ![c] = "dead"]

start_health_check(c) ==
  /\ health_check(c)
  /\ UNCHANGED <<window, inbox, waiting, step, ctx, cancelled, connects, deaths, machine, refused>>

(* The death is reported, whatever has happened since.                     *)
health_reports(c) ==
  /\ health[c] = "dead"
  /\ health' = [health EXCEPT ![c] = "done"]
  /\ inbox' = inbox \o <<[of |-> "health"], Event("error")>>
  /\ UNCHANGED <<window, waiting, step, ctx, cancelled, connects, deaths, machine, refused>>

boringtun_dies ==
  /\ "process" \in system /\ deaths < MaxDeaths
  /\ deaths' = deaths + 1
  /\ system' = kill_boringtun(system)
  /\ UNCHANGED <<window, inbox, waiting, step, ctx, health, cancelled, connects, readable, refused>>

-----------------------------------------------------------------------------
Manager == connect \/ connect_step \/ connect_fails \/ connect_returns \/ disconnect

Next ==
  \/ handleClick \/ start_returns \/ closeWorldId \/ poll_world_id \/ poll_returns \/ receive
  \/ Manager
  \/ \E c \in 1..MaxConnects : start_health_check(c) \/ health_reports(c)
  \/ boringtun_dies

Spec == Init /\ [][Next]_vars

(* Requests and commands return or time out, the window handles its        *)
(* messages, and the health check's sleeps end.                            *)
Fairness ==
  /\ WF_vars(receive) /\ WF_vars(Manager)
  /\ \A c \in 1..MaxConnects : WF_vars(start_health_check(c) \/ health_reports(c))

FairSpec == Spec /\ Fairness

-----------------------------------------------------------------------------
(* While there is a connection and its process lives, everything connect   *)
(* installed is in place: no other command takes a part of it away.        *)
ConnectedIsConfigured ==
  ctx # 0 /\ "process" \in system => Range(Steps) \ Reads \subseteq system

AllButLastRoute == {Routes[i] : i \in 1..(Len(Routes) - 1)}

(* Nothing of a connect that failed, at whichever step, nor of a           *)
(* connection that has ended carries traffic: no process, no interface, no *)
(* route through it, and never all of the rules.  The VPN's name servers   *)
(* stay where they were set through resolvconf, or where the resolv.conf   *)
(* from before could not be saved.                                         *)
TunnelIsGone ==
  ctx = 0 /\ step = 0 =>
    /\ system \subseteq (AllButLastRoute \ OfProcess) \union {"resolvconf", "resolv.conf"}
    /\ "resolv.conf" \in system => ~ readable

(* vpn.rs:13 says "On disconnect: reverse all steps, restore original      *)
(* state", and vpn.rs:14 "On any failure: rollback all completed steps     *)
(* automatically": without a connection, nothing of one is left.           *)
NothingIsLeft == ctx = 0 /\ step = 0 => system = {}

(* When everything has been handled, the window does not show a connection *)
(* that is not there, nor hide one; unless a second connect was refused.   *)
Quiet == inbox = <<>> /\ waiting = <<>> /\ step = 0
ShownAsItIs ==
  Quiet => /\ status = "connected" => ctx # 0
           /\ status = "disconnected" /\ ctx # 0 => refused

(* The window is not busy for ever.                                        *)
BusyEnds ==
  status \in {"connecting", "disconnecting"} ~> status \notin {"connecting", "disconnecting"}

(* A process that is found dead, or is yet to be, once connect has         *)
(* returned: its connection is shown as broken and stays so until the user *)
(* ends it, unless another connect is refused.  (A death that is reported  *)
(* while connect waits for the balance is overwritten by its result.)      *)
DeathIsShown ==
  \A c \in 1..MaxConnects :
    (ctx = c /\ step = 0 /\ health[c] \in {"waiting", "dead"} /\ "process" \notin system)
      ~> (ctx # c \/ refused \/ [](status = "error"))

=============================================================================
