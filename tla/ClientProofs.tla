---------------------------- MODULE ClientProofs ----------------------------
(***************************************************************************)
(* Proofs about the client's side: what holds of the desktop client on     *)
(* every platform, whichever steps of connect may fail and however often   *)
(* it is used (what is on the machine, and what the window shows); and     *)
(* that packets pass the WebSocket relay at most once, and in order per    *)
(* connection, for any number of connections and packets and any size of   *)
(* the buffers.                                                            *)
(***************************************************************************)
EXTENDS Client, WsRelay, TLAPS

(* A step that names no prover is left to Zenon.                           *)
USE ZenonT(30)

-----------------------------------------------------------------------------
(* The desktop client *)

(* What the steps before step i have installed, and what may be there      *)
(* although nobody is connected: the beginning of the routes of a connect  *)
(* that failed, the entry that restore_dns leaves to resolvconf, and the   *)
(* resolv.conf that it has nothing to replace by.                          *)
Done(i) == {Steps[j] : j \in 1..(i - 1)} \ Reads
Left == (AllButLastRoute \ OfProcess) \union ({Dns} \intersect {"resolvconf"})
          \union (IF readable THEN {} ELSE {"resolv.conf"})

(* The machine while connect is at step i, or has come to its last one.    *)
Upto(i) ==
  /\ system \subseteq Left \union Done(i)
  /\ i > At("process") /\ "process" \in system => Done(i) \subseteq system

SystemInv ==
  /\ readable \in BOOLEAN /\ (Platform # "linux" => readable)
  /\ step \in 0..LastStep /\ connects \in Nat /\ (step # 0 => connects # 0)
  /\ step \in 1..(LastStep - 1) => ctx = 0 /\ Upto(step)
  /\ step = LastStep => ctx # 0
  /\ step = 0 /\ ctx = 0 => system \subseteq Left
  /\ ctx # 0 => Upto(LastStep)

Last(q) == q[Len(q)]

(* What the window will show when it has handled its messages.             *)
Final == IF inbox = <<>> THEN status ELSE shown(Last(inbox))

Messages == [of : {"event"}, status : {"connecting", "connected", "disconnecting",
                                       "disconnected", "error"}]
              \union [of : {"connect", "disconnect"}, ok : BOOLEAN]
              \union [of : {"health"}]

WindowInv ==
  /\ inbox \in Seq(Messages) /\ waiting \in Seq({"connect", "disconnect"})
  /\ waiting = <<>> /\ step = 0 => /\ Final = "connected" => ctx # 0
                                   /\ Final = "disconnected" /\ ctx # 0 => refused

-----------------------------------------------------------------------------
(* The steps *)

(* s is a, b and c, of lengths k, l and m, one after the other.            *)
Joins(s, a, b, c, k, l, m) ==
  /\ Len(s) = (k + l) + m
  /\ \A i \in 1..k : s[i] = a[i]
  /\ \A i \in 1..l : s[k + i] = b[i]
  /\ \A i \in 1..m : s[(k + l) + i] = c[i]

LEMMA Joined ==
  ASSUME NEW S, NEW a \in Seq(S), NEW b \in Seq(S), NEW c \in Seq(S),
         NEW k \in Nat, NEW l \in Nat, NEW m \in Nat, Len(a) = k, Len(b) = l, Len(c) = m
  PROVE  Joins(a \o b \o c, a, b, c, k, l, m)
<1>1. ASSUME NEW x \in Seq(S), NEW y \in Seq(S)
      PROVE  /\ x \o y \in Seq(S) /\ Len(x \o y) = Len(x) + Len(y)
             /\ \A i \in 1..Len(x) : (x \o y)[i] = x[i]
             /\ \A i \in 1..Len(y) : (x \o y)[Len(x) + i] = y[i]
  BY SMTT(30)
<1> DEFINE d == a \o b
<1>2. d \in Seq(S)
  BY SMTT(30)
<1>3. /\ Len(d) = k + l
      /\ \A i \in 1..k : d[i] = a[i]
      /\ \A i \in 1..l : d[k + i] = b[i]
  BY <1>1
<1> HIDE DEF d
<1>4. /\ Len(d \o c) = Len(d) + Len(c)
      /\ \A i \in 1..Len(d) : (d \o c)[i] = d[i]
      /\ \A i \in 1..Len(c) : (d \o c)[Len(d) + i] = c[i]
  BY <1>1, <1>2
<1>5. /\ \A i \in 1..k : i \in 1..Len(d)
      /\ \A i \in 1..l : k + i \in 1..Len(d)
  BY <1>3, SMTT(30)
<1> QED BY <1>3, <1>4, <1>5 DEF d, Joins

Names == {"register", "process", "interface", "wireguard", "address", "original_saved",
          "fwmark", "rule", "table", "rule_main", "server_route", "low_half", "high_half",
          "resolvconf", "resolv.conf", "networksetup", "balance"}

LEMMA DnsNames == Dns \in {"resolv.conf", "networksetup", "resolvconf"}
BY DEF Dns

(* What the proofs need to know of the steps, the same on every platform:  *)
(* where the process, the address and the last route are, that the DNS     *)
(* setting follows the routes, and what each step leaves behind.           *)
Layout ==
  /\ LastStep \in {11, 12} /\ DOMAIN Steps = 1..LastStep
  /\ At("process") = 2 /\ At("address") = 5 /\ At(Routes[Len(Routes)]) = LastStep - 2
  /\ Steps[1] \in Reads /\ Steps[2] = "process"
  /\ Steps[LastStep - 1] = Dns /\ Steps[LastStep] \in Reads
  /\ \A i \in 3..LastStep : Steps[i] # "process"
  /\ \A i \in 1..(LastStep - 2) : Steps[i] # Dns
  /\ \A i \in 3..(LastStep - 3) : Steps[i] \in OfProcess \union Reads \union AllButLastRoute
  /\ Steps[LastStep - 2] \in Range(Routes)
  /\ AllButLastRoute \subseteq Range(Routes)
  /\ "resolv.conf" \notin AllButLastRoute

LEMMA LinuxSteps ==
  ASSUME Platform = "linux"
  PROVE  Layout
<1> DEFINE a == <<"register", "process", "interface", "wireguard", "address", "original_saved">>
           b == <<"fwmark", "rule", "table", "rule_main">>
           c == <<Dns, "balance">>
<1>1. Steps = a \o b \o c /\ Routes = b
  BY DEF Steps, Routes
<1>2. Dns \in Names
  BY DnsNames DEF Names
<1>3. a \in Seq(Names) /\ Len(a) = 6
  BY SMTT(30) DEF Names
<1>4. b \in Seq(Names) /\ Len(b) = 4
  BY SMTT(30) DEF Names
<1>5. c \in Seq(Names) /\ Len(c) = 2
  BY <1>2, SMTT(30) DEF Names
<1>6. /\ a[1] = "register" /\ a[2] = "process" /\ a[3] = "interface"
      /\ a[4] = "wireguard" /\ a[5] = "address" /\ a[6] = "original_saved"
      /\ b[1] = "fwmark" /\ b[2] = "rule" /\ b[3] = "table" /\ b[4] = "rule_main"
      /\ c[1] = Dns /\ c[2] = "balance"
  OBVIOUS
<1>7. Routes[Len(Routes)] = "rule_main" /\ Range(Routes) = {"fwmark", "rule", "table", "rule_main"}
      /\ AllButLastRoute = {"fwmark", "rule", "table"}
  BY <1>1, SMTT(30) DEF Range, AllButLastRoute
<1> HIDE DEF a, b, c
<1>8. Joins(Steps, a, b, c, 6, 4, 2) /\ DOMAIN Steps = 1..Len(Steps)
  <2>1. Joins(Steps, a, b, c, 6, 4, 2)
    BY <1>1, <1>3, <1>4, <1>5, Joined
  <2>2. Steps \in Seq(Names)
    BY <1>1, <1>3, <1>4, <1>5, SMTT(30)
  <2> QED BY <2>1, <2>2, SMTT(30)
<1>9. /\ LastStep = 12 /\ DOMAIN Steps = 1..12
      /\ Steps[1] = "register" /\ Steps[2] = "process" /\ Steps[3] = "interface"
      /\ Steps[4] = "wireguard" /\ Steps[5] = "address" /\ Steps[6] = "original_saved"
      /\ Steps[7] = "fwmark" /\ Steps[8] = "rule" /\ Steps[9] = "table"
      /\ Steps[10] = "rule_main" /\ Steps[11] = Dns /\ Steps[12] = "balance"
  BY <1>6, <1>8, SMTT(30) DEF LastStep, Joins
<1>10. /\ At("process") = 2 /\ At("address") = 5 /\ At(Routes[Len(Routes)]) = 10
  BY <1>7, <1>9, DnsNames, SMTT(30) DEF At
<1>11. /\ \A i \in 3..LastStep : Steps[i] # "process"
       /\ \A i \in 1..(LastStep - 2) : Steps[i] # Dns
  BY <1>9, DnsNames, SMTT(30)
<1>12. \A i \in 3..(LastStep - 3) :
         Steps[i] \in OfProcess \union Reads \union AllButLastRoute
  BY <1>7, <1>9, SMTT(30) DEF OfProcess, OfInterface, Reads
<1> QED BY <1>7, <1>9, <1>10, <1>11, <1>12, SMTT(30) DEF Layout, Reads

LEMMA MacSteps ==
  ASSUME Platform = "macos"
  PROVE  Layout
<1> DEFINE a == <<"register", "process", "interface", "wireguard", "address", "original_saved">>
           b == <<"server_route", "low_half", "high_half">>
           c == <<Dns, "balance">>
<1>1. Steps = a \o b \o c /\ Routes = b
  BY DEF Steps, Routes
<1>2. Dns \in Names
  BY DnsNames DEF Names
<1>3. a \in Seq(Names) /\ Len(a) = 6
  BY SMTT(30) DEF Names
<1>4. b \in Seq(Names) /\ Len(b) = 3
  BY SMTT(30) DEF Names
<1>5. c \in Seq(Names) /\ Len(c) = 2
  BY <1>2, SMTT(30) DEF Names
<1>6. /\ a[1] = "register" /\ a[2] = "process" /\ a[3] = "interface"
      /\ a[4] = "wireguard" /\ a[5] = "address" /\ a[6] = "original_saved"
      /\ b[1] = "server_route" /\ b[2] = "low_half" /\ b[3] = "high_half"
      /\ c[1] = Dns /\ c[2] = "balance"
  OBVIOUS
<1>7. Routes[Len(Routes)] = "high_half" /\ Range(Routes) = {"server_route", "low_half", "high_half"}
      /\ AllButLastRoute = {"server_route", "low_half"}
  BY <1>1, SMTT(30) DEF Range, AllButLastRoute
<1> HIDE DEF a, b, c
<1>8. Joins(Steps, a, b, c, 6, 3, 2) /\ DOMAIN Steps = 1..Len(Steps)
  <2>1. Joins(Steps, a, b, c, 6, 3, 2)
    BY <1>1, <1>3, <1>4, <1>5, Joined
  <2>2. Steps \in Seq(Names)
    BY <1>1, <1>3, <1>4, <1>5, SMTT(30)
  <2> QED BY <2>1, <2>2, SMTT(30)
<1>9. /\ LastStep = 11 /\ DOMAIN Steps = 1..11
      /\ Steps[1] = "register" /\ Steps[2] = "process" /\ Steps[3] = "interface"
      /\ Steps[4] = "wireguard" /\ Steps[5] = "address" /\ Steps[6] = "original_saved"
      /\ Steps[7] = "server_route" /\ Steps[8] = "low_half" /\ Steps[9] = "high_half"
      /\ Steps[10] = Dns /\ Steps[11] = "balance"
  BY <1>6, <1>8, SMTT(30) DEF LastStep, Joins
<1>10. /\ At("process") = 2 /\ At("address") = 5 /\ At(Routes[Len(Routes)]) = 9
  BY <1>7, <1>9, DnsNames, SMTT(30) DEF At
<1>11. /\ \A i \in 3..LastStep : Steps[i] # "process"
       /\ \A i \in 1..(LastStep - 2) : Steps[i] # Dns
  BY <1>9, DnsNames, SMTT(30)
<1>12. \A i \in 3..(LastStep - 3) :
         Steps[i] \in OfProcess \union Reads \union AllButLastRoute
  BY <1>7, <1>9, SMTT(30) DEF OfProcess, OfInterface, Reads
<1> QED BY <1>7, <1>9, <1>10, <1>11, <1>12, SMTT(30) DEF Layout, Reads

LEMMA StepsLayout == Layout
BY LinuxSteps, MacSteps, ClientAssumption

-----------------------------------------------------------------------------
(* The machine *)

LEMMA DoneSteps ==
  /\ Done(1) = {} /\ Done(2) = {} /\ Done(3) = {"process"}
  /\ \A i \in 2..LastStep - 1 :
       Done(i + 1) = IF Steps[i] \in Reads THEN Done(i) ELSE Done(i) \union {Steps[i]}
  /\ Done(LastStep) = Range(Steps) \ Reads
<1> USE StepsLayout DEF Layout
<1>1. Done(1) = {} /\ Done(2) = {}
  BY SMTT(30) DEF Done
<1>2. ASSUME NEW i \in 1..(LastStep - 1)
      PROVE  Done(i + 1) = IF Steps[i] \in Reads THEN Done(i) ELSE Done(i) \union {Steps[i]}
  <2>1. 1..((i + 1) - 1) = (1..(i - 1)) \union {i}
    BY SMTT(30)
  <2> QED BY <2>1 DEF Done
<1>3. Done(3) = {"process"}
  <2>1. 1..(3 - 1) = {1, 2}
    BY SMTT(30)
  <2>2. {Steps[j] : j \in 1..(3 - 1)} = {Steps[1], "process"}
    BY <2>1, SMTT(30)
  <2> QED BY <2>2 DEF Done, Reads
<1>4. Done(LastStep) = Range(Steps) \ Reads
  <2>1. 1..LastStep = (1..(LastStep - 1)) \union {LastStep}
    BY SMTT(30)
  <2>2. Range(Steps) = {Steps[j] : j \in 1..LastStep}
    BY DEF Range
  <2>3. Range(Steps) = {Steps[j] : j \in 1..(LastStep - 1)} \union {Steps[LastStep]}
    BY <2>1, <2>2
  <2> QED BY <2>3 DEF Done
<1>5. \A i \in 2..LastStep - 1 : i \in 1..(LastStep - 1)
  BY SMTT(30)
<1> HIDE StepsLayout DEF Layout
<1> QED BY <1>1, <1>2, <1>3, <1>4, <1>5

(* A connect that fails at step i leaves a beginning of the routes.        *)
LEMMA CleanedUp ==
  ASSUME NEW S, NEW i \in 1..(LastStep - 1), S \subseteq Left \union Done(i)
  PROVE  cleanup(S, i) \subseteq Left
<1> USE StepsLayout
<1>1. CASE i <= 2
  <2>1. Done(i) = {}
    BY <1>1, DoneSteps, SMTT(30) DEF Layout
  <2> QED BY <1>1, <2>1, SMTT(30) DEF cleanup, Layout, kill_boringtun
<1>2. CASE i > 2 /\ i <= LastStep - 2
  <2>1. cleanup(S, i) \subseteq S \ OfProcess
    BY <1>2, SMTT(30) DEF cleanup, Layout, kill_boringtun, teardown_interface
  <2>2. ASSUME NEW x \in Done(i) \ OfProcess
        PROVE  x \in AllButLastRoute
    <3>1. PICK j \in 1..(i - 1) : x = Steps[j] /\ x \notin Reads
      BY DEF Done
    <3>2. j \in 3..(LastStep - 3)
      BY <1>2, <3>1, SMTT(30) DEF Layout, OfProcess
    <3> QED BY <2>2, <3>1, <3>2 DEF Layout
  <2> QED BY <2>1, <2>2 DEF Left
<1>3. CASE i = LastStep - 1
  <2>1. cleanup(S, i) \subseteq (S \ (Range(Routes) \ {"fwmark"})) \ OfProcess
    BY <1>3, SMTT(30) DEF cleanup, Layout, kill_boringtun, teardown_interface, teardown_routes
  <2>2. ASSUME NEW x \in Done(i) \ OfProcess
        PROVE  x \in Range(Routes) \ {"fwmark"}
    <3>1. PICK j \in 1..(i - 1) : x = Steps[j] /\ x \notin Reads
      BY DEF Done
    <3>2. j \in 3..(LastStep - 3) \/ j = LastStep - 2
      BY <1>3, <2>2, <3>1, SMTT(30) DEF Layout, OfProcess
    <3> QED BY <2>2, <3>1, <3>2 DEF Layout, OfProcess
  <2> QED BY <2>1, <2>2
<1> QED BY <1>1, <1>2, <1>3, SMTT(30) DEF Layout

(* disconnect undoes all of it but an entry of resolvconf, and a           *)
(* resolv.conf whose backup is empty.                                      *)
LEMMA Undone ==
  ASSUME NEW S, S \subseteq Left \union Done(LastStep), Platform # "linux" => readable
  PROVE  kill_boringtun(teardown_interface(teardown_routes(restore_dns(S)))) \subseteq Left
<1> USE StepsLayout
<1> DEFINE U == kill_boringtun(teardown_interface(teardown_routes(restore_dns(S))))
<1>1. U \subseteq (restore_dns(S) \ (Range(Routes) \ {"fwmark"})) \ OfProcess
  BY DEF kill_boringtun, teardown_interface, teardown_routes
<1>2. ASSUME NEW x \in Done(LastStep) \ OfProcess
      PROVE  x \in Range(Routes) \ {"fwmark"} \/ x = Dns
  <2>1. PICK j \in 1..(LastStep - 1) : x = Steps[j] /\ x \notin Reads
    BY DEF Done
  <2>2. j \in 3..(LastStep - 3) \/ j = LastStep - 2 \/ j = LastStep - 1
    BY <1>2, <2>1, SMTT(30) DEF Layout, OfProcess
  <2> QED BY <1>2, <2>1, <2>2 DEF Layout, OfProcess
<1>3. Dns \notin restore_dns(S) \/ Dns \in Left
  <2>1. CASE readable
    BY <2>1, DnsNames DEF Left, restore_dns
  <2>2. CASE ~ readable
    <3>1. Dns \in {"resolv.conf", "resolvconf"}
      BY <2>2 DEF Dns
    <3> QED BY <2>2, <3>1 DEF Left
  <2> QED BY <2>1, <2>2
<1>4. restore_dns(S) \subseteq S
  BY DEF restore_dns
<1> HIDE DEF U
<1>5. U \subseteq Left
  BY <1>1, <1>2, <1>3, <1>4
<1> QED BY <1>5 DEF U

LEMMA SystemStep ==
  ASSUME SystemInv, [Next]_vars
  PROVE  SystemInv'
<1> USE StepsLayout DEF SystemInv
<1> DEFINE Rest == UNCHANGED <<step, ctx, connects, system>>
<1>0. readable' = readable
  BY DEF Next, Manager, vars, manager, machine, window, handleClick, start_returns, closeWorldId,
         poll_world_id, poll_returns, receive, doConnect, invoke, connect, connect_step,
         connect_fails, connect_returns, disconnect, start_health_check, health_reports,
         boringtun_dies
<1>a. Left' = Left
  BY <1>0 DEF Left
<1> USE <1>0, <1>a
<1>1. ASSUME Rest PROVE SystemInv'
  BY <1>1 DEF Upto
<1>2. ASSUME connect PROVE SystemInv'
  <2>1. CASE ctx # 0
    <3>1. Rest
      BY <1>2, <2>1 DEF connect, already_connected, machine
    <3> QED BY <1>1, <3>1
  <2>2. CASE ctx = 0
    <3>1. step = 0 /\ step' = 1 /\ connects' = connects + 1 /\ ctx' = 0 /\ system' = system
      BY <1>2, <2>2 DEF connect, already_connected, machine
    <3> QED BY <2>2, <3>1, SMTT(30) DEF Upto, Layout
  <2> QED BY <2>1, <2>2
<1>3. ASSUME connect_step PROVE SystemInv'
  <2> DEFINE i == step
  <2>1. /\ i \in 1..(LastStep - 1) /\ ctx = 0 /\ Upto(i) /\ connects \in Nat \ {0}
        /\ step' = i + 1 /\ connects' = connects
        /\ system' = Installed(system, i)
        /\ ctx' = IF Steps[i] = Dns THEN connects ELSE ctx
    BY <1>3, SMTT(30) DEF connect_step, Layout
  <2> HIDE DEF i
  <2>2. system' \subseteq Left \union Done(i + 1)
    <3>1. CASE i = 1
      BY <2>1, <3>1, DoneSteps DEF Upto, Installed, Layout, Reads
    <3>2. CASE i = 2
      BY <2>1, <3>2, DoneSteps, SMTT(30) DEF Upto, Installed, Layout, kill_boringtun
    <3>3. CASE i > 2
      <4>1. Steps[i] # "process"
        BY <2>1, <3>3, SMTT(30) DEF Layout
      <4>2. Done(i + 1) = IF Steps[i] \in Reads THEN Done(i) ELSE Done(i) \union {Steps[i]}
        BY <2>1, <3>3, DoneSteps, SMTT(30)
      <4>3. system' = IF Steps[i] \in Reads THEN system ELSE system \union {Steps[i]}
        BY <2>1, <4>1 DEF Installed
      <4> QED BY <2>1, <4>2, <4>3 DEF Upto
    <3> QED BY <2>1, <3>1, <3>2, <3>3, SMTT(30)
  <2>3. i + 1 > 2 /\ "process" \in system' => Done(i + 1) \subseteq system'
    <3>1. CASE i = 1
      BY <3>1, SMTT(30)
    <3>2. CASE i = 2
      BY <2>1, <3>2, DoneSteps, SMTT(30) DEF Installed, Layout
    <3>3. CASE i > 2
      <4>1. Steps[i] # "process"
        BY <2>1, <3>3, SMTT(30) DEF Layout
      <4>2. Done(i + 1) = IF Steps[i] \in Reads THEN Done(i) ELSE Done(i) \union {Steps[i]}
        BY <2>1, <3>3, DoneSteps, SMTT(30)
      <4>3. system' = IF Steps[i] \in Reads THEN system ELSE system \union {Steps[i]}
        BY <2>1, <4>1 DEF Installed
      <4> QED BY <2>1, <3>3, <4>1, <4>2, <4>3 DEF Upto, Layout
    <3> QED BY <2>1, <3>1, <3>2, <3>3, SMTT(30)
  <2>4. i + 1 \in 1..LastStep
    BY <2>1, SMTT(30) DEF Layout
  <2>5. CASE i = LastStep - 1
    <3>1. ctx' # 0 /\ i + 1 = LastStep
      BY <2>1, <2>5, SMTT(30) DEF Layout
    <3> QED BY <2>1, <2>2, <2>3, <2>4, <3>1, SMTT(30) DEF Upto, Layout
  <2>6. CASE i # LastStep - 1
    <3>1. ctx' = 0 /\ i + 1 \in 1..(LastStep - 1)
      BY <2>1, <2>6, SMTT(30) DEF Layout
    <3> QED BY <2>1, <2>2, <2>3, <3>1, SMTT(30) DEF Upto, Layout
  <2> QED BY <2>5, <2>6
<1>4. ASSUME connect_fails PROVE SystemInv'
  <2> DEFINE S == IF Steps[step] = "process" THEN kill_boringtun(system) ELSE system
  <2>1. /\ step \in 1..(LastStep - 1) /\ ctx = 0 /\ Upto(step)
        /\ step' = 0 /\ connects' = connects /\ ctx' = 0 /\ system' = cleanup(S, step)
    BY <1>4 DEF connect_fails, Layout
  <2>2. S \subseteq Left \union Done(step)
    BY <2>1 DEF Upto, kill_boringtun
  <2> HIDE DEF S
  <2>3. system' \subseteq Left
    BY <2>1, <2>2, CleanedUp
  <2> QED BY <2>1, <2>3, SMTT(30) DEF Layout
<1>5. ASSUME connect_returns PROVE SystemInv'
  BY <1>5, SMTT(30) DEF connect_returns, query_gateway_balance, machine, Upto, Layout
<1>6. ASSUME disconnect PROVE SystemInv'
  <2>1. CASE ctx = 0
    BY <1>1, <1>6, <2>1 DEF disconnect
  <2>2. CASE ctx # 0
    <3>1. /\ step = 0 /\ step' = 0 /\ ctx' = 0 /\ connects' = connects
          /\ system' = kill_boringtun(teardown_interface(teardown_routes(restore_dns(system))))
      BY <1>6, <2>2 DEF disconnect
    <3>2. system' \subseteq Left
      BY <2>2, <3>1, Undone DEF Upto
    <3> QED BY <3>1, <3>2, SMTT(30) DEF Layout
  <2> QED BY <2>1, <2>2
<1>7. ASSUME boringtun_dies PROVE SystemInv'
  <2>1. /\ UNCHANGED <<step, ctx, connects>> /\ system' \subseteq system
        /\ "process" \notin system'
    BY <1>7 DEF boringtun_dies, kill_boringtun, OfProcess
  <2> QED BY <2>1 DEF Upto
<1>8. ASSUME \/ handleClick \/ start_returns \/ closeWorldId \/ poll_world_id \/ poll_returns
             \/ receive
      PROVE  SystemInv'
  BY <1>1, <1>8 DEF handleClick, start_returns, closeWorldId, poll_world_id, poll_returns, receive,
                    doConnect, invoke, manager, machine
<1>9. ASSUME NEW c \in 1..MaxConnects, start_health_check(c) \/ health_reports(c)
      PROVE  SystemInv'
  BY <1>1, <1>9 DEF start_health_check, health_reports, machine
<1>10. ASSUME UNCHANGED vars PROVE SystemInv'
  BY <1>1, <1>10 DEF vars, manager, machine
<1> QED BY <1>2, <1>3, <1>4, <1>5, <1>6, <1>7, <1>8, <1>9, <1>10 DEF Next, Manager

-----------------------------------------------------------------------------
(* The window *)

(* What is added to the inbox last is what the window will show.           *)
LEMMA Announced ==
  ASSUME NEW q \in Seq(Messages), NEW m \in Messages, NEW n \in Messages
  PROVE  /\ Append(q, n) \in Seq(Messages) /\ Append(q, n) # <<>>
         /\ Last(Append(q, n)) = n
         /\ q \o <<m, n>> \in Seq(Messages) /\ q \o <<m, n>> # <<>>
         /\ Last(q \o <<m, n>>) = n
<1>1. /\ Append(q, n) \in Seq(Messages) /\ Append(q, n) # <<>>
      /\ Last(Append(q, n)) = n
  BY SMTT(30) DEF Last
<1>2. /\ q \o <<m, n>> \in Seq(Messages) /\ Len(q \o <<m, n>>) = Len(q) + 2
      /\ (q \o <<m, n>>)[Len(q) + 2] = n
  BY SMTT(30)
<1> QED BY <1>1, <1>2, SMTT(30) DEF Last

LEMMA LastOfTail ==
  ASSUME NEW q \in Seq(Messages), q # <<>>, Len(q) # 1
  PROVE  Tail(q) # <<>> /\ Last(Tail(q)) = Last(q)
<1> DEFINE n == Len(q)
<1>1. n \in Nat /\ n # 0 /\ n # 1
  BY SMTT(30)
<1>2. Tail(q) \in Seq(Messages) /\ Len(Tail(q)) = n - 1
  BY <1>1, SMTT(30)
<1>3. \A i \in 1..(n - 1) : Tail(q)[i] = q[i + 1]
  BY SMTT(30)
<1>4. Last(Tail(q)) = Tail(q)[n - 1] /\ Last(q) = q[n]
  BY <1>2 DEF Last
<1> HIDE DEF n
<1>5. n - 1 # 0 /\ n - 1 \in 1..(n - 1) /\ (n - 1) + 1 = n
  BY <1>1, SMTT(30)
<1>6. Len(<<>>) = 0
  OBVIOUS
<1>7. Tail(q) # <<>>
  BY <1>2, <1>5, <1>6
<1> QED BY <1>3, <1>4, <1>5, <1>7

LEMMA MessagesSent ==
  /\ \A s \in {"connecting", "connected", "disconnecting", "disconnected", "error"} :
       Event(s) \in Messages /\ shown(Event(s)) = s
  /\ \A ok \in BOOLEAN :
       /\ Result("connect", ok) \in Messages
       /\ shown(Result("connect", ok)) = IF ok THEN "connected" ELSE "disconnected"
       /\ Result("disconnect", ok) \in Messages
       /\ shown(Result("disconnect", ok)) = "disconnected"
  /\ [of |-> "health"] \in Messages
BY DEF Messages, Event, Result, shown

LEMMA WindowStep ==
  ASSUME SystemInv, WindowInv, [Next]_vars
  PROVE  WindowInv'
<1> USE DEF WindowInv
<1> DEFINE Commands == {"connect", "disconnect"}
<1>1. ASSUME NEW s \in {"connecting", "disconnecting"}, NEW command \in Commands,
             invoke(command, s)
      PROVE  WindowInv'
  <2>1. inbox' = Append(inbox, Event(s)) /\ waiting' = Append(waiting, command)
    BY <1>1 DEF invoke
  <2>2. inbox' \in Seq(Messages)
    BY <2>1, MessagesSent, Announced
  <2>3. waiting' \in Seq(Commands) /\ waiting' # <<>>
    BY <2>1, SMTT(30)
  <2> QED BY <2>2, <2>3
<1>2. ASSUME UNCHANGED <<inbox, status, waiting, step, ctx, refused>> PROVE WindowInv'
  BY <1>2 DEF Final, shown
<1>3. ASSUME handleClick PROVE WindowInv'
  BY <1>1, <1>2, <1>3 DEF handleClick, doConnect, manager
<1>4. ASSUME poll_returns PROVE WindowInv'
  BY <1>1, <1>2, <1>4 DEF poll_returns, doConnect, manager
<1>5. ASSUME start_returns \/ closeWorldId \/ poll_world_id PROVE WindowInv'
  BY <1>2, <1>5 DEF start_returns, closeWorldId, poll_world_id, manager
<1>6. ASSUME receive PROVE WindowInv'
  <2>1. /\ inbox # <<>> /\ status' = shown(Head(inbox)) /\ inbox' = Tail(inbox)
        /\ UNCHANGED <<waiting, step, ctx, refused>>
    BY <1>6 DEF receive, manager
  <2>2. inbox' \in Seq(Messages)
    BY <2>1, SMTT(30)
  <2>3. Final' = Final
    <3>1. CASE Len(inbox) = 1
      <4>1. Tail(inbox) = <<>> /\ Head(inbox) = Last(inbox)
        BY <2>1, <3>1, SMTT(30) DEF Last
      <4> QED BY <2>1, <4>1 DEF Final
    <3>2. CASE Len(inbox) # 1
      <4>1. Tail(inbox) # <<>> /\ Last(Tail(inbox)) = Last(inbox)
        BY <2>1, <3>2, LastOfTail
      <4>2. inbox' # <<>> /\ Last(inbox') = Last(inbox)
        BY <2>1, <4>1
      <4>3. Final' = shown(Last(inbox'))
        BY <4>2 DEF Final, shown
      <4>4. Final = shown(Last(inbox))
        BY <2>1 DEF Final
      <4> QED BY <4>2, <4>3, <4>4
    <3> QED BY <3>1, <3>2
  <2> QED BY <2>1, <2>2, <2>3
<1>7. ASSUME NEW m \in Messages, NEW n \in Messages, inbox' = inbox \o <<m, n>>
      PROVE  inbox' \in Seq(Messages) /\ Final' = shown(n)
  <2>1. inbox' \in Seq(Messages) /\ inbox' # <<>> /\ Last(inbox') = n
    BY <1>7, Announced
  <2> QED BY <2>1 DEF Final, shown
<1>8. ASSUME waiting # <<>>, waiting' = Tail(waiting) PROVE waiting' \in Seq(Commands)
  BY <1>8, SMTT(30)
<1>9. ASSUME connect PROVE WindowInv'
  <2>1. waiting' \in Seq(Commands)
    BY <1>8, <1>9 DEF connect
  <2>2. CASE ctx # 0
    <3>1. /\ inbox' = inbox \o <<Event("error"), Result("connect", FALSE)>>
          /\ refused' = TRUE
      BY <1>9, <2>2 DEF connect, already_connected
    <3>2. inbox' \in Seq(Messages) /\ Final' = "disconnected"
      BY <3>1, <1>7, MessagesSent
    <3> QED BY <2>1, <3>1, <3>2
  <2>3. CASE ctx = 0
    <3>1. inbox' = inbox /\ step' = 1
      BY <1>9, <2>3 DEF connect, already_connected
    <3> QED BY <2>1, <3>1, SMTT(30)
  <2> QED BY <2>2, <2>3
<1>10. ASSUME connect_step PROVE WindowInv'
  <2>1. step' # 0 /\ UNCHANGED <<inbox, waiting>>
    BY <1>10, StepsLayout, SMTT(30) DEF connect_step, Layout
  <2> QED BY <2>1
<1>11. ASSUME connect_fails PROVE WindowInv'
  <2>1. /\ inbox' = inbox \o <<Event("error"), Result("connect", FALSE)>>
        /\ waiting' = waiting /\ ctx' = 0
    BY <1>11 DEF connect_fails, SystemInv
  <2>2. inbox' \in Seq(Messages) /\ Final' = "disconnected"
    BY <2>1, <1>7, MessagesSent
  <2> QED BY <2>1, <2>2
<1>12. ASSUME connect_returns PROVE WindowInv'
  <2>1. /\ inbox' = inbox \o <<Event("connected"), Result("connect", TRUE)>>
        /\ waiting' = waiting /\ ctx' # 0
    BY <1>12 DEF connect_returns, query_gateway_balance, SystemInv
  <2>2. inbox' \in Seq(Messages) /\ Final' = "connected"
    BY <2>1, <1>7, MessagesSent
  <2> QED BY <2>1, <2>2
<1>13. ASSUME disconnect PROVE WindowInv'
  <2>1. waiting' \in Seq(Commands)
    BY <1>8, <1>13 DEF disconnect
  <2>2. /\ inbox' = inbox \o <<Event("disconnected"), Result("disconnect", ctx # 0)>>
        /\ ctx' = 0
    BY <1>13 DEF disconnect
  <2>3. (ctx # 0) \in BOOLEAN
    OBVIOUS
  <2>4. inbox' \in Seq(Messages) /\ Final' = "disconnected"
    BY <2>2, <2>3, <1>7, MessagesSent
  <2> QED BY <2>1, <2>2, <2>4
<1>14. ASSUME NEW c \in 1..MaxConnects, health_reports(c) PROVE WindowInv'
  <2>1. /\ inbox' = inbox \o <<[of |-> "health"], Event("error")>>
        /\ waiting' = waiting
    BY <1>14 DEF health_reports
  <2>2. inbox' \in Seq(Messages) /\ Final' = "error"
    BY <2>1, <1>7, MessagesSent
  <2> QED BY <2>1, <2>2
<1>15. ASSUME NEW c \in 1..MaxConnects, start_health_check(c) PROVE WindowInv'
  BY <1>2, <1>15 DEF start_health_check, window
<1>16. ASSUME boringtun_dies PROVE WindowInv'
  BY <1>2, <1>16 DEF boringtun_dies, window
<1>17. ASSUME UNCHANGED vars PROVE WindowInv'
  BY <1>2, <1>17 DEF vars, window, manager
<1> QED BY <1>3, <1>4, <1>5, <1>6, <1>9, <1>10, <1>11, <1>12, <1>13, <1>14, <1>15, <1>16,
           <1>17 DEF Next, Manager

-----------------------------------------------------------------------------
(* The results *)

ClientInv == SystemInv /\ WindowInv

LEMMA ClientHolds == Spec => []ClientInv
<1>1. Init => ClientInv
  <2> SUFFICES ASSUME Init PROVE ClientInv
    OBVIOUS
  <2>1. SystemInv
    <3>1. readable \in BOOLEAN /\ (Platform # "linux" => readable)
      BY DEF Init
    <3>2. step = 0 /\ connects = 0 /\ ctx = 0 /\ system = {}
      BY DEF Init
    <3>3. /\ 0 \in Nat /\ 0 \in 0..LastStep /\ LastStep # 0
          /\ 0 \notin 1..(LastStep - 1)
      BY StepsLayout, SMTT(30) DEF Layout
    <3> QED BY <3>1, <3>2, <3>3 DEF SystemInv
  <2>2. WindowInv
    BY SMTT(30) DEF Init, WindowInv, Final
  <2> QED BY <2>1, <2>2 DEF ClientInv
<1>2. ClientInv /\ [Next]_vars => ClientInv'
  BY SystemStep, WindowStep DEF ClientInv
<1> QED BY <1>1, <1>2, PTL DEF Spec

(* While there is a connection and boringtun-cli lives, everything that    *)
(* connect installs is in place, on Linux and on macOS, whatever failed    *)
(* before (vpn.rs: connect, Cleanup, disconnect).                          *)
THEOREM ConnectionIsWhole == Spec => []ConnectedIsConfigured
<1>1. ClientInv => ConnectedIsConfigured
  BY DoneSteps, StepsLayout, SMTT(30)
  DEF ClientInv, SystemInv, ConnectedIsConfigured, Upto, Layout
<1> QED BY <1>1, ClientHolds, PTL

(* Without a connection, the machine holds at most a beginning of the      *)
(* routes of a connect that failed, an entry in resolvconf, which          *)
(* restore_dns does not delete, and a resolv.conf from before which there  *)
(* was none that could be read; on Linux and on macOS, with resolvconf and *)
(* without (vpn.rs: Cleanup, disconnect, restore_dns).                     *)
THEOREM LittleIsLeft == Spec => []TunnelIsGone
<1>1. ASSUME ClientInv PROVE TunnelIsGone
  <2> SUFFICES ASSUME ctx = 0, step = 0
               PROVE  /\ system \subseteq (AllButLastRoute \ OfProcess)
                                            \union {"resolvconf", "resolv.conf"}
                      /\ "resolv.conf" \in system => ~ readable
    BY DEF TunnelIsGone
  <2>1. system \subseteq Left
    BY <1>1 DEF ClientInv, SystemInv
  <2>2. "resolv.conf" \notin AllButLastRoute
    BY StepsLayout DEF Layout
  <2> QED BY <2>1, <2>2 DEF Left
<1> QED BY <1>1, ClientHolds, PTL

(* Whatever order clicks, polls, command results, events and reports of    *)
(* the health check come in, a window that has handled its messages shows  *)
(* a connection only if there is one, and hides one only if a second       *)
(* connect was refused (App.tsx, lib.rs).                                  *)
THEOREM WindowIsRight == Spec => []ShownAsItIs
<1>1. ClientInv => ShownAsItIs
  BY DEF ClientInv, WindowInv, ShownAsItIs, Quiet, Final
<1> QED BY <1>1, ClientHolds, PTL

-----------------------------------------------------------------------------
(* The WebSocket relay.  In each direction a packet waits at a UDP socket, *)
(* then in a connection, and has then arrived.  Apart says, of the sets of *)
(* packets at these three places, what keeps them from being mixed up;     *)
(* four lemmas say that it stays so when packets are lost, sent, passed on *)
(* and delivered.                                                          *)

Sorted(q) == \A i, j \in DOMAIN q : i < j => q[i] < q[j]

Arrived == [n : Nat, via : Connections]

(* G has arrived, Q[c] is in connection c, S[c] waits to enter it; sent    *)
(* packets were sent in all.                                               *)
Apart(G, Q, S, sent) ==
  /\ \A c \in Connections :
       /\ \A x \in Q[c], y \in S[c] : x < y
       /\ \A x \in Q[c] \union S[c] : x \in Nat /\ x <= sent
       /\ \A d \in Connections \ {c} : \A x \in Q[c] : x \notin Q[d] /\ x \notin S[d]
  /\ \A g \in G :
       /\ g.n <= sent
       /\ \A c \in Connections : \A x \in Q[c] \union S[c] :
            g.n # x /\ (g.via = c => g.n < x)

UpLinks == [c \in Connections |-> Range(link[c].up)]
UpSockets == [c \in Connections |-> Range(local)]
DownLinks == [c \in Connections |-> Range(link[c].down)]
DownSockets == [c \in Connections |-> Range(session[c].udp)]

LinkRecord == [state : {"none", "open", "cut", "left", "gone", "dropped"},
               up : Seq(Nat), down : Seq(Nat)]
SessionRecord == [at : {"none", "start", "ws", "udp", "close", "ended"}, udp : Seq(Nat)]
Flow == [sent : Nat, got : Seq(Arrived)]

BridgeType ==
  /\ bridge \in [at : {"connect", "udp", "ws", "close"}, conn : Connections \union {0}]
  /\ bridge.at # "connect" => bridge.conn \in Connections

RelayType ==
  /\ BridgeType
  /\ client_addr \in BOOLEAN
  /\ local \in Seq(Nat)
  /\ link \in [Connections -> LinkRecord]
  /\ session \in [Connections -> SessionRecord]
  /\ endpoint \in Connections \union {0}
  /\ up \in Flow /\ down \in Flow

UpInv ==
  /\ Sorted(local) /\ \A c \in Connections : Sorted(link[c].up)
  /\ Apart(Range(up.got), UpLinks, UpSockets, up.sent)
  /\ InOrder(up.got)

DownInv ==
  /\ \A c \in Connections : Sorted(link[c].down) /\ Sorted(session[c].udp)
  /\ \A c \in Connections : \A d \in Connections \ {c} :
       \A x \in DownSockets[c] : x \notin DownSockets[d]
  /\ Apart(Range(down.got), DownLinks, DownSockets, down.sent)
  /\ InOrder(down.got)

(* Whatever is on its way to the server or back, the bridge has had a      *)
(* packet of the client.                                                   *)
AddrInv ==
  /\ endpoint # 0 => client_addr
  /\ \A c \in Connections :
       link[c].up # <<>> \/ link[c].down # <<>> \/ session[c].udp # <<>> => client_addr

RelayInv == RelayType /\ UpInv /\ DownInv /\ AddrInv

-----------------------------------------------------------------------------
(* The queues *)

LEMMA EmptyQueue == <<>> \in Seq(Nat) /\ Sorted(<<>>) /\ Range(<<>>) = {}
BY SMTT(30) DEF Sorted, Range

LEMMA Appended ==
  ASSUME NEW q \in Seq(Nat), Sorted(q), NEW x \in Nat, \A y \in Range(q) : y < x
  PROVE  /\ Append(q, x) \in Seq(Nat) /\ Sorted(Append(q, x))
         /\ Range(Append(q, x)) = Range(q) \union {x}
<1> DEFINE a == Append(q, x)
<1>1. /\ a \in Seq(Nat) /\ DOMAIN a = 1..(Len(q) + 1) /\ Len(q) \in Nat
      /\ DOMAIN q = 1..Len(q) /\ a[Len(q) + 1] = x
      /\ \A i \in 1..Len(q) : a[i] = q[i]
  BY SMTT(30)
<1> HIDE DEF a
<1>2. Range(a) = Range(q) \union {x}
  <2>1. DOMAIN a = DOMAIN q \union {Len(q) + 1} /\ \A i \in DOMAIN q : a[i] = q[i]
    BY <1>1, SMTT(30)
  <2>2. a[Len(q) + 1] = x
    BY <1>1
  <2>3. ASSUME NEW y \in Range(a) PROVE y \in Range(q) \union {x}
    <3>1. PICK i \in DOMAIN a : y = a[i]
      BY DEF Range
    <3> QED BY <2>1, <2>2, <3>1 DEF Range
  <2>4. ASSUME NEW y \in Range(q) PROVE y \in Range(a)
    <3>1. PICK i \in DOMAIN q : y = q[i]
      BY DEF Range
    <3> QED BY <2>1, <3>1 DEF Range
  <2>5. x \in Range(a)
    BY <2>1, <2>2 DEF Range
  <2> QED BY <2>3, <2>4, <2>5
<1>3. Sorted(a)
  <2> SUFFICES ASSUME NEW i \in DOMAIN a, NEW j \in DOMAIN a, i < j
               PROVE  a[i] < a[j]
    BY DEF Sorted
  <2>1. i \in DOMAIN q /\ a[i] = q[i]
    BY <1>1, SMTT(30)
  <2>2. CASE j = Len(q) + 1
    BY <1>1, <2>1, <2>2 DEF Range
  <2>3. CASE j # Len(q) + 1
    BY <1>1, <2>1, <2>3, SMTT(30) DEF Sorted
  <2> QED BY <2>2, <2>3
<1> QED BY <1>1, <1>2, <1>3 DEF a

(* a is q, with x at the end perhaps.                                      *)
Grown(a, q, x) == a \in Seq(Nat) /\ Sorted(a) /\ Range(a) \subseteq Range(q) \union {x}

LEMMA Grows ==
  ASSUME NEW q \in Seq(Nat), Sorted(q), NEW x \in Nat, \A y \in Range(q) : y < x,
         NEW a, a = q \/ a = Append(q, x)
  PROVE  Grown(a, q, x)
<1>1. CASE a = q
  BY <1>1 DEF Grown
<1>2. CASE a = Append(q, x)
  BY <1>2, Appended DEF Grown
<1> QED BY <1>1, <1>2

LEMMA Passed ==
  ASSUME NEW q \in Seq(Nat), Sorted(q), q # <<>>
  PROVE  /\ Tail(q) \in Seq(Nat) /\ Sorted(Tail(q)) /\ Range(Tail(q)) \subseteq Range(q)
         /\ Head(q) \in Range(q) /\ Head(q) \in Nat
         /\ \A y \in Range(Tail(q)) : Head(q) < y
<1> DEFINE t == Tail(q)
<1>1. /\ t \in Seq(Nat) /\ DOMAIN t = 1..(Len(q) - 1) /\ Len(q) \in Nat
      /\ DOMAIN q = 1..Len(q) /\ Head(q) = q[1] /\ 1 \in DOMAIN q
      /\ \A i \in DOMAIN q : q[i] \in Nat
      /\ \A i \in 1..(Len(q) - 1) : t[i] = q[i + 1]
  BY SMTT(30)
<1> HIDE DEF t
<1>2. \A i \in DOMAIN t : i + 1 \in DOMAIN q /\ t[i] = q[i + 1] /\ 1 < i + 1 /\ i \in Nat
  BY <1>1, SMTT(30)
<1>3. Range(t) \subseteq Range(q) /\ Head(q) \in Range(q)
  <2>1. ASSUME NEW y \in Range(t) PROVE y \in Range(q)
    <3>1. PICK i \in DOMAIN t : y = t[i]
      BY DEF Range
    <3> QED BY <1>2, <3>1 DEF Range
  <2>2. Head(q) \in Range(q)
    BY <1>1 DEF Range
  <2> QED BY <2>1, <2>2
<1>4. Sorted(t)
  BY <1>2, SMTT(30) DEF Sorted
<1>5. \A y \in Range(t) : Head(q) < y
  BY <1>1, <1>2 DEF Range, Sorted
<1> QED BY <1>1, <1>3, <1>4, <1>5 DEF t

LEMMA Begun ==
  ASSUME NEW q \in Seq(Nat), Sorted(q), NEW b \in Beginnings(q)
  PROVE  /\ b \in Seq(Nat) /\ Sorted(b) /\ Range(b) \subseteq Range(q)
         /\ b # <<>> => q # <<>>
<1>1. PICK n \in 0..Len(q) : b = SubSeq(q, 1, n)
  BY DEF Beginnings
<1>2. /\ b \in Seq(Nat) /\ DOMAIN b = 1..n /\ DOMAIN q = 1..Len(q) /\ Len(q) \in Nat
      /\ \A i \in 1..n : b[i] = q[i]
  BY <1>1, SMTT(30)
<1>3. \A i \in DOMAIN b : i \in DOMAIN q /\ b[i] = q[i]
  BY <1>2, SMTT(30)
<1>4. Range(b) \subseteq Range(q)
  BY <1>3 DEF Range
<1>5. Sorted(b)
  BY <1>3 DEF Sorted
<1>6. q = <<>> => b = <<>>
  BY <1>2, SMTT(30)
<1> QED BY <1>2, <1>4, <1>5, <1>6

LEMMA Delivered ==
  ASSUME NEW got \in Seq(Arrived), InOrder(got), NEW r \in Arrived,
         \A g \in Range(got) : g.n # r.n /\ (g.via = r.via => g.n < r.n)
  PROVE  /\ Append(got, r) \in Seq(Arrived) /\ InOrder(Append(got, r))
         /\ Range(Append(got, r)) = Range(got) \union {r}
<1> DEFINE a == Append(got, r)
<1>1. /\ a \in Seq(Arrived) /\ DOMAIN a = 1..(Len(got) + 1) /\ Len(got) \in Nat
      /\ DOMAIN got = 1..Len(got) /\ a[Len(got) + 1] = r
      /\ \A i \in 1..Len(got) : a[i] = got[i]
  BY SMTT(30)
<1> HIDE DEF a
<1>2. Range(a) = Range(got) \union {r}
  BY <1>1, SMTT(30) DEF Range
<1>3. InOrder(a)
  <2> SUFFICES ASSUME NEW i \in DOMAIN a, NEW j \in DOMAIN a, i < j
               PROVE  a[i].n # a[j].n /\ (a[i].via = a[j].via => a[i].n < a[j].n)
    BY DEF InOrder
  <2>1. i \in DOMAIN got /\ a[i] = got[i]
    BY <1>1, SMTT(30)
  <2>2. CASE j = Len(got) + 1
    BY <1>1, <2>1, <2>2 DEF Range
  <2>3. CASE j # Len(got) + 1
    <3>1. j \in DOMAIN got /\ a[j] = got[j]
      BY <1>1, <2>3, SMTT(30)
    <3> QED BY <2>1, <3>1 DEF InOrder
  <2> QED BY <2>2, <2>3
<1> QED BY <1>1, <1>2, <1>3 DEF a

-----------------------------------------------------------------------------
(* What a step does to the packets of a direction *)

LEMMA SomeLost ==
  ASSUME NEW G, NEW Q, NEW S, NEW P, NEW T, NEW sent \in Nat, Apart(G, Q, S, sent),
         \A c \in Connections : P[c] \subseteq Q[c] /\ T[c] \subseteq S[c]
  PROVE  Apart(G, P, T, sent)
BY DEF Apart

LEMMA OneSent ==
  ASSUME NEW G, NEW Q, NEW S, NEW T, NEW sent \in Nat, Apart(G, Q, S, sent),
         \A g \in G : g.n \in Nat,
         \A c \in Connections : T[c] \subseteq S[c] \union {sent + 1}
  PROVE  Apart(G, Q, T, sent + 1)
<1>1. \A c \in Connections : \A x \in Q[c], y \in T[c] : x < y
  BY SMTT(30) DEF Apart
<1>2. \A c \in Connections : \A x \in Q[c] \union T[c] : x \in Nat /\ x <= sent + 1
  BY SMTT(30) DEF Apart
<1>3. \A c \in Connections : \A d \in Connections \ {c} : \A x \in Q[c] :
        x \notin Q[d] /\ x \notin T[d]
  BY SMTT(30) DEF Apart
<1>4. ASSUME NEW g \in G
      PROVE  /\ g.n <= sent + 1
             /\ \A c \in Connections : \A x \in Q[c] \union T[c] :
                  g.n # x /\ (g.via = c => g.n < x)
  BY SMTT(30) DEF Apart
<1> QED BY <1>1, <1>2, <1>3, <1>4 DEF Apart

LEMMA OnePassedOn ==
  ASSUME NEW G, NEW Q, NEW S, NEW P, NEW T, NEW sent \in Nat, Apart(G, Q, S, sent),
         NEW c \in Connections, NEW x \in S[c],
         \A d \in Connections : T[d] \subseteq S[d] /\ x \notin T[d],
         \A y \in T[c] : x < y,
         \A d \in Connections : P[d] \subseteq IF d = c THEN Q[c] \union {x} ELSE Q[d]
  PROVE  Apart(G, P, T, sent)
BY SMTT(30) DEF Apart

LEMMA OneDelivered ==
  ASSUME NEW G, NEW Q, NEW S, NEW P, NEW sent \in Nat, Apart(G, Q, S, sent),
         NEW c \in Connections, NEW x \in Q[c], NEW r, r.n = x, r.via = c,
         \A d \in Connections : P[d] \subseteq Q[d],
         \A y \in P[c] : x < y
  PROVE  /\ Apart(G \union {r}, P, S, sent)
         /\ \A g \in G : g.n # x /\ (g.via = c => g.n < x)
<1>1. \A d \in Connections : \A y \in P[d] \union S[d] : x # y /\ (c = d => x < y)
  BY SMTT(30) DEF Apart
<1>2. x <= sent /\ \A g \in G : g.n # x /\ (g.via = c => g.n < x)
  BY DEF Apart
<1>3. Apart(G, P, S, sent)
  BY SomeLost
<1>4. Apart(G \union {r}, P, S, sent)
  BY <1>1, <1>2, <1>3 DEF Apart
<1> QED BY <1>2, <1>4

-----------------------------------------------------------------------------
(* The actions *)

(* What is changed of a record, and that the rest is as it was.            *)
LinkIs(M, L, c, u, d) ==
  /\ M \in [Connections -> LinkRecord] /\ M[c].up = u /\ M[c].down = d
  /\ \A b \in Connections \ {c} : M[b] = L[b]

SessionIs(M, L, c, q) ==
  /\ M \in [Connections -> SessionRecord] /\ M[c].udp = q
  /\ \A b \in Connections \ {c} : M[b] = L[b]

LEMMA LinkFields ==
  ASSUME NEW L \in [Connections -> LinkRecord], NEW c \in Connections, NEW q \in Seq(Nat)
  PROVE  /\ L[c].up \in Seq(Nat) /\ L[c].down \in Seq(Nat)
         /\ LinkIs([L EXCEPT ![c].up = q], L, c, q, L[c].down)
         /\ LinkIs([L EXCEPT ![c].down = q], L, c, L[c].up, q)
         /\ LinkIs([L EXCEPT ![c].state = "open"], L, c, L[c].up, L[c].down)
BY DEF LinkIs, LinkRecord

LEMMA LinkReplaced ==
  ASSUME NEW L \in [Connections -> LinkRecord], NEW c \in Connections,
         NEW st \in {"none", "open", "cut", "left", "gone", "dropped"},
         NEW u \in Seq(Nat), NEW d \in Seq(Nat)
  PROVE  LinkIs([L EXCEPT ![c] = [state |-> st, up |-> u, down |-> d]], L, c, u, d)
BY DEF LinkIs, LinkRecord

LEMMA SessionFields ==
  ASSUME NEW L \in [Connections -> SessionRecord], NEW c \in Connections,
         NEW at \in {"start", "ws", "udp", "close", "ended"}, NEW q \in Seq(Nat)
  PROVE  /\ L[c].udp \in Seq(Nat)
         /\ SessionIs([L EXCEPT ![c].udp = q], L, c, q)
         /\ SessionIs([L EXCEPT ![c].at = at], L, c, L[c].udp)
         /\ SessionIs([L EXCEPT ![c] = [at |-> at, udp |-> q]], L, c, q)
BY DEF SessionIs, SessionRecord

LEMMA FlowFields ==
  ASSUME NEW u \in Flow
  PROVE  /\ u.sent \in Nat /\ u.got \in Seq(Arrived)
         /\ \A g \in Range(u.got) : g.n \in Nat
         /\ [u EXCEPT !.sent = @ + 1] \in Flow
         /\ [u EXCEPT !.sent = @ + 1].sent = u.sent + 1
         /\ [u EXCEPT !.sent = @ + 1].got = u.got
<1>1. u.sent \in Nat /\ u.got \in Seq(Arrived)
  BY DEF Flow
<1>2. ASSUME NEW g \in Range(u.got) PROVE g.n \in Nat
  <2>1. PICK i \in DOMAIN u.got : g = u.got[i]
    BY DEF Range
  <2>2. u.got[i] \in Arrived
    BY <1>1, <2>1, SMTT(30)
  <2> QED BY <2>1, <2>2 DEF Arrived
<1>3. /\ [u EXCEPT !.sent = @ + 1] \in Flow
      /\ [u EXCEPT !.sent = @ + 1].sent = u.sent + 1
      /\ [u EXCEPT !.sent = @ + 1].got = u.got
  BY <1>1, SMTT(30) DEF Flow
<1> QED BY <1>1, <1>2, <1>3

LEMMA FlowGot ==
  ASSUME NEW u \in Flow, NEW h \in Seq(Arrived)
  PROVE  /\ [u EXCEPT !.got = h] \in Flow /\ [u EXCEPT !.got = h].got = h
         /\ [u EXCEPT !.got = h].sent = u.sent
BY DEF Flow

LEMMA UpLoses ==
  ASSUME RelayType, UpInv, up' = up, local' = local,
         \A c \in Connections : /\ Sorted(link'[c].up)
                                /\ Range(link'[c].up) \subseteq Range(link[c].up)
  PROVE  UpInv'
<1>1. up.sent \in Nat
  BY FlowFields DEF RelayType
<1>2. \A c \in Connections : UpLinks'[c] \subseteq UpLinks[c] /\ UpSockets'[c] = UpSockets[c]
  BY DEF UpLinks, UpSockets
<1>3. Apart(Range(up.got), UpLinks', UpSockets', up.sent)
  BY <1>1, <1>2, SomeLost, SMTT(30) DEF UpInv
<1> QED BY <1>3 DEF UpInv

LEMMA DownLoses ==
  ASSUME RelayType, DownInv, down' = down,
         \A c \in Connections : /\ Sorted(link'[c].down) /\ Sorted(session'[c].udp)
                                /\ Range(link'[c].down) \subseteq Range(link[c].down)
                                /\ Range(session'[c].udp) \subseteq Range(session[c].udp)
  PROVE  DownInv'
<1>1. down.sent \in Nat
  BY FlowFields DEF RelayType
<1>2. \A c \in Connections : /\ DownLinks'[c] \subseteq DownLinks[c]
                             /\ DownSockets'[c] \subseteq DownSockets[c]
  BY DEF DownLinks, DownSockets
<1>3. Apart(Range(down.got), DownLinks', DownSockets', down.sent)
  BY <1>1, <1>2, SomeLost DEF DownInv
<1> QED BY <1>2, <1>3 DEF DownInv

(* b is what is left of q.                                                 *)
Less(b, q) ==
  b \in Seq(Nat) /\ Sorted(b) /\ Range(b) \subseteq Range(q) /\ (b # <<>> => q # <<>>)

LEMMA Lessens ==
  ASSUME NEW q \in Seq(Nat), Sorted(q)
  PROVE  /\ Less(q, q) /\ Less(<<>>, q) /\ (q # <<>> => Less(Tail(q), q))
         /\ \A b \in Beginnings(q) : Less(b, q)
<1>1. Less(q, q) /\ Less(<<>>, q)
  BY EmptyQueue DEF Less
<1>2. q # <<>> => Less(Tail(q), q)
  BY Passed DEF Less
<1>3. ASSUME NEW b \in Beginnings(q) PROVE Less(b, q)
  BY Begun DEF Less
<1> QED BY <1>1, <1>2, <1>3

(* A step that moves no packet, and may lose some of connection c.         *)
LEMMA Loses ==
  ASSUME RelayInv, NEW c \in Connections, NEW u, NEW d, NEW q,
         LinkIs(link', link, c, u, d), SessionIs(session', session, c, q),
         Less(u, link[c].up), Less(d, link[c].down), Less(q, session[c].udp),
         BridgeType', UNCHANGED <<client_addr, local, endpoint, up, down>>
  PROVE  RelayInv'
<1>0. RelayType /\ UpInv /\ DownInv /\ AddrInv
  BY DEF RelayInv
<1>1. \A b \in Connections :
        /\ Sorted(link'[b].up) /\ Range(link'[b].up) \subseteq Range(link[b].up)
        /\ Sorted(link'[b].down) /\ Range(link'[b].down) \subseteq Range(link[b].down)
        /\ Sorted(session'[b].udp) /\ Range(session'[b].udp) \subseteq Range(session[b].udp)
  BY <1>0 DEF LinkIs, SessionIs, Less, UpInv, DownInv
<1>2. UpInv'
  BY <1>0, <1>1, UpLoses
<1>3. DownInv'
  BY <1>0, <1>1, DownLoses
<1>4. AddrInv'
  BY <1>0 DEF AddrInv, LinkIs, SessionIs, Less
<1>5. RelayType'
  BY <1>0 DEF RelayType, LinkIs, SessionIs
<1> QED BY <1>2, <1>3, <1>4, <1>5 DEF RelayInv

LEMMA Unmoved ==
  ASSUME RelayType, NEW c \in Connections
  PROVE  /\ LinkIs(link, link, c, link[c].up, link[c].down)
         /\ SessionIs(session, session, c, session[c].udp)
BY DEF RelayType, LinkIs, SessionIs

LEMMA QueueTypes ==
  ASSUME RelayInv, NEW c \in Connections
  PROVE  /\ link[c].up \in Seq(Nat) /\ Sorted(link[c].up)
         /\ link[c].down \in Seq(Nat) /\ Sorted(link[c].down)
         /\ session[c].udp \in Seq(Nat) /\ Sorted(session[c].udp)
         /\ local \in Seq(Nat) /\ Sorted(local)
<1>1. link[c] \in LinkRecord /\ session[c] \in SessionRecord
  BY DEF RelayInv, RelayType
<1>2. Sorted(link[c].up) /\ Sorted(link[c].down) /\ Sorted(session[c].udp) /\ Sorted(local)
  BY DEF RelayInv, UpInv, DownInv
<1> QED BY <1>1, <1>2 DEF LinkRecord, SessionRecord, RelayInv, RelayType

LEMMA ClientSends ==
  ASSUME RelayInv, client_sends
  PROVE  RelayInv'
<1> DEFINE n == up.sent + 1
<1>0. RelayType /\ UpInv /\ DownInv /\ AddrInv
  BY DEF RelayInv
<1>1. /\ up'.sent = n /\ up'.got = up.got /\ up' \in Flow
      /\ up.sent \in Nat /\ \A g \in Range(up.got) : g.n \in Nat
  <2>1. up \in Flow /\ up' = [up EXCEPT !.sent = @ + 1]
    BY <1>0 DEF client_sends, RelayType
  <2> QED BY <2>1, FlowFields
<1>2. /\ local' = local \/ local' = Append(local, n)
      /\ UNCHANGED <<bridge, client_addr, link, session, endpoint, down>>
      /\ local \in Seq(Nat)
  BY <1>0 DEF client_sends, Queued, RelayType
<1>3. \A x \in Range(local) : x < n
  <2>1. \A c \in Connections : UpSockets[c] = Range(local)
    BY DEF UpSockets
  <2>2. 1 \in Connections
    BY WsRelayAssumption, SMTT(30) DEF Connections
  <2> QED BY <1>0, <1>1, <2>1, <2>2, SMTT(30) DEF UpInv, Apart
<1>4. local' \in Seq(Nat) /\ Sorted(local') /\ Range(local') \subseteq Range(local) \union {n}
  <2>1. Sorted(local) /\ n \in Nat
    BY <1>0, <1>1, SMTT(30) DEF UpInv
  <2>2. Grown(local', local, n)
    BY <1>2, <1>3, <2>1, Grows
  <2> QED BY <2>2 DEF Grown
<1>5. \A c \in Connections : UpSockets'[c] \subseteq UpSockets[c] \union {n}
  BY <1>4 DEF UpSockets
<1>6. Apart(Range(up.got), UpLinks, UpSockets', n)
  BY <1>0, <1>1, <1>5, OneSent DEF UpInv
<1>7. UpLinks' = UpLinks
  BY <1>2 DEF UpLinks
<1>8. UpInv'
  BY <1>0, <1>1, <1>2, <1>4, <1>6, <1>7 DEF UpInv
<1>9. DownInv'
  BY <1>0, <1>2, DownLoses DEF DownInv
<1>10. RelayType' /\ AddrInv'
  BY <1>0, <1>1, <1>2, <1>4 DEF RelayType, BridgeType, AddrInv
<1> QED BY <1>8, <1>9, <1>10 DEF RelayInv

LEMMA ServerSends ==
  ASSUME RelayInv, server_sends
  PROVE  RelayInv'
<1> DEFINE n == down.sent + 1
<1> DEFINE e == endpoint
<1>0. RelayType /\ UpInv /\ DownInv /\ AddrInv
  BY DEF RelayInv
<1>1. /\ down'.sent = n /\ down'.got = down.got /\ down' \in Flow
      /\ down.sent \in Nat /\ \A g \in Range(down.got) : g.n \in Nat
  <2>1. down \in Flow /\ down' = [down EXCEPT !.sent = @ + 1]
    BY <1>0 DEF server_sends, RelayType
  <2> QED BY <2>1, FlowFields
<1>2. /\ e \in Connections /\ e # 0 /\ session \in [Connections -> SessionRecord]
      /\ UNCHANGED <<bridge, client_addr, local, link, endpoint, up>>
  BY <1>0 DEF server_sends, RelayType
<1>3. \A x \in Range(session[e].udp) : x < n
  <2>1. DownSockets[e] = Range(session[e].udp)
    BY <1>2 DEF DownSockets
  <2> QED BY <1>0, <1>1, <1>2, <2>1, SMTT(30) DEF DownInv, Apart
<1>4. session[e].udp \in Seq(Nat)
  BY <1>2 DEF SessionRecord
<1>5. PICK q : /\ q = session[e].udp \/ q = Append(session[e].udp, n)
               /\ \/ session' = session /\ q = session[e].udp
                  \/ session' = [session EXCEPT ![e].udp = q]
  BY DEF server_sends, Queued
<1>6. q \in Seq(Nat) /\ Sorted(q) /\ Range(q) \subseteq Range(session[e].udp) \union {n}
  <2>1. Sorted(session[e].udp) /\ n \in Nat
    BY <1>0, <1>1, <1>2, SMTT(30) DEF DownInv
  <2>2. Grown(q, session[e].udp, n)
    BY <1>3, <1>4, <1>5, <2>1, Grows
  <2> QED BY <2>2 DEF Grown
<1>7. SessionIs(session', session, e, q)
  <2>1. CASE session' = session /\ q = session[e].udp
    BY <1>2, <2>1 DEF SessionIs
  <2>2. CASE session' = [session EXCEPT ![e].udp = q]
    BY <1>2, <1>6, <2>2, SessionFields
  <2> QED BY <1>5, <2>1, <2>2
<1> HIDE DEF e
<1>8. \A c \in Connections : DownSockets'[c] \subseteq DownSockets[c] \union
                               IF c = e THEN {n} ELSE {}
  BY <1>6, <1>7, SMTT(30) DEF DownSockets, SessionIs
<1>9. Apart(Range(down.got), DownLinks, DownSockets', n)
  <2>1. \A c \in Connections : DownSockets'[c] \subseteq DownSockets[c] \union {n}
    BY <1>8
  <2> QED BY <1>0, <1>1, <2>1, OneSent DEF DownInv
<1>10. DownLinks' = DownLinks
  BY <1>2 DEF DownLinks
<1>11. \A c \in Connections : \A d \in Connections \ {c} :
         \A x \in DownSockets'[c] : x \notin DownSockets'[d]
  <2>1. \A c \in Connections : n \notin DownSockets[c]
    BY <1>0, <1>1, SMTT(30) DEF DownInv, Apart
  <2>2. \A c \in Connections : \A d \in Connections \ {c} :
          \A x \in DownSockets[c] : x \notin DownSockets[d]
    BY <1>0 DEF DownInv
  <2>3. ASSUME NEW c \in Connections, NEW d \in Connections \ {c},
               NEW x \in DownSockets'[c], x \in DownSockets'[d]
        PROVE  FALSE
    <3>1. x \in DownSockets[c] \/ (c = e /\ x = n)
      BY <1>8, <2>3
    <3>2. x \in DownSockets[d] \/ (d = e /\ x = n)
      BY <1>8, <2>3
    <3> QED BY <2>1, <2>2, <2>3, <3>1, <3>2
  <2> QED BY <2>3
<1>12. \A c \in Connections : Sorted(link'[c].down) /\ Sorted(session'[c].udp)
  BY <1>0, <1>2, <1>6, <1>7 DEF DownInv, SessionIs
<1>13. DownInv'
  BY <1>0, <1>1, <1>9, <1>10, <1>11, <1>12 DEF DownInv
<1>14. UpInv'
  BY <1>0, <1>2, UpLoses DEF UpInv
<1>15. RelayType'
  BY <1>0, <1>1, <1>2, <1>7 DEF RelayType, BridgeType, SessionIs
<1>16. AddrInv'
  BY <1>0, <1>2 DEF AddrInv, e
<1> QED BY <1>13, <1>14, <1>15, <1>16 DEF RelayInv

(* Connections are made, cut and closed.                                   *)
LEMMA Cuts ==
  ASSUME RelayInv, NEW c \in Connections, cut(c)
  PROVE  RelayInv'
<1>0. RelayType
  BY DEF RelayInv
<1>1. PICK u \in Beginnings(link[c].up), d \in Beginnings(link[c].down) :
        link' = [link EXCEPT ![c] = [state |-> "cut", up |-> u, down |-> d]]
  BY DEF cut
<1>2. Less(u, link[c].up) /\ Less(d, link[c].down) /\ Less(session[c].udp, session[c].udp)
  BY QueueTypes, Lessens
<1>3. LinkIs(link', link, c, u, d)
  BY <1>0, <1>1, <1>2, LinkReplaced DEF Less, RelayType
<1>4. /\ SessionIs(session', session, c, session[c].udp)
      /\ UNCHANGED <<client_addr, local, endpoint, up, down>> /\ BridgeType'
  BY <1>0, Unmoved DEF cut, RelayType, BridgeType
<1> QED BY <1>2, <1>3, <1>4, Loses

LEMMA Connects ==
  ASSUME RelayInv, NEW c \in Connections, connect_ws(c)
  PROVE  RelayInv'
<1>0. RelayType
  BY DEF RelayInv
<1>1. /\ Less(link[c].up, link[c].up) /\ Less(link[c].down, link[c].down)
      /\ Less(session[c].udp, session[c].udp)
  BY QueueTypes, Lessens
<1>2. LinkIs(link', link, c, link[c].up, link[c].down)
  <2>1. link' = [link EXCEPT ![c].state = "open"] /\ <<>> \in Seq(Nat)
    BY SMTT(30) DEF connect_ws
  <2> QED BY <1>0, <2>1, LinkFields DEF RelayType
<1>3. SessionIs(session', session, c, session[c].udp)
  <2>1. session' = [session EXCEPT ![c].at = "start"] /\ <<>> \in Seq(Nat)
    BY SMTT(30) DEF connect_ws
  <2> QED BY <1>0, <2>1, SessionFields DEF RelayType
<1>4. UNCHANGED <<client_addr, local, endpoint, up, down>> /\ BridgeType'
  BY DEF connect_ws, BridgeType
<1> QED BY <1>1, <1>2, <1>3, <1>4, Loses

LEMMA BridgeCloses ==
  ASSUME RelayInv, bridge_close
  PROVE  RelayInv'
<1> DEFINE c == bridge.conn
<1>0. RelayType /\ c \in Connections
  BY DEF RelayInv, RelayType, BridgeType, bridge_close
<1>1. PICK u \in Beginnings(link[c].up), st \in {"left", "gone"} :
        link' = [link EXCEPT ![c] = [state |-> st, up |-> u, down |-> <<>>]]
  BY DEF bridge_close
<1>2. /\ UNCHANGED <<client_addr, local, session, endpoint, up, down>>
      /\ bridge' = [at |-> "connect", conn |-> 0]
  BY DEF bridge_close
<1> HIDE DEF c
<1>3. Less(u, link[c].up) /\ Less(<<>>, link[c].down) /\ Less(session[c].udp, session[c].udp)
  BY <1>0, QueueTypes, Lessens
<1>4. LinkIs(link', link, c, u, <<>>)
  BY <1>0, <1>1, <1>3, LinkReplaced DEF Less, RelayType
<1>5. SessionIs(session', session, c, session[c].udp) /\ BridgeType'
  BY <1>0, <1>2, Unmoved DEF BridgeType
<1> QED BY <1>0, <1>2, <1>3, <1>4, <1>5, Loses

LEMMA SessionRests ==
  ASSUME RelayInv, NEW c \in Connections,
         NEW at \in {"ws", "udp", "close"},
         session' = [session EXCEPT ![c].at = at],
         UNCHANGED <<bridge, client_addr, local, link, endpoint, up, down>>
  PROVE  RelayInv'
<1>0. session \in [Connections -> SessionRecord] /\ BridgeType
  BY DEF RelayInv, RelayType
<1>1. /\ Less(link[c].up, link[c].up) /\ Less(link[c].down, link[c].down)
      /\ Less(session[c].udp, session[c].udp)
  BY QueueTypes, Lessens
<1>2. LinkIs(link', link, c, link[c].up, link[c].down)
  BY Unmoved DEF RelayInv
<1>3. SessionIs(session', session, c, session[c].udp)
  BY <1>0, SessionFields, EmptyQueue
<1>4. BridgeType'
  BY <1>0 DEF BridgeType
<1> QED BY <1>1, <1>2, <1>3, <1>4, Loses

LEMMA SessionStarts ==
  ASSUME RelayInv, NEW c \in Connections, handle_ws_client(c)
  PROVE  RelayInv'
<1>1. PICK at \in {"ws", "close"} : session' = [session EXCEPT ![c].at = at]
  BY DEF handle_ws_client
<1> QED BY <1>1, SessionRests DEF handle_ws_client

LEMMA SessionCloses ==
  ASSUME RelayInv, NEW c \in Connections, session_close(c)
  PROVE  RelayInv'
<1>0. RelayType
  BY DEF RelayInv
<1>1. PICK d \in Beginnings(link[c].down) :
        link' = [link EXCEPT ![c] =
                   [state |-> IF link[c].state = "open" THEN "dropped" ELSE link[c].state,
                    up |-> <<>>, down |-> d]]
  BY <1>0 DEF session_close, RelayType
<1>2. Less(<<>>, link[c].up) /\ Less(d, link[c].down) /\ Less(<<>>, session[c].udp)
  BY QueueTypes, Lessens
<1>3. LinkIs(link', link, c, <<>>, d)
  <2>1. link[c].state \in {"none", "open", "cut", "left", "gone", "dropped"}
    BY <1>0 DEF RelayType, LinkRecord
  <2> QED BY <1>0, <1>1, <1>2, <2>1, LinkReplaced DEF Less, RelayType
<1>4. SessionIs(session', session, c, <<>>)
  BY <1>0, SessionFields, EmptyQueue DEF session_close, RelayType
<1>5. UNCHANGED <<client_addr, local, endpoint, up, down>> /\ BridgeType'
  BY <1>0 DEF session_close, RelayType, BridgeType
<1> QED BY <1>2, <1>3, <1>4, <1>5, Loses

(* Packets enter and leave connections.                                    *)
LEMMA BridgeRests ==
  ASSUME RelayInv, bridge.conn \in Connections, BridgeType',
         UNCHANGED <<client_addr, local, link, session, endpoint, up, down>>
  PROVE  RelayInv'
<1> DEFINE c == bridge.conn
<1>1. /\ Less(link[c].up, link[c].up) /\ Less(link[c].down, link[c].down)
      /\ Less(session[c].udp, session[c].udp)
  BY QueueTypes, Lessens
<1>2. /\ LinkIs(link', link, c, link[c].up, link[c].down)
      /\ SessionIs(session', session, c, session[c].udp)
  BY Unmoved DEF RelayInv
<1> HIDE DEF c
<1> QED BY <1>1, <1>2, Loses DEF c

LEMMA BridgeUdp ==
  ASSUME RelayInv, bridge_udp
  PROVE  RelayInv'
<1> DEFINE c == bridge.conn
<1> DEFINE x == Head(local)
<1>0. /\ RelayType /\ UpInv /\ DownInv /\ AddrInv /\ c \in Connections
      /\ link \in [Connections -> LinkRecord]
  BY DEF RelayInv, RelayType, BridgeType, bridge_udp
<1>1. BridgeType'
  <2>1. PICK at \in {"ws", "close"} : bridge' = [bridge EXCEPT !.at = at]
    BY DEF bridge_udp
  <2> QED BY <1>0, <2>1 DEF RelayType, BridgeType
<1>2. CASE local = <<>>
  <2>1. UNCHANGED <<client_addr, local, link, session, endpoint, up, down>>
    BY <1>2 DEF bridge_udp
  <2> QED BY <1>0, <1>1, <2>1, BridgeRests
<1>3. CASE local # <<>>
  <2>1. /\ client_addr' = TRUE /\ local' = Tail(local)
        /\ link' = link \/ link' = [link EXCEPT ![c].up = Append(@, x)]
        /\ UNCHANGED <<session, endpoint, up, down>>
    BY <1>3 DEF bridge_udp
  <2>2. /\ local' \in Seq(Nat) /\ Sorted(local') /\ Range(local') \subseteq Range(local)
        /\ x \in Range(local) /\ x \in Nat /\ \A y \in Range(local') : x < y
    BY <1>0, <1>3, <2>1, Passed DEF RelayType, UpInv
  <2>3. link[c].up \in Seq(Nat) /\ Sorted(link[c].up)
    BY <1>0, QueueTypes
  <2>4. \A y \in Range(link[c].up) : y < x
    <3>1. UpLinks[c] = Range(link[c].up) /\ UpSockets[c] = Range(local)
      BY <1>0 DEF UpLinks, UpSockets
    <3> QED BY <1>0, <2>2, <3>1, SMTT(30) DEF UpInv, Apart
  <2> HIDE DEF c, x
  <2>5. PICK q : /\ q = link[c].up \/ q = Append(link[c].up, x)
                 /\ \/ link' = link /\ q = link[c].up
                    \/ link' = [link EXCEPT ![c].up = q]
    BY <2>1
  <2>6. Grown(q, link[c].up, x)
    BY <2>2, <2>3, <2>4, <2>5, Grows
  <2>7. LinkIs(link', link, c, q, link[c].down)
    <3>1. CASE link' = link /\ q = link[c].up
      BY <1>0, <3>1, Unmoved
    <3>2. CASE link' = [link EXCEPT ![c].up = q]
      BY <1>0, <2>6, <3>2, LinkFields DEF Grown
    <3> QED BY <2>5, <3>1, <3>2
  <2>8. /\ \A d \in Connections : UpSockets'[d] \subseteq UpSockets[d] /\ x \notin UpSockets'[d]
        /\ \A y \in UpSockets'[c] : x < y
        /\ x \in UpSockets[c]
    BY <1>0, <2>2, SMTT(30) DEF UpSockets
  <2>9. \A d \in Connections :
          UpLinks'[d] \subseteq IF d = c THEN UpLinks[c] \union {x} ELSE UpLinks[d]
    BY <1>0, <2>6, <2>7 DEF UpLinks, Grown, LinkIs
  <2>10. up.sent \in Nat
    BY <1>0, FlowFields DEF RelayType
  <2>11. Apart(Range(up.got), UpLinks', UpSockets', up.sent)
    BY <1>0, <2>8, <2>9, <2>10, OnePassedOn DEF UpInv
  <2>12. UpInv'
    BY <1>0, <2>1, <2>2, <2>6, <2>7, <2>11 DEF UpInv, Grown, LinkIs
  <2>13. DownInv'
    <3>1. \A b \in Connections : link'[b].down = link[b].down
      BY <1>0, <2>7 DEF LinkIs
    <3> QED BY <1>0, <2>1, <3>1, DownLoses DEF DownInv
  <2>14. RelayType'
    BY <1>0, <1>1, <2>1, <2>2, <2>7 DEF RelayType, LinkIs
  <2>15. AddrInv'
    BY <2>1 DEF AddrInv
  <2> QED BY <2>12, <2>13, <2>14, <2>15 DEF RelayInv
<1> QED BY <1>2, <1>3

LEMMA BridgeWs ==
  ASSUME RelayInv, bridge_ws
  PROVE  RelayInv'
<1> DEFINE c == bridge.conn
<1> DEFINE x == Head(link[c].down)
<1> DEFINE t == Tail(link[c].down)
<1>0. /\ RelayType /\ UpInv /\ DownInv /\ AddrInv /\ c \in Connections
      /\ link \in [Connections -> LinkRecord]
  BY DEF RelayInv, RelayType, BridgeType, bridge_ws
<1>1. BridgeType'
  <2>1. PICK at \in {"udp", "close"} : bridge' = [bridge EXCEPT !.at = at]
    BY DEF bridge_ws
  <2> QED BY <1>0, <2>1 DEF RelayType, BridgeType
<1>2. CASE link[c].down = <<>>
  <2>1. UNCHANGED <<client_addr, local, link, session, endpoint, up, down>>
    BY <1>2 DEF bridge_ws
  <2> QED BY <1>0, <1>1, <2>1, BridgeRests
<1>3. CASE link[c].down # <<>>
  <2>1. client_addr
    BY <1>0, <1>3 DEF AddrInv
  <2> DEFINE r == [n |-> x, via |-> c]
  <2>2. /\ link' = [link EXCEPT ![c].down = t]
        /\ down' = [down EXCEPT !.got = Append(@, r)]
        /\ UNCHANGED <<client_addr, local, session, endpoint, up>>
    BY <1>3, <2>1 DEF bridge_ws
  <2>3. /\ t \in Seq(Nat) /\ Sorted(t) /\ Range(t) \subseteq Range(link[c].down)
        /\ x \in Range(link[c].down) /\ x \in Nat /\ \A y \in Range(t) : x < y
    BY <1>0, <1>3, QueueTypes, Passed
  <2>4. r \in Arrived /\ r.n = x /\ r.via = c
    BY <1>0, <2>3 DEF Arrived
  <2> HIDE DEF c, x, t, r
  <2>5. LinkIs(link', link, c, link[c].up, t)
    BY <1>0, <2>2, <2>3, LinkFields
  <2>6. \A d \in Connections : DownLinks'[d] \subseteq DownLinks[d]
    BY <1>0, <2>3, <2>5 DEF DownLinks, LinkIs
  <2>7. (\A y \in DownLinks'[c] : x < y) /\ x \in DownLinks[c]
    BY <1>0, <2>3, <2>5 DEF DownLinks, LinkIs
  <2>8. down \in Flow /\ down.sent \in Nat /\ down.got \in Seq(Arrived)
    BY <1>0, FlowFields DEF RelayType
  <2>9. DownSockets' = DownSockets
    BY <2>2 DEF DownSockets
  <2>10. /\ Apart(Range(down.got) \union {r}, DownLinks', DownSockets, down.sent)
         /\ \A g \in Range(down.got) : g.n # x /\ (g.via = c => g.n < x)
    <3> DEFINE G == Range(down.got)
    <3> DEFINE Q == DownLinks
    <3> DEFINE P == DownLinks'
    <3> DEFINE S == DownSockets
    <3>1. Apart(G, Q, S, down.sent) /\ down.sent \in Nat /\ c \in Connections
      BY <1>0, <2>8 DEF DownInv
    <3>2. /\ x \in Q[c] /\ \A y \in P[c] : x < y
          /\ \A d \in Connections : P[d] \subseteq Q[d]
      BY <2>6, <2>7
    <3> HIDE DEF G, Q, P, S
    <3>3. /\ Apart(G \union {r}, P, S, down.sent)
          /\ \A g \in G : g.n # x /\ (g.via = c => g.n < x)
      BY <2>4, <3>1, <3>2, OneDelivered, SMTT(30)
    <3> QED BY <3>3 DEF G, P, S
  <2>11. /\ Append(down.got, r) \in Seq(Arrived) /\ InOrder(Append(down.got, r))
         /\ Range(Append(down.got, r)) = Range(down.got) \union {r}
    BY <1>0, <2>4, <2>8, <2>10, Delivered DEF DownInv
  <2>12. down' \in Flow /\ down'.got = Append(down.got, r) /\ down'.sent = down.sent
    BY <2>2, <2>8, <2>11, FlowGot
  <2>13. DownInv'
    BY <1>0, <2>2, <2>3, <2>5, <2>9, <2>10, <2>11, <2>12 DEF DownInv, LinkIs
  <2>14. UpInv'
    <3>1. \A b \in Connections : link'[b].up = link[b].up
      BY <1>0, <2>5 DEF LinkIs
    <3> QED BY <1>0, <2>2, <3>1, UpLoses DEF UpInv
  <2>15. RelayType'
    BY <1>0, <1>1, <2>2, <2>5, <2>12 DEF RelayType, LinkIs
  <2>16. AddrInv'
    BY <2>1, <2>2 DEF AddrInv
  <2> QED BY <2>13, <2>14, <2>15, <2>16 DEF RelayInv
<1> QED BY <1>2, <1>3

LEMMA SessionWs ==
  ASSUME RelayInv, NEW c \in Connections, session_ws(c)
  PROVE  RelayInv'
<1> DEFINE x == Head(link[c].up)
<1> DEFINE t == Tail(link[c].up)
<1>0. /\ RelayType /\ UpInv /\ DownInv /\ AddrInv
      /\ link \in [Connections -> LinkRecord] /\ session \in [Connections -> SessionRecord]
      /\ BridgeType
  BY DEF RelayInv, RelayType
<1>1. PICK at \in {"udp", "close"} : session' = [session EXCEPT ![c].at = at]
  BY DEF session_ws
<1>2. bridge' = bridge /\ client_addr' = client_addr /\ local' = local /\ down' = down
  BY DEF session_ws
<1>3. SessionIs(session', session, c, session[c].udp)
  BY <1>0, <1>1, SessionFields, EmptyQueue
<1>4. BridgeType'
  BY <1>0, <1>2 DEF BridgeType
<1>5. CASE link[c].up = <<>>
  <2>1. UNCHANGED <<link, up, endpoint>>
    BY <1>5 DEF session_ws
  <2> QED BY <1>1, <1>2, <2>1, SessionRests
<1>6. CASE link[c].up # <<>>
  <2>1. /\ t \in Seq(Nat) /\ Sorted(t) /\ Range(t) \subseteq Range(link[c].up)
        /\ x \in Range(link[c].up) /\ x \in Nat /\ \A y \in Range(t) : x < y
    BY <1>0, <1>6, QueueTypes, Passed
  <2> DEFINE r == [n |-> x, via |-> c]
  <2>2. /\ link' = [link EXCEPT ![c].up = t]
        /\ \/ UNCHANGED <<up, endpoint>>
           \/ up' = [up EXCEPT !.got = Append(@, r)] /\ endpoint' = c
    BY <1>6 DEF session_ws
  <2>3. client_addr
    BY <1>0, <1>6 DEF AddrInv
  <2>4. r \in Arrived /\ r.n = x /\ r.via = c
    BY <2>1 DEF Arrived
  <2> HIDE DEF x, t, r
  <2>5. LinkIs(link', link, c, t, link[c].down)
    BY <1>0, <2>1, <2>2, LinkFields
  <2>6. CASE UNCHANGED <<up, endpoint>>
    <3>1. /\ Less(t, link[c].up) /\ Less(link[c].down, link[c].down)
          /\ Less(session[c].udp, session[c].udp)
      BY <2>1, QueueTypes, Lessens DEF Less
    <3> QED BY <1>2, <1>3, <1>4, <2>5, <2>6, <3>1, Loses
  <2>7. CASE up' = [up EXCEPT !.got = Append(@, r)] /\ endpoint' = c
    <3>1. \A d \in Connections : UpLinks'[d] \subseteq UpLinks[d]
      BY <1>0, <2>1, <2>5 DEF UpLinks, LinkIs
    <3>2. (\A y \in UpLinks'[c] : x < y) /\ x \in UpLinks[c]
      BY <1>0, <2>1, <2>5 DEF UpLinks, LinkIs
    <3>3. up \in Flow /\ up.sent \in Nat /\ up.got \in Seq(Arrived)
      BY <1>0, FlowFields DEF RelayType
    <3>4. UpSockets' = UpSockets
      BY <1>2 DEF UpSockets
    <3>5. /\ Apart(Range(up.got) \union {r}, UpLinks', UpSockets, up.sent)
          /\ \A g \in Range(up.got) : g.n # x /\ (g.via = c => g.n < x)
      <4> DEFINE G == Range(up.got)
      <4> DEFINE Q == UpLinks
      <4> DEFINE P == UpLinks'
      <4> DEFINE S == UpSockets
      <4>1. Apart(G, Q, S, up.sent) /\ up.sent \in Nat /\ c \in Connections
        BY <1>0, <3>3 DEF UpInv
      <4>2. /\ x \in Q[c] /\ \A y \in P[c] : x < y
            /\ \A d \in Connections : P[d] \subseteq Q[d]
        BY <3>1, <3>2
      <4> HIDE DEF G, Q, P, S
      <4>3. /\ Apart(G \union {r}, P, S, up.sent)
            /\ \A g \in G : g.n # x /\ (g.via = c => g.n < x)
        BY <2>4, <4>1, <4>2, OneDelivered, SMTT(30)
      <4> QED BY <4>3 DEF G, P, S
    <3>6. /\ Append(up.got, r) \in Seq(Arrived) /\ InOrder(Append(up.got, r))
          /\ Range(Append(up.got, r)) = Range(up.got) \union {r}
      BY <1>0, <2>4, <3>3, <3>5, Delivered DEF UpInv
    <3>7. up' \in Flow /\ up'.got = Append(up.got, r) /\ up'.sent = up.sent
      BY <2>7, <3>3, <3>6, FlowGot
    <3>8. UpInv'
      BY <1>0, <1>2, <2>1, <2>5, <3>4, <3>5, <3>6, <3>7 DEF UpInv, LinkIs
    <3>9. DownInv'
      <4>1. /\ \A b \in Connections : link'[b].down = link[b].down
            /\ \A b \in Connections : session'[b].udp = session[b].udp
        BY <1>0, <1>3, <2>5 DEF LinkIs, SessionIs
      <4> QED BY <1>0, <1>2, <4>1, DownLoses DEF DownInv
    <3>10. RelayType'
      BY <1>0, <1>2, <1>3, <1>4, <2>5, <2>7, <3>7 DEF RelayType, LinkIs, SessionIs
    <3>11. AddrInv'
      BY <1>2, <2>3 DEF AddrInv
    <3> QED BY <3>8, <3>9, <3>10, <3>11 DEF RelayInv
  <2> QED BY <2>2, <2>6, <2>7
<1> QED BY <1>5, <1>6

LEMMA SessionUdp ==
  ASSUME RelayInv, NEW c \in Connections, session_udp(c)
  PROVE  RelayInv'
<1> DEFINE x == Head(session[c].udp)
<1> DEFINE t == Tail(session[c].udp)
<1>0. /\ RelayType /\ UpInv /\ DownInv /\ AddrInv
      /\ link \in [Connections -> LinkRecord] /\ session \in [Connections -> SessionRecord]
      /\ BridgeType
  BY DEF RelayInv, RelayType
<1>1. UNCHANGED <<bridge, client_addr, local, endpoint, up, down>>
  BY DEF session_udp
<1>2. CASE session[c].udp = <<>>
  <2>1. link' = link /\ \E at \in {"ws", "close"} : session' = [session EXCEPT ![c].at = at]
    BY <1>2 DEF session_udp
  <2>2. PICK at \in {"ws", "close"} : session' = [session EXCEPT ![c].at = at]
    BY <2>1
  <2> QED BY <1>1, <2>1, <2>2, SessionRests
<1>3. CASE session[c].udp # <<>>
  <2>1. /\ t \in Seq(Nat) /\ Sorted(t) /\ Range(t) \subseteq Range(session[c].udp)
        /\ x \in Range(session[c].udp) /\ x \in Nat /\ \A y \in Range(t) : x < y
    BY <1>0, <1>3, QueueTypes, Passed
  <2>2. /\ link' = link \/ link' = [link EXCEPT ![c].down = Append(@, x)]
        /\ \E at \in {"ws", "close"} : session' = [session EXCEPT ![c] = [at |-> at, udp |-> t]]
    BY <1>0, <1>3 DEF session_udp
  <2>3. PICK at \in {"ws", "close"} : session' = [session EXCEPT ![c] = [at |-> at, udp |-> t]]
    BY <2>2
  <2>4. client_addr
    BY <1>0, <1>3 DEF AddrInv
  <2>5. link[c].down \in Seq(Nat) /\ Sorted(link[c].down)
    BY <1>0, QueueTypes
  <2>6. \A y \in Range(link[c].down) : y < x
    <3>1. DownLinks[c] = Range(link[c].down) /\ DownSockets[c] = Range(session[c].udp)
      BY <1>0 DEF DownLinks, DownSockets
    <3> QED BY <1>0, <2>1, <3>1, SMTT(30) DEF DownInv, Apart
  <2> HIDE DEF x, t
  <2>7. PICK q : /\ q = link[c].down \/ q = Append(link[c].down, x)
                 /\ \/ link' = link /\ q = link[c].down
                    \/ link' = [link EXCEPT ![c].down = q]
    BY <2>2
  <2>8. Grown(q, link[c].down, x)
    BY <2>1, <2>5, <2>6, <2>7, Grows
  <2>9. LinkIs(link', link, c, link[c].up, q)
    <3>1. CASE link' = link /\ q = link[c].down
      BY <1>0, <3>1, Unmoved
    <3>2. CASE link' = [link EXCEPT ![c].down = q]
      BY <1>0, <2>8, <3>2, LinkFields DEF Grown
    <3> QED BY <2>7, <3>1, <3>2
  <2>10. SessionIs(session', session, c, t)
    BY <1>0, <2>1, <2>3, SessionFields
  <2>11. \A d \in Connections : DownSockets'[d] \subseteq DownSockets[d]
    BY <1>0, <2>1, <2>10 DEF DownSockets, SessionIs
  <2>12. (\A y \in DownSockets'[c] : x < y) /\ x \in DownSockets[c]
    BY <1>0, <2>1, <2>10 DEF DownSockets, SessionIs
  <2>13. \A d \in Connections : x \notin DownSockets'[d]
    <3>1. \A d \in Connections \ {c} : x \notin DownSockets[d]
      BY <1>0, <2>12 DEF DownInv
    <3>2. x \notin DownSockets'[c]
      BY <2>1, <2>12, SMTT(30)
    <3> QED BY <1>0, <2>11, <3>1, <3>2
  <2>14. \A d \in Connections :
           DownLinks'[d] \subseteq IF d = c THEN DownLinks[c] \union {x} ELSE DownLinks[d]
    BY <1>0, <2>8, <2>9 DEF DownLinks, Grown, LinkIs
  <2>15. down.sent \in Nat
    BY <1>0, FlowFields DEF RelayType
  <2>16. Apart(Range(down.got), DownLinks', DownSockets', down.sent)
    <3> DEFINE G == Range(down.got)
    <3> DEFINE Q == DownLinks
    <3> DEFINE P == DownLinks'
    <3> DEFINE S == DownSockets
    <3> DEFINE T == DownSockets'
    <3>1. Apart(G, Q, S, down.sent) /\ down.sent \in Nat /\ c \in Connections
      BY <1>0, <2>15 DEF DownInv
    <3>2. /\ x \in S[c] /\ \A y \in T[c] : x < y
          /\ \A d \in Connections : T[d] \subseteq S[d] /\ x \notin T[d]
          /\ \A d \in Connections : P[d] \subseteq IF d = c THEN Q[c] \union {x} ELSE Q[d]
      BY <2>11, <2>12, <2>13, <2>14
    <3> HIDE DEF G, Q, P, S, T
    <3>3. Apart(G, P, T, down.sent)
      BY <3>1, <3>2, OnePassedOn
    <3> QED BY <3>3 DEF G, P, T
  <2>17. DownInv'
    <3>1. \A b \in Connections : Sorted(link'[b].down) /\ Sorted(session'[b].udp)
      BY <1>0, <2>1, <2>8, <2>9, <2>10 DEF DownInv, Grown, LinkIs, SessionIs
    <3>2. \A b \in Connections : \A d \in Connections \ {b} :
            \A y \in DownSockets'[b] : y \notin DownSockets'[d]
      BY <1>0, <2>11 DEF DownInv
    <3> QED BY <1>0, <1>1, <2>16, <3>1, <3>2 DEF DownInv
  <2>18. UpInv'
    <3>1. \A b \in Connections : link'[b].up = link[b].up
      BY <1>0, <2>9 DEF LinkIs
    <3> QED BY <1>0, <1>1, <3>1, UpLoses DEF UpInv
  <2>19. RelayType'
    BY <1>0, <1>1, <2>9, <2>10 DEF RelayType, BridgeType, LinkIs, SessionIs
  <2>20. AddrInv'
    BY <1>1, <2>4 DEF AddrInv
  <2> QED BY <2>17, <2>18, <2>19, <2>20 DEF RelayInv
<1> QED BY <1>2, <1>3

-----------------------------------------------------------------------------
(* The relay *)

LEMMA InitRelay ==
  ASSUME RelayInit
  PROVE  RelayInv
<1>1. /\ <<>> \in Seq(Nat) /\ Sorted(<<>>) /\ Range(<<>>) = {}
      /\ <<>> \in Seq(Arrived) /\ InOrder(<<>>)
  <2>1. <<>> \in Seq(Arrived) /\ DOMAIN <<>> = {}
    BY SMTT(30)
  <2>2. InOrder(<<>>)
    BY <2>1 DEF InOrder
  <2> QED BY <2>1, <2>2, EmptyQueue
<1>2. RelayType
  BY <1>1 DEF RelayInit, RelayType, BridgeType, LinkRecord, SessionRecord, Flow
<1>3. /\ local = <<>> /\ up.got = <<>> /\ down.got = <<>>
      /\ \A c \in Connections :
           link[c].up = <<>> /\ link[c].down = <<>> /\ session[c].udp = <<>>
  BY DEF RelayInit
<1>4. UpInv
  <2>1. \A c \in Connections : UpLinks[c] = {} /\ UpSockets[c] = {}
    BY <1>1, <1>3 DEF UpLinks, UpSockets
  <2>2. Apart(Range(up.got), UpLinks, UpSockets, up.sent)
    BY <1>1, <1>3, <2>1 DEF Apart
  <2> QED BY <1>1, <1>3, <2>2 DEF UpInv
<1>5. DownInv
  <2>1. \A c \in Connections : DownLinks[c] = {} /\ DownSockets[c] = {}
    BY <1>1, <1>3 DEF DownLinks, DownSockets
  <2>2. Apart(Range(down.got), DownLinks, DownSockets, down.sent)
    BY <1>1, <1>3, <2>1 DEF Apart
  <2> QED BY <1>1, <1>3, <2>1, <2>2 DEF DownInv
<1>6. AddrInv
  BY <1>3 DEF AddrInv, RelayInit
<1> QED BY <1>2, <1>4, <1>5, <1>6 DEF RelayInv

LEMMA NextRelay ==
  ASSUME RelayInv, [RelayNext]_relayVars
  PROVE  RelayInv'
<1>1. CASE client_sends
  BY <1>1, ClientSends
<1>2. CASE server_sends
  BY <1>2, ServerSends
<1>3. CASE bridge_udp
  BY <1>3, BridgeUdp
<1>4. CASE bridge_ws
  BY <1>4, BridgeWs
<1>5. CASE bridge_close
  BY <1>5, BridgeCloses
<1>6. ASSUME NEW c \in Connections,
             \/ cut(c) \/ connect_ws(c) \/ handle_ws_client(c)
             \/ session_ws(c) \/ session_udp(c) \/ session_close(c)
      PROVE  RelayInv'
  BY <1>6, Cuts, Connects, SessionStarts, SessionWs, SessionUdp, SessionCloses
<1>7. CASE UNCHANGED relayVars
  BY <1>7 DEF relayVars, RelayInv, RelayType, BridgeType, UpInv, DownInv, AddrInv,
                          UpLinks, UpSockets, DownLinks, DownSockets
<1> QED BY <1>1, <1>2, <1>3, <1>4, <1>5, <1>6, <1>7 DEF RelayNext

(* Whatever connections come, fail and go, and however many packets there  *)
(* are, none is delivered twice, those of one connection are delivered in  *)
(* the order they were sent in, and the bridge has the client's address    *)
(* whenever there is an answer to pass on (run_ws_bridge,                  *)
(* handle_ws_client).                                                      *)
THEOREM PacketsRelayedOnce == RelaySpec => []RelayedOnceInOrder
<1>1. RelayInit => RelayInv
  BY InitRelay
<1>2. RelayInv /\ [RelayNext]_relayVars => RelayInv'
  BY NextRelay
<1>3. RelayInv => RelayedOnceInOrder
  BY DEF RelayInv, UpInv, DownInv, AddrInv, RelayedOnceInOrder
<1> QED BY <1>1, <1>2, <1>3, PTL DEF RelaySpec

=============================================================================
