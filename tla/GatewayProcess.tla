--------------------------- MODULE GatewayProcess ---------------------------
(***************************************************************************)
(* Gateway processes and how they are found: run_hudsucker with the tasks  *)
(* it spawns (src/src/hudsucker.rs, event_bus.rs, stats_server.rs, ca.rs)  *)
(* and its launchers: the menu bar's spawn_gateway and claude-wrapper.sh,  *)
(* which look for a gateway before they start one, and launchd, which      *)
(* starts one at login.                                                    *)
(*                                                                         *)
(* A process starts two servers, each in a task of its own that takes the  *)
(* first free port of its range and then writes it to its port file; it    *)
(* makes sure of the certificate authority and binds the one proxy port.   *)
(* Who does not get that port exits, the port files being written already. *)
(* Port files and the CA outlive a process.                                *)
(***************************************************************************)
EXTENDS Naturals, FiniteSets

CONSTANTS
    Gateways,    \* gateway processes, by number: each is started once
    Ports,       \* the ports of either range, by number
    Nothing,     \* no port, or no port file
    Earlier,     \* the process of an earlier session
    Missing,     \* a file of the CA that is not there
    Torn         \* a file of the CA that is there and not whole

ASSUME ProcessAssumption ==
    /\ Gateways \subseteq Nat
    /\ Ports \subseteq Nat
    /\ Nothing \notin Nat
    /\ {Earlier, Missing, Torn} \cap Gateways = {}
    /\ Earlier # Missing /\ Missing # Torn /\ Torn # Earlier

VARIABLES
    busy,      \* ports that other programs hold all along
    main,      \* where run_hudsucker of every process is
    task,      \* the two server tasks of every process
    port,      \* the ports they have bound
    file,      \* the two port files
    cert,      \* ~/.bleep/ca/cert.pem: the process that generated it
    key,       \* ~/.bleep/ca/key.pem
    ca,        \* the certificate and the key every process runs with
    launcher,  \* how far every launcher is
    alone      \* history: no other process has run at the same time

Services == {"events", "stats"}
Launchers == {"menu bar", "wrapper", "launchd"}
processVars == <<busy, main, task, port, file, cert, key, ca, launcher, alone>>

Alive(g) == main[g] \notin {"off", "dead"}
Serving == {g \in Gateways : main[g] = "serving"}

\* Who listens on a port: the kernel takes connections from bind on, the server
\* answers them once its task has got to its loop.
Holder(s, p) == {g \in Gateways : p # Nothing /\ port[s][g] = p}
Healthy(p) == \E g \in Holder("stats", p) : task["stats"][g] = "listening"

\* The files are those of earlier sessions: any port in a port file, a CA or none.
ProcessInit ==
    /\ busy \in SUBSET Ports
    /\ main = [g \in Gateways |-> "off"]
    /\ task = [s \in Services |-> [g \in Gateways |-> "none"]]
    /\ port = [s \in Services |-> [g \in Gateways |-> Nothing]]
    /\ file \in [Services -> Ports \cup {Nothing}]
    /\ cert \in {Missing, Earlier} /\ key = cert
    /\ ca = [g \in Gateways |-> Nothing]
    /\ launcher = [l \in Launchers |-> "idle"]
    /\ alone = [g \in Gateways |-> TRUE]

-----------------------------------------------------------------------------
(* Launchers *)

\* gateway_already_running: the port of the file, or any port of the range.
\* _gateway_running: the port of the file, or the proxy port.  launchd does not
\* look.
Found(l) == \/ l # "launchd" /\ Healthy(file["stats"])
            \/ l = "menu bar" /\ \E p \in Ports : Healthy(p)
            \/ l = "wrapper" /\ Serving # {}

Probe(l) ==
    /\ launcher[l] = "idle"
    /\ ~Found(l)
    /\ \E g \in Gateways : main[g] = "off"
    /\ launcher' = [launcher EXCEPT ![l] = IF l = "wrapper" THEN "evict" ELSE "spawn"]
    /\ UNCHANGED <<busy, main, task, port, file, cert, key, ca, alone>>

\* A process ends, and the kernel takes back its ports.  A file it was writing
\* may stay cut off.
Exit(g) ==
    /\ main' = [main EXCEPT ![g] = "dead"]
    /\ task' = [s \in Services |-> [task[s] EXCEPT ![g] = "none"]]
    /\ port' = [s \in Services |-> [port[s] EXCEPT ![g] = Nothing]]
    /\ ca' = [ca EXCEPT ![g] = Nothing]

\* _evict_hung_gateway: whoever has taken the proxy port since the probe found
\* it free.
Evict ==
    /\ launcher["wrapper"] = "evict"
    /\ launcher' = [launcher EXCEPT !["wrapper"] = "spawn"]
    /\ \/ Serving = {} /\ UNCHANGED <<main, task, port, ca>>
       \/ \E g \in Serving : Exit(g)
    /\ UNCHANGED <<busy, file, cert, key, alone>>

Spawn(l) ==
    /\ launcher[l] = "spawn"
    /\ launcher' = [launcher EXCEPT ![l] = "idle"]
    /\ \E g \in Gateways :
          LET others == {h \in Gateways : Alive(h)} IN
          /\ main[g] = "off"
          /\ \A h \in Gateways : h < g => main[h] # "off"
          /\ main' = [main EXCEPT ![g] = "boot"]
          /\ alone' = [h \in Gateways |->
                          IF h = g THEN others = {} ELSE alone[h] /\ h \notin others]
    /\ UNCHANGED <<busy, task, port, file, cert, key, ca>>

-----------------------------------------------------------------------------
(* run_hudsucker *)

\* event_bus::start_tcp_server and stats_server::start spawn a task each, which
\* runs beside what follows.
Boot(g) ==
    /\ main[g] = "boot"
    /\ main' = [main EXCEPT ![g] = "ca"]
    /\ task' = [s \in Services |-> [task[s] EXCEPT ![g] = "bind"]]
    /\ UNCHANGED <<busy, port, file, cert, key, ca, launcher, alone>>

\* Variant: the first port of the range, free or not.
FirstPort(g, s) ==
    /\ task[s][g] = "bind"
    /\ task' = [task EXCEPT ![s][g] = "publish"]
    /\ port' = [port EXCEPT ![s][g] = CHOOSE p \in Ports : \A q \in Ports : p <= q]
    /\ UNCHANGED <<busy, main, file, cert, key, ca, launcher, alone>>

\* bind_first_available.  With all ports taken the task panics (events) or
\* gives up (stats), and the process goes on without it.
BindPort(g, s) ==
    /\ task[s][g] = "bind"
    /\ LET free == {p \in Ports \ busy : Holder(s, p) = {}} IN
       IF free = {}
       THEN task' = [task EXCEPT ![s][g] = "none"] /\ UNCHANGED port
       ELSE /\ task' = [task EXCEPT ![s][g] = "publish"]
            /\ port' = [port EXCEPT ![s][g] = CHOOSE p \in free : \A q \in free : p <= q]
    /\ UNCHANGED <<busy, main, file, cert, key, ca, launcher, alone>>

\* Variant: a port file that is there is left as it is.
PublishOnce(g, s) ==
    /\ task[s][g] = "publish"
    /\ task' = [task EXCEPT ![s][g] = "listening"]
    /\ file' = IF file[s] = Nothing THEN [file EXCEPT ![s] = port[s][g]] ELSE file
    /\ UNCHANGED <<busy, main, port, cert, key, ca, launcher, alone>>

\* The port file is written before the first connection is served.
Publish(g, s) ==
    /\ task[s][g] = "publish"
    /\ task' = [task EXCEPT ![s][g] = "listening"]
    /\ file' = [file EXCEPT ![s] = port[s][g]]
    /\ UNCHANGED <<busy, main, port, cert, key, ca, launcher, alone>>

\* ensure_ca: with both files there they are read, and the process panics over
\* what does not parse; else it generates a pair of its own.
LoadCa(g) ==
    /\ main[g] = "ca"
    /\ cert # Missing /\ key # Missing
    /\ \/ /\ Torn \notin {cert, key}
          /\ main' = [main EXCEPT ![g] = "proxy"]
          /\ ca' = [ca EXCEPT ![g] = <<cert, key>>]
          /\ UNCHANGED <<task, port>>
       \/ Torn \in {cert, key} /\ Exit(g)
    /\ UNCHANGED <<busy, file, cert, key, launcher, alone>>

\* The key is written first, the certificate only when the key is there.
GenerateCa(g) ==
    /\ main[g] = "ca"
    /\ cert = Missing \/ key = Missing
    /\ key' = g
    /\ main' = [main EXCEPT ![g] = "cert"]
    /\ UNCHANGED <<busy, task, port, file, cert, ca, launcher, alone>>

WriteCert(g) ==
    /\ main[g] = "cert"
    /\ cert' = g
    /\ ca' = [ca EXCEPT ![g] = <<g, g>>]
    /\ main' = [main EXCEPT ![g] = "proxy"]
    /\ UNCHANGED <<busy, task, port, file, key, launcher, alone>>

\* proxy.start(): one process has the port, any other logs the error and
\* returns from main.
BindProxy(g) ==
    /\ main[g] = "proxy"
    /\ \/ /\ Serving = {}
          /\ main' = [main EXCEPT ![g] = "serving"]
          /\ UNCHANGED <<task, port, ca>>
       \/ Serving # {} /\ Exit(g)
    /\ UNCHANGED <<busy, file, cert, key, launcher, alone>>

Main(g) == Boot(g) \/ LoadCa(g) \/ GenerateCa(g) \/ WriteCert(g) \/ BindProxy(g)
Run(g) == Main(g) \/ \E s \in Services : BindPort(g, s) \/ Publish(g, s)

-----------------------------------------------------------------------------
(* What happens to processes *)

\* A signal, the parent watchdog or a panic on the main thread.
Die(g) ==
    /\ Alive(g)
    /\ Exit(g)
    /\ \/ UNCHANGED <<key, cert>>
       \/ main[g] = "ca" /\ Missing \in {cert, key} /\ key' = Torn /\ UNCHANGED cert
       \/ main[g] = "cert" /\ cert' = Torn /\ UNCHANGED key
    /\ UNCHANGED <<busy, file, launcher, alone>>

\* task gateway:stop removes the port files when nobody has the proxy port: a
\* process that is still starting loses the ones it has written.
RemoveFiles ==
    /\ Serving = {}
    /\ file' = [s \in Services |-> Nothing]
    /\ UNCHANGED <<busy, main, task, port, cert, key, ca, launcher, alone>>

\* The recovery path of the menu bar's get_stats_port: the first port of the
\* range that answers is written to the file again.
RecoverFile ==
    /\ file["stats"] = Nothing
    /\ \E p \in Ports :
          /\ Healthy(p)
          /\ \A q \in Ports : q < p => ~Healthy(q)
          /\ file' = [file EXCEPT !["stats"] = p]
    /\ UNCHANGED <<busy, main, task, port, cert, key, ca, launcher, alone>>

ProcessNext ==
    \/ \E l \in Launchers : Probe(l) \/ Spawn(l)
    \/ Evict \/ RemoveFiles \/ RecoverFile
    \/ \E g \in Gateways : Run(g) \/ Die(g)

ProcessSpec == ProcessInit /\ [][ProcessNext]_processVars

-----------------------------------------------------------------------------
(* Properties *)

Signers == Gateways \cup {Earlier}
Stages == {"off", "boot", "ca", "cert", "proxy", "serving", "dead"}

\* The types, with what the operating system keeps: one process has the proxy
\* port, and no two have the same port of a range.
ProcessTypeOK ==
    /\ busy \subseteq Ports
    /\ main \in [Gateways -> Stages]
    /\ task \in [Services -> [Gateways -> {"none", "bind", "publish", "listening"}]]
    /\ port \in [Services -> [Gateways -> Ports \cup {Nothing}]]
    /\ file \in [Services -> Ports \cup {Nothing}]
    /\ {cert, key} \subseteq Signers \cup {Missing, Torn}
    /\ ca \in [Gateways -> (Signers \X Signers) \cup {Nothing}]
    /\ launcher \in [Launchers -> {"idle", "evict", "spawn"}]
    /\ alone \in [Gateways -> BOOLEAN]
    /\ \A g, h \in Serving : g = h
    /\ \A s \in Services, g \in Gateways : port[s][g] \notin busy
    /\ \A s \in Services : \A g, h \in Gateways :
          port[s][g] = port[s][h] /\ port[s][g] # Nothing => g = h

\* A process that has never had another one beside it is found and trusted: the
\* files that are there name its ports, whatever earlier sessions left in them,
\* and the CA on disk, which clients trust, is the pair it signs with, wherever
\* an earlier start was cut off.  (stats_server.rs:284, event_bus.rs:39 and
\* ca.rs:30-61.  Two processes at once can leave port files that name neither
\* and a certificate that does not belong to the key.)
PortFilesAreRight(g) ==
    \A s \in Services : task[s][g] = "listening" => file[s] \in {port[s][g], Nothing}
CaIsTrusted(g) == main[g] \in {"proxy", "serving"} => ca[g] = <<cert, key>> /\ cert = key
SoleGatewayIsReachable ==
    /\ \A g \in Gateways : alone[g] => PortFilesAreRight(g)
    /\ (\A g \in Gateways : alone[g]) => \A g \in Gateways : CaIsTrusted(g)
=============================================================================
