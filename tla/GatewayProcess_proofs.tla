------------------------ MODULE GatewayProcess_proofs ------------------------
(***************************************************************************)
(* Proofs about GatewayProcess, for any number of processes and ports: the *)
(* type invariant with what the operating system keeps, and that a process *)
(* which has never had another one beside it is found and trusted.         *)
(***************************************************************************)
EXTENDS GatewayProcess, WellFoundedInduction, TLAPS

-----------------------------------------------------------------------------
(***************************************************************************)
(* Ports                                                                   *)
(***************************************************************************)

\* bind_first_available finds the lowest free port when there is one.
LEMMA LowestPort ==
  ASSUME NEW free \in SUBSET Ports, free # {}
  PROVE  (CHOOSE p \in free : \A q \in free : p <= q) \in free
<1> DEFINE Less == {ss \in Nat \X Nat : ss[1] < ss[2]}
<1>1. free \subseteq Nat
  BY ProcessAssumption
<1>2. IsWellFoundedOn(Less, Nat)
  BY NatLessThanWellFounded DEF OpToRel
<1>3. PICK p \in free : \A q \in free : ~ (<<q, p>> \in Less)
  <2> HIDE DEF Less
  <2>. QED  BY <1>1, <1>2, WFMin
<1>4. \A q \in free : p <= q
  <2> SUFFICES ASSUME NEW q \in free PROVE p <= q
    OBVIOUS
  <2>1. <<q, p>> \in Nat \X Nat /\ <<q, p>>[1] = q /\ <<q, p>>[2] = p
    BY <1>1
  <2>2. ~ (q < p)
    BY <1>3, <2>1
  <2>. QED  BY <1>1, <2>2
<1>. QED  BY <1>4

\* A process that ends leaves the types alone, and gives its ports back.
LEMMA ExitTypes ==
  ASSUME ProcessTypeOK, NEW g \in Gateways, Exit(g)
  PROVE  /\ main' \in [Gateways -> Stages]
         /\ task' \in [Services -> [Gateways -> {"none", "bind", "publish", "listening"}]]
         /\ port' \in [Services -> [Gateways -> Ports \cup {Nothing}]]
         /\ ca' \in [Gateways -> (Signers \X Signers) \cup {Nothing}]
         /\ Serving' \subseteq Serving
         /\ \A s \in Services, h \in Gateways : port'[s][h] \in {port[s][h], Nothing}
<1>1. main' \in [Gateways -> Stages]
  BY DEF ProcessTypeOK, Exit, Stages
<1>2. task' \in [Services -> [Gateways -> {"none", "bind", "publish", "listening"}]]
  BY DEF ProcessTypeOK, Exit
<1>3. /\ port' \in [Services -> [Gateways -> Ports \cup {Nothing}]]
      /\ \A s \in Services, h \in Gateways : port'[s][h] \in {port[s][h], Nothing}
  BY DEF ProcessTypeOK, Exit
<1>4. ca' \in [Gateways -> (Signers \X Signers) \cup {Nothing}]
  BY DEF ProcessTypeOK, Exit
<1>5. Serving' \subseteq Serving
  BY DEF ProcessTypeOK, Exit, Serving
<1>. QED  BY <1>1, <1>2, <1>3, <1>4, <1>5

LEMMA ExitKeepsTypes ==
  ASSUME ProcessTypeOK, NEW g \in Gateways, Exit(g),
         UNCHANGED <<busy, file, alone>>,
         launcher' \in [Launchers -> {"idle", "evict", "spawn"}],
         {cert', key'} \subseteq Signers \cup {Missing, Torn}
  PROVE  ProcessTypeOK'
<1>1. \A h, k \in Serving' : h = k
  BY ExitTypes DEF ProcessTypeOK
<1>2. \A s \in Services, h \in Gateways : port'[s][h] \notin busy'
  <2>1. busy' = busy /\ Nothing \notin busy /\ \A s \in Services, h \in Gateways : port[s][h] \notin busy
    BY ProcessAssumption DEF ProcessTypeOK
  <2>. QED  BY <2>1, ExitTypes
<1>3. \A s \in Services : \A h, k \in Gateways :
         port'[s][h] = port'[s][k] /\ port'[s][h] # Nothing => h = k
  <2> SUFFICES ASSUME NEW s \in Services, NEW h \in Gateways, NEW k \in Gateways,
                      port'[s][h] = port'[s][k], port'[s][h] # Nothing
               PROVE  h = k
    OBVIOUS
  <2>1. port'[s][h] = port[s][h] /\ port'[s][k] = port[s][k]
    BY ExitTypes
  <2>. QED  BY <2>1 DEF ProcessTypeOK
<1>. QED  BY <1>1, <1>2, <1>3, ExitTypes DEF ProcessTypeOK

LEMMA ProcessInitTypes == ProcessInit => ProcessTypeOK
<1> SUFFICES ASSUME ProcessInit PROVE ProcessTypeOK
  OBVIOUS
<1>1. Serving = {}
  BY DEF ProcessInit, Serving
<1>2. \A s \in Services, g \in Gateways : port[s][g] = Nothing
  BY DEF ProcessInit
<1>3. \A s \in Services, g \in Gateways : port[s][g] \notin busy
  BY <1>2, ProcessAssumption DEF ProcessInit
<1>. QED  BY <1>1, <1>2, <1>3 DEF ProcessInit, ProcessTypeOK, Stages, Signers

LEMMA ProcessNextTypes == ProcessTypeOK /\ [ProcessNext]_processVars => ProcessTypeOK'
<1> SUFFICES ASSUME ProcessTypeOK, [ProcessNext]_processVars PROVE ProcessTypeOK'
  OBVIOUS
<1>1. ASSUME NEW l \in Launchers, Probe(l) PROVE ProcessTypeOK'
  BY <1>1 DEF Probe, ProcessTypeOK, Serving
<1>2. ASSUME NEW l \in Launchers, Spawn(l) PROVE ProcessTypeOK'
  <2>1. main' \in [Gateways -> Stages] /\ alone' \in [Gateways -> BOOLEAN]
    BY <1>2, ZenonT(60) DEF Spawn, ProcessTypeOK, Stages
  <2>2. Serving' \subseteq Serving
    BY <1>2 DEF Spawn, ProcessTypeOK, Serving
  <2>. QED  BY <1>2, <2>1, <2>2 DEF Spawn, ProcessTypeOK
<1>3. CASE Evict
  <2>1. CASE UNCHANGED <<main, task, port, ca>>
    BY <1>3, <2>1, ZenonT(60) DEF Evict, ProcessTypeOK, Serving
  <2>2. CASE \E g \in Serving : Exit(g)
    <3>1. PICK g \in Gateways : Exit(g)
      BY <2>2 DEF Serving
    <3>2. launcher' \in [Launchers -> {"idle", "evict", "spawn"}]
      BY <1>3 DEF Evict, ProcessTypeOK
    <3>. QED  BY <1>3, <3>1, <3>2, ExitKeepsTypes DEF Evict, ProcessTypeOK
  <2>. QED  BY <1>3, <2>1, <2>2 DEF Evict
<1>4. ASSUME NEW g \in Gateways, Boot(g) PROVE ProcessTypeOK'
  <2>1. /\ main' \in [Gateways -> Stages]
        /\ task' \in [Services -> [Gateways -> {"none", "bind", "publish", "listening"}]]
        /\ Serving' \subseteq Serving
    BY <1>4 DEF Boot, ProcessTypeOK, Stages, Serving
  <2>. QED  BY <1>4, <2>1 DEF Boot, ProcessTypeOK, Signers
<1>5. ASSUME NEW g \in Gateways, NEW s \in Services, BindPort(g, s) PROVE ProcessTypeOK'
  <2> DEFINE free == {p \in Ports \ busy : Holder(s, p) = {}}
             low  == CHOOSE p \in free : \A q \in free : p <= q
  <2>1. /\ task' \in [Services -> [Gateways -> {"none", "bind", "publish", "listening"}]]
        /\ Serving' = Serving
    <3>1. PICK x \in {"none", "publish"} : task' = [task EXCEPT ![s][g] = x]
      BY <1>5 DEF BindPort
    <3>2. UNCHANGED main
      BY <1>5 DEF BindPort
    <3>. QED  BY <3>1, <3>2 DEF ProcessTypeOK, Serving
  <2>2. CASE free = {}
    <3>1. UNCHANGED port
      BY <1>5, <2>2 DEF BindPort
    <3>. QED  BY <1>5, <2>1, <3>1 DEF BindPort, ProcessTypeOK, Signers
  <2>3. CASE free # {}
    <3>1. port' = [port EXCEPT ![s][g] = low]
      BY <1>5, <2>3 DEF BindPort
    <3>2. low \in free
      <4>1. free \in SUBSET Ports
        OBVIOUS
      <4> HIDE DEF free
      <4>. QED  BY <2>3, <4>1, LowestPort DEF low
    <3>3. low \in Ports /\ low \notin busy /\ \A h \in Gateways : port[s][h] # low
      BY <3>2, ProcessAssumption DEF Holder
    <3> HIDE DEF low, free
    <3>4. port' \in [Services -> [Gateways -> Ports \cup {Nothing}]]
      BY <3>1, <3>3 DEF ProcessTypeOK
    <3>5. \A t \in Services, h \in Gateways :
             port'[t][h] = IF t = s /\ h = g THEN low ELSE port[t][h]
      BY <3>1 DEF ProcessTypeOK
    <3>6. busy' = busy /\ \A t \in Services, h \in Gateways : port'[t][h] \notin busy'
      BY <1>5, <3>3, <3>5 DEF BindPort, ProcessTypeOK
    <3>7. \A t \in Services : \A h, k \in Gateways :
             port'[t][h] = port'[t][k] /\ port'[t][h] # Nothing => h = k
      BY <3>3, <3>5 DEF ProcessTypeOK
    <3>. QED  BY <1>5, <2>1, <3>4, <3>6, <3>7 DEF BindPort, ProcessTypeOK, Signers
  <2>. QED  BY <2>2, <2>3
<1>6. ASSUME NEW g \in Gateways, NEW s \in Services, Publish(g, s) PROVE ProcessTypeOK'
  <2>1. /\ task' \in [Services -> [Gateways -> {"none", "bind", "publish", "listening"}]]
        /\ file' \in [Services -> Ports \cup {Nothing}]
        /\ Serving' = Serving
    BY <1>6 DEF Publish, ProcessTypeOK, Serving
  <2>. QED  BY <1>6, <2>1 DEF Publish, ProcessTypeOK, Signers
<1>7. ASSUME NEW g \in Gateways, LoadCa(g) PROVE ProcessTypeOK'
  <2>1. CASE Exit(g)
    BY <1>7, <2>1, ExitKeepsTypes DEF LoadCa, ProcessTypeOK
  <2>2. CASE Torn \notin {cert, key} /\ main' = [main EXCEPT ![g] = "proxy"]
                /\ ca' = [ca EXCEPT ![g] = <<cert, key>>] /\ UNCHANGED <<task, port>>
    <3>1. <<cert, key>> \in Signers \X Signers
      BY <1>7, <2>2 DEF LoadCa, ProcessTypeOK
    <3>2. main' \in [Gateways -> Stages] /\ Serving' \subseteq Serving
      BY <2>2 DEF ProcessTypeOK, Stages, Serving
    <3>3. ca' \in [Gateways -> (Signers \X Signers) \cup {Nothing}]
      BY <2>2, <3>1 DEF ProcessTypeOK
    <3>. QED  BY <1>7, <2>2, <3>2, <3>3 DEF LoadCa, ProcessTypeOK, Signers
  <2>. QED  BY <1>7, <2>1, <2>2 DEF LoadCa
<1>8. ASSUME NEW g \in Gateways, GenerateCa(g) PROVE ProcessTypeOK'
  <2>1. main' \in [Gateways -> Stages] /\ Serving' \subseteq Serving
    BY <1>8 DEF GenerateCa, ProcessTypeOK, Stages, Serving
  <2>. QED  BY <1>8, <2>1 DEF GenerateCa, ProcessTypeOK, Signers
<1>9. ASSUME NEW g \in Gateways, WriteCert(g) PROVE ProcessTypeOK'
  <2>1. main' \in [Gateways -> Stages] /\ Serving' \subseteq Serving
    BY <1>9 DEF WriteCert, ProcessTypeOK, Stages, Serving
  <2>2. ca' \in [Gateways -> (Signers \X Signers) \cup {Nothing}]
    BY <1>9 DEF WriteCert, ProcessTypeOK, Signers
  <2>. QED  BY <1>9, <2>1, <2>2 DEF WriteCert, ProcessTypeOK, Signers
<1>10. ASSUME NEW g \in Gateways, BindProxy(g) PROVE ProcessTypeOK'
  <2>1. CASE Exit(g)
    BY <1>10, <2>1, ExitKeepsTypes DEF BindProxy, ProcessTypeOK
  <2>2. CASE Serving = {} /\ main' = [main EXCEPT ![g] = "serving"] /\ UNCHANGED <<task, port, ca>>
    <3>1. main' \in [Gateways -> Stages] /\ Serving' \subseteq {g}
      BY <2>2 DEF ProcessTypeOK, Stages, Serving
    <3>. QED  BY <1>10, <2>2, <3>1 DEF BindProxy, ProcessTypeOK, Signers
  <2>. QED  BY <1>10, <2>1, <2>2 DEF BindProxy
<1>11. ASSUME NEW g \in Gateways, Die(g) PROVE ProcessTypeOK'
  <2>1. {cert', key'} \subseteq Signers \cup {Missing, Torn}
    BY <1>11 DEF Die, ProcessTypeOK
  <2>. QED  BY <1>11, <2>1, ExitKeepsTypes DEF Die, ProcessTypeOK
<1>12. CASE RemoveFiles
  BY <1>12 DEF RemoveFiles, ProcessTypeOK, Serving, Signers
<1>13. CASE RecoverFile
  <2>1. file' \in [Services -> Ports \cup {Nothing}]
    BY <1>13 DEF RecoverFile, ProcessTypeOK
  <2>. QED  BY <1>13, <2>1 DEF RecoverFile, ProcessTypeOK, Serving, Signers
<1>14. CASE UNCHANGED processVars
  BY <1>14 DEF processVars, ProcessTypeOK, Serving, Signers
<1>. QED  BY <1>1, <1>2, <1>3, <1>4, <1>5, <1>6, <1>7, <1>8, <1>9, <1>10, <1>11, <1>12,
             <1>13, <1>14 DEF ProcessNext, Run, Main

\* However processes are started, die and are evicted: one has the proxy port at
\* a time, no two share a port of a range, and what is on disk is of its kind.
THEOREM ProcessTypes == ProcessSpec => []ProcessTypeOK
  BY ProcessInitTypes, ProcessNextTypes, PTL DEF ProcessSpec

-----------------------------------------------------------------------------
(***************************************************************************)
(* A process that was never beside another one                             *)
(***************************************************************************)

\* Who was alone is: a process that runs now was never beside one that runs
\* now, and one that was not started has met nobody.
AloneInv ==
  /\ \A g, h \in Gateways : g # h /\ Alive(g) /\ Alive(h) => ~ alone[g]
  /\ \A g \in Gateways : main[g] = "off" => alone[g]

\* Tasks and ports are those of processes that run.
TaskInv ==
  \A s \in Services, g \in Gateways :
    /\ task[s][g] # "none" => Alive(g)
    /\ port[s][g] # Nothing => Alive(g)

\* As long as no two processes have met: there is no certificate without its
\* key, but for one cut off; and the certificate of the key that a process has
\* written is its own to write.
CaInv ==
  /\ key = Missing => cert = Missing
  /\ \A g \in Gateways : main[g] = "cert" => key # Missing
  /\ (\A g \in Gateways : alone[g]) =>
       /\ cert \in {Missing, Torn, key}
       /\ \A g \in Gateways : main[g] = "cert" => key = g /\ cert = Missing
       /\ \A g \in Gateways : CaIsTrusted(g)

ProcessInv == ProcessTypeOK /\ AloneInv /\ TaskInv /\ CaInv /\ SoleGatewayIsReachable

LEMMA ProcessInitInv == ProcessInit => ProcessInv
<1> SUFFICES ASSUME ProcessInit PROVE ProcessInv
  OBVIOUS
<1>1. ProcessTypeOK
  BY ProcessInitTypes
<1>2. AloneInv
  BY DEF ProcessInit, AloneInv, Alive
<1>3. TaskInv
  BY DEF ProcessInit, TaskInv
<1>4. CaInv /\ SoleGatewayIsReachable
  BY DEF ProcessInit, CaInv, SoleGatewayIsReachable, CaIsTrusted, PortFilesAreRight
<1>. QED  BY <1>1, <1>2, <1>3, <1>4 DEF ProcessInv

\* A step that starts no process starts nobody's company: what runs afterwards
\* ran before.
Fewer == /\ \A g \in Gateways : (Alive(g))' => Alive(g)
         /\ \A g \in Gateways : (main[g] = "off")' => main[g] = "off"
         /\ UNCHANGED alone

\* What happens to the processes in a step, for every action.
LEMMA StepsAreFewer ==
  ASSUME ProcessTypeOK, [ProcessNext]_processVars
  PROVE  Fewer \/ \E l \in Launchers : Spawn(l)
<1>1. ASSUME NEW g \in Gateways, Exit(g), UNCHANGED alone PROVE Fewer
  BY <1>1 DEF Exit, Fewer, Alive, ProcessTypeOK
<1>2. ASSUME NEW l \in Launchers, Probe(l) PROVE Fewer
  BY <1>2 DEF Probe, Fewer, Alive
<1>3. CASE Evict
  BY <1>1, <1>3 DEF Evict, Fewer, Alive, Serving
<1>4. ASSUME NEW g \in Gateways, Main(g) PROVE Fewer
  <2>1. CASE Boot(g)
    BY <2>1 DEF Boot, Fewer, Alive, ProcessTypeOK
  <2>2. CASE LoadCa(g)
    BY <1>1, <2>2 DEF LoadCa, Fewer, Alive, ProcessTypeOK
  <2>3. CASE GenerateCa(g)
    BY <2>3 DEF GenerateCa, Fewer, Alive, ProcessTypeOK
  <2>4. CASE WriteCert(g)
    BY <2>4 DEF WriteCert, Fewer, Alive, ProcessTypeOK
  <2>5. CASE BindProxy(g)
    BY <1>1, <2>5 DEF BindProxy, Fewer, Alive, ProcessTypeOK
  <2>. QED  BY <1>4, <2>1, <2>2, <2>3, <2>4, <2>5 DEF Main
<1>5. ASSUME NEW g \in Gateways, NEW s \in Services, BindPort(g, s) \/ Publish(g, s) PROVE Fewer
  BY <1>5 DEF BindPort, Publish, Fewer, Alive
<1>6. ASSUME NEW g \in Gateways, Die(g) PROVE Fewer
  BY <1>1, <1>6 DEF Die
<1>7. CASE RemoveFiles \/ RecoverFile \/ UNCHANGED processVars
  BY <1>7 DEF RemoveFiles, RecoverFile, processVars, Fewer, Alive
<1>. QED  BY <1>2, <1>3, <1>4, <1>5, <1>6, <1>7 DEF ProcessNext, Run

LEMMA AloneStep ==
  ASSUME ProcessTypeOK, AloneInv, [ProcessNext]_processVars
  PROVE  /\ AloneInv'
         /\ \A g \in Gateways : alone'[g] => alone[g]
<1>1. CASE Fewer
  BY <1>1 DEF Fewer, AloneInv
<1>2. ASSUME NEW l \in Launchers, Spawn(l)
      PROVE  AloneInv' /\ \A g \in Gateways : alone'[g] => alone[g]
  <2> DEFINE others == {h \in Gateways : Alive(h)}
  <2>1. PICK g \in Gateways :
           /\ main[g] = "off"
           /\ main' = [main EXCEPT ![g] = "boot"]
           /\ alone' = [h \in Gateways |->
                           IF h = g THEN others = {} ELSE alone[h] /\ h \notin others]
    BY <1>2 DEF Spawn
  <2>2. \A h \in Gateways : alone'[h] => alone[h]
    BY <2>1 DEF AloneInv
  <2>3. \A h \in Gateways : (Alive(h))' => h = g \/ Alive(h)
    BY <2>1 DEF Alive, ProcessTypeOK
  <2>4. \A h, k \in Gateways : h # k /\ (Alive(h))' /\ (Alive(k))' => ~ alone'[h]
    BY <2>1, <2>3 DEF AloneInv
  <2>5. \A h \in Gateways : main'[h] = "off" => alone'[h]
    BY <2>1 DEF AloneInv, Alive, ProcessTypeOK
  <2>. QED  BY <2>2, <2>4, <2>5 DEF AloneInv
<1>. QED  BY <1>1, <1>2, StepsAreFewer

LEMMA TaskStep ==
  ASSUME ProcessTypeOK, TaskInv, [ProcessNext]_processVars
  PROVE  TaskInv'
<1>1. ASSUME NEW g \in Gateways, Exit(g) PROVE TaskInv'
  BY <1>1 DEF Exit, TaskInv, Alive, ProcessTypeOK
<1>2. ASSUME NEW l \in Launchers, Probe(l) PROVE TaskInv'
  BY <1>2 DEF Probe, TaskInv, Alive
<1>3. ASSUME NEW l \in Launchers, Spawn(l) PROVE TaskInv'
  BY <1>3 DEF Spawn, TaskInv, Alive, ProcessTypeOK
<1>4. CASE Evict
  <2>1. CASE UNCHANGED <<main, task, port, ca>>
    BY <2>1 DEF TaskInv, Alive
  <2>. QED  BY <1>1, <1>4, <2>1 DEF Evict, Serving
<1>5. ASSUME NEW g \in Gateways, Main(g) PROVE TaskInv'
  <2>1. CASE Boot(g)
    BY <2>1 DEF Boot, TaskInv, Alive, ProcessTypeOK
  <2>2. CASE LoadCa(g)
    BY <1>1, <2>2 DEF LoadCa, TaskInv, Alive, ProcessTypeOK
  <2>3. CASE GenerateCa(g)
    BY <2>3 DEF GenerateCa, TaskInv, Alive, ProcessTypeOK
  <2>4. CASE WriteCert(g)
    BY <2>4 DEF WriteCert, TaskInv, Alive, ProcessTypeOK
  <2>5. CASE BindProxy(g)
    BY <1>1, <2>5 DEF BindProxy, TaskInv, Alive, ProcessTypeOK
  <2>. QED  BY <1>5, <2>1, <2>2, <2>3, <2>4, <2>5 DEF Main
<1>6. ASSUME NEW g \in Gateways, NEW s \in Services, BindPort(g, s) PROVE TaskInv'
  <2>1. Alive(g) /\ UNCHANGED main
    BY <1>6 DEF BindPort, TaskInv
  <2>2. \A t \in Services, h \in Gateways :
           t # s \/ h # g => task'[t][h] = task[t][h] /\ port'[t][h] = port[t][h]
    <3>1. PICK x, y : /\ task' = [task EXCEPT ![s][g] = x]
                      /\ port' = port \/ port' = [port EXCEPT ![s][g] = y]
      BY <1>6 DEF BindPort
    <3>. QED  BY <3>1 DEF ProcessTypeOK
  <2>. QED  BY <2>1, <2>2 DEF TaskInv, Alive
<1>7. ASSUME NEW g \in Gateways, NEW s \in Services, Publish(g, s) PROVE TaskInv'
  BY <1>7 DEF Publish, TaskInv, Alive, ProcessTypeOK
<1>8. ASSUME NEW g \in Gateways, Die(g) PROVE TaskInv'
  BY <1>1, <1>8 DEF Die
<1>9. CASE RemoveFiles \/ RecoverFile \/ UNCHANGED processVars
  BY <1>9 DEF RemoveFiles, RecoverFile, processVars, TaskInv, Alive
<1>. QED  BY <1>2, <1>3, <1>4, <1>5, <1>6, <1>7, <1>8, <1>9 DEF ProcessNext, Run

\* A task that listens listened before on the same port, or has just published it.
LEMMA ListeningStep ==
  ASSUME ProcessTypeOK, [ProcessNext]_processVars,
         NEW g \in Gateways, NEW s \in Services, task'[s][g] = "listening"
  PROVE  \/ Publish(g, s)
         \/ task[s][g] = "listening" /\ port'[s][g] = port[s][g]
<1> DEFINE Kept == task[s][g] = "listening" /\ port'[s][g] = port[s][g]
<1>1. ASSUME NEW h \in Gateways, Exit(h) PROVE Kept
  BY <1>1 DEF Exit, ProcessTypeOK
<1>2. CASE UNCHANGED <<task, port>>
  BY <1>2
<1>3. ASSUME NEW l \in Launchers, Probe(l) \/ Spawn(l) PROVE Kept
  BY <1>2, <1>3 DEF Probe, Spawn
<1>4. CASE Evict
  BY <1>1, <1>2, <1>4 DEF Evict, Serving
<1>5. ASSUME NEW h \in Gateways, Main(h) PROVE Kept
  <2>1. CASE Boot(h)
    BY <2>1 DEF Boot, ProcessTypeOK
  <2>2. CASE LoadCa(h)
    BY <1>1, <1>2, <2>2 DEF LoadCa
  <2>3. CASE GenerateCa(h) \/ WriteCert(h)
    BY <1>2, <2>3 DEF GenerateCa, WriteCert
  <2>4. CASE BindProxy(h)
    BY <1>1, <1>2, <2>4 DEF BindProxy
  <2>. QED  BY <1>5, <2>1, <2>2, <2>3, <2>4 DEF Main
<1>6. ASSUME NEW h \in Gateways, NEW t \in Services, BindPort(h, t) PROVE Kept
  <2>1. PICK x, y :
           /\ x \in {"none", "publish"}
           /\ task' = [task EXCEPT ![t][h] = x]
           /\ port' = port \/ port' = [port EXCEPT ![t][h] = y]
    BY <1>6 DEF BindPort
  <2>2. t # s \/ h # g
    BY <2>1 DEF ProcessTypeOK
  <2>. QED  BY <2>1, <2>2 DEF ProcessTypeOK
<1>7. ASSUME NEW h \in Gateways, NEW t \in Services, Publish(h, t)
      PROVE  Kept \/ Publish(g, s)
  BY <1>7 DEF Publish, ProcessTypeOK
<1>8. ASSUME NEW h \in Gateways, Die(h) PROVE Kept
  BY <1>1, <1>8 DEF Die
<1>9. CASE RemoveFiles \/ RecoverFile \/ UNCHANGED processVars
  BY <1>2, <1>9 DEF RemoveFiles, RecoverFile, processVars
<1>. QED  BY <1>3, <1>4, <1>5, <1>6, <1>7, <1>8, <1>9 DEF ProcessNext, Run

\* A port file changes when it is removed or names a port that somebody has.
LEMMA FileStep ==
  ASSUME ProcessTypeOK, [ProcessNext]_processVars, NEW s \in Services
  PROVE  \/ file'[s] \in {file[s], Nothing}
         \/ \E h \in Gateways : task[s][h] # "none" /\ file'[s] = port[s][h]
<1>1. ASSUME NEW h \in Gateways, NEW t \in Services, Publish(h, t)
      PROVE  file'[s] = file[s] \/ (task[s][h] # "none" /\ file'[s] = port[s][h])
  BY <1>1 DEF Publish, ProcessTypeOK
<1>2. CASE RecoverFile
  <2>1. PICK p \in Ports : Healthy(p) /\ file' = [file EXCEPT !["stats"] = p]
    BY <1>2 DEF RecoverFile
  <2>2. PICK h \in Gateways : task["stats"][h] = "listening" /\ port["stats"][h] = p
    BY <2>1 DEF Healthy, Holder
  <2>. QED  BY <2>1, <2>2 DEF ProcessTypeOK
<1>3. CASE RemoveFiles
  BY <1>3 DEF RemoveFiles
<1>4. CASE UNCHANGED file
  BY <1>4
<1>5. \/ UNCHANGED file \/ RemoveFiles \/ RecoverFile
      \/ \E h \in Gateways, t \in Services : Publish(h, t)
  BY DEF ProcessNext, Probe, Spawn, Evict, Run, Main, Boot, LoadCa, GenerateCa, WriteCert,
         BindProxy, BindPort, Die, processVars
<1>. QED  BY <1>1, <1>2, <1>3, <1>4, <1>5

\* The port files of a process that was never beside another one.
LEMMA PortFilesStep ==
  ASSUME ProcessTypeOK, AloneInv, TaskInv, [ProcessNext]_processVars,
         \A g \in Gateways : alone[g] => PortFilesAreRight(g)
  PROVE  \A g \in Gateways : alone'[g] => (PortFilesAreRight(g))'
<1> SUFFICES ASSUME NEW g \in Gateways, alone'[g], NEW s \in Services, task'[s][g] = "listening"
             PROVE  file'[s] \in {port'[s][g], Nothing}
  BY DEF PortFilesAreRight
<1>1. alone[g]
  BY AloneStep
<1>2. CASE Publish(g, s)
  BY <1>2 DEF Publish, ProcessTypeOK
<1>3. CASE task[s][g] = "listening" /\ port'[s][g] = port[s][g]
  <2>1. file[s] \in {port[s][g], Nothing}
    BY <1>1, <1>3 DEF PortFilesAreRight
  <2>2. \A h \in Gateways : task[s][h] # "none" => h = g
    BY <1>1, <1>3 DEF TaskInv, AloneInv
  <2>. QED  BY <1>3, <2>1, <2>2, FileStep
<1>. QED  BY <1>2, <1>3, ListeningStep

\* A process whose step changes nothing of the CA: what it leaves of the others
\* is as it was.
LEMMA CaKept ==
  ASSUME ProcessTypeOK, CaInv, UNCHANGED <<cert, key>>,
         \A g \in Gateways : alone'[g] => alone[g],
         \A g \in Gateways : (main[g] = "cert")' => main[g] = "cert",
         \A g \in Gateways : (main[g] \in {"proxy", "serving"})' =>
                                main[g] \in {"proxy", "serving"} /\ ca'[g] = ca[g]
  PROVE  CaInv'
BY DEF CaInv, CaIsTrusted

LEMMA CaExit ==
  ASSUME ProcessTypeOK, CaInv, NEW g \in Gateways, Exit(g), UNCHANGED <<cert, key, alone>>
  PROVE  CaInv'
<1>1. \A h \in Gateways : main'[h] \in {main[h], "dead"}
  BY DEF Exit, ProcessTypeOK
<1>2. \A h \in Gateways : main'[h] # "dead" => ca'[h] = ca[h]
  BY DEF Exit, ProcessTypeOK
<1>. QED  BY <1>1, <1>2, CaKept

LEMMA CaStep ==
  ASSUME ProcessTypeOK, AloneInv, CaInv, [ProcessNext]_processVars
  PROVE  CaInv'
<1>0. \A g \in Gateways : alone'[g] => alone[g]
  BY AloneStep
<1>1. CASE UNCHANGED <<main, cert, key, ca>>
  BY <1>0, <1>1, CaKept
<1>2. ASSUME NEW l \in Launchers, Spawn(l) PROVE CaInv'
  <2>1. \A g \in Gateways : main'[g] \in {main[g], "boot"}
    BY <1>2 DEF Spawn, ProcessTypeOK
  <2>. QED  BY <1>0, <1>2, <2>1, CaKept DEF Spawn
<1>3. CASE Evict
  BY <1>1, <1>3, CaExit DEF Evict, Serving
<1>4. ASSUME NEW g \in Gateways, Boot(g) PROVE CaInv'
  <2>1. \A h \in Gateways : main'[h] \in {main[h], "ca"}
    BY <1>4 DEF Boot, ProcessTypeOK
  <2>. QED  BY <1>0, <1>4, <2>1, CaKept DEF Boot
<1>5. ASSUME NEW g \in Gateways, LoadCa(g) PROVE CaInv'
  <2>1. CASE Exit(g)
    BY <1>5, <2>1, CaExit DEF LoadCa
  <2>2. CASE ~ Exit(g)
    <3>1. /\ cert # Missing /\ Torn \notin {cert, key}
          /\ main' = [main EXCEPT ![g] = "proxy"]
          /\ ca' = [ca EXCEPT ![g] = <<cert, key>>]
          /\ UNCHANGED <<cert, key, alone>>
      BY <1>5, <2>2 DEF LoadCa
    <3>2. \A h \in Gateways : h # g => main'[h] = main[h] /\ ca'[h] = ca[h]
      BY <3>1 DEF ProcessTypeOK
    <3>3. main'[g] = "proxy" /\ ca'[g] = <<cert, key>>
      BY <3>1 DEF ProcessTypeOK
    <3>. QED  BY <3>1, <3>2, <3>3 DEF CaInv, CaIsTrusted
  <2>. QED  BY <2>1, <2>2
<1>6. ASSUME NEW g \in Gateways, GenerateCa(g) PROVE CaInv'
  <2>1. /\ cert' = Missing /\ key' = g /\ g # Missing
        /\ main' = [main EXCEPT ![g] = "cert"]
        /\ UNCHANGED <<ca, alone>>
    BY <1>6, ProcessAssumption DEF GenerateCa, CaInv
  <2>2. \A h \in Gateways : h # g => main'[h] = main[h]
    BY <2>1 DEF ProcessTypeOK
  <2>3. ASSUME \A h \in Gateways : alone[h]
        PROVE  \A h \in Gateways : h # g => main[h] \notin {"cert", "proxy", "serving"}
    BY <1>6, <2>3 DEF GenerateCa, AloneInv, Alive
  <2>4. main'[g] = "cert"
    BY <2>1 DEF ProcessTypeOK
  <2>. QED  BY <2>1, <2>2, <2>3, <2>4 DEF CaInv, CaIsTrusted
<1>7. ASSUME NEW g \in Gateways, WriteCert(g) PROVE CaInv'
  <2>1. /\ main[g] = "cert" /\ cert' = g /\ key' = key /\ g # Missing
        /\ main' = [main EXCEPT ![g] = "proxy"]
        /\ ca' = [ca EXCEPT ![g] = <<g, g>>]
        /\ UNCHANGED alone
    BY <1>7, ProcessAssumption DEF WriteCert
  <2>2. \A h \in Gateways : h # g => main'[h] = main[h] /\ ca'[h] = ca[h]
    BY <2>1 DEF ProcessTypeOK
  <2>3. main'[g] = "proxy" /\ ca'[g] = <<g, g>>
    BY <2>1 DEF ProcessTypeOK
  <2>4. ASSUME \A h \in Gateways : alone[h]
        PROVE  /\ key = g
               /\ \A h \in Gateways : h # g => main[h] \notin {"cert", "proxy", "serving"}
    BY <2>1, <2>4 DEF CaInv, AloneInv, Alive
  <2>5. key # Missing
    BY <2>1 DEF CaInv
  <2>. QED  BY <2>1, <2>2, <2>3, <2>4, <2>5 DEF CaInv, CaIsTrusted
<1>8. ASSUME NEW g \in Gateways, BindProxy(g) PROVE CaInv'
  <2>1. CASE Exit(g)
    BY <1>8, <2>1, CaExit DEF BindProxy
  <2>2. CASE main' = [main EXCEPT ![g] = "serving"] /\ UNCHANGED <<task, port, ca>>
    <3>1. main[g] = "proxy"
      BY <1>8 DEF BindProxy
    <3>2. \A h \in Gateways : main'[h] = main[h] \/ (h = g /\ main'[h] = "serving")
      BY <2>2 DEF ProcessTypeOK
    <3>. QED  BY <1>0, <1>8, <2>2, <3>1, <3>2, CaKept DEF BindProxy
  <2>. QED  BY <1>8, <2>1, <2>2 DEF BindProxy
<1>9. ASSUME NEW g \in Gateways, Die(g) PROVE CaInv'
  <2>0. Alive(g) /\ Exit(g) /\ UNCHANGED alone
    BY <1>9 DEF Die
  <2>1. CASE UNCHANGED <<cert, key>>
    BY <2>0, <2>1, CaExit
  <2>2. \A h \in Gateways : main'[h] \in {main[h], "dead"}
    BY <2>0 DEF Exit, ProcessTypeOK
  <2>3. ASSUME \A h \in Gateways : alone'[h]
        PROVE  \A h \in Gateways : main'[h] \notin {"cert", "proxy", "serving"}
    <3>1. \A h \in Gateways : h # g => ~ Alive(h)
      BY <2>0, <2>3 DEF AloneInv
    <3>2. main'[g] = "dead"
      BY <2>0 DEF Exit, ProcessTypeOK
    <3>. QED  BY <2>2, <3>1, <3>2 DEF Alive
  <2>4. CASE Missing \in {cert, key} /\ key' = Torn /\ UNCHANGED cert
    <3>1. cert' = Missing /\ key' # Missing
      BY <2>4, ProcessAssumption DEF CaInv
    <3>. QED  BY <2>3, <3>1 DEF CaInv, CaIsTrusted
  <2>5. CASE main[g] = "cert" /\ cert' = Torn /\ UNCHANGED key
    <3>1. cert' = Torn /\ key' # Missing
      BY <2>5 DEF CaInv
    <3>. QED  BY <2>3, <3>1 DEF CaInv, CaIsTrusted
  <2>. QED  BY <1>9, <2>1, <2>4, <2>5 DEF Die
<1>10. ASSUME NEW g \in Gateways, NEW s \in Services, BindPort(g, s) \/ Publish(g, s)
       PROVE  CaInv'
  BY <1>1, <1>10 DEF BindPort, Publish
<1>11. ASSUME NEW l \in Launchers, Probe(l) PROVE CaInv'
  BY <1>1, <1>11 DEF Probe
<1>12. CASE RemoveFiles \/ RecoverFile \/ UNCHANGED processVars
  BY <1>1, <1>12 DEF RemoveFiles, RecoverFile, processVars
<1>. QED  BY <1>2, <1>3, <1>4, <1>5, <1>6, <1>7, <1>8, <1>9, <1>10, <1>11, <1>12
          DEF ProcessNext, Run, Main

LEMMA ProcessNextInv == ProcessInv /\ [ProcessNext]_processVars => ProcessInv'
<1> SUFFICES ASSUME ProcessInv, [ProcessNext]_processVars PROVE ProcessInv'
  OBVIOUS
<1>1. ProcessTypeOK' /\ AloneInv' /\ TaskInv' /\ CaInv'
  BY ProcessNextTypes, AloneStep, TaskStep, CaStep DEF ProcessInv
<1>2. SoleGatewayIsReachable'
  <2>1. \A g \in Gateways : alone'[g] => (PortFilesAreRight(g))'
    BY PortFilesStep DEF ProcessInv, SoleGatewayIsReachable
  <2>2. (\A g \in Gateways : alone'[g]) => \A g \in Gateways : (CaIsTrusted(g))'
    BY <1>1 DEF CaInv
  <2>. QED  BY <2>1, <2>2 DEF SoleGatewayIsReachable
<1>. QED  BY <1>1, <1>2 DEF ProcessInv

\* However many processes there may be, in whatever order they are started and
\* wherever they are cut off, one that never met another is found through the
\* port files and signs with the CA on disk.
THEOREM SoleGateway == ProcessSpec => []SoleGatewayIsReachable
<1>1. ProcessSpec => []ProcessInv
  BY ProcessInitInv, ProcessNextInv, PTL DEF ProcessSpec
<1>2. ProcessInv => SoleGatewayIsReachable
  BY DEF ProcessInv
<1>. QED  BY <1>1, <1>2, PTL
=============================================================================
