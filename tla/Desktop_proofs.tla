---------------------------- MODULE Desktop_proofs ----------------------------
(***************************************************************************)
(* Proofs about Desktop, for any number of processes, requests, launchers  *)
(* and any sizes of the ring, the socket and a page: the processes under   *)
(* it go through the steps of GatewayProcess only, what the dashboard      *)
(* tails is a faithful part of what happened, and a drill-down that pages  *)
(* through the history while it grows and is wiped shows what it should.   *)
(***************************************************************************)
EXTENDS Desktop, GatewayProcess_proofs, Substitution_proofs

-----------------------------------------------------------------------------
(***************************************************************************)
(* The processes under the desktop                                         *)
(***************************************************************************)

\* Handlers, the bus, the forwarder and the page leave the processes alone; the
\* one that does not is get_stats_port, which may write the port file again.
LEMMA DesktopProcesses == [Next]_allVars => [ProcessNext]_processVars
<1> SUFFICES ASSUME [Next]_allVars PROVE [ProcessNext]_processVars
  OBVIOUS
<1>1. CASE Launch
  BY <1>1 DEF Launch, Process, ProcessNext
<1>2. CASE Process(Evict) \/ (bound.stop /\ Process(RemoveFiles))
  BY <1>2 DEF Process, ProcessNext
<1>3. CASE \E g \in Gateways : Process(Run(g)) \/ (g <= bound.deaths /\ Process(Die(g)))
  BY <1>3 DEF Process, ProcessNext
<1>4. ASSUME NEW r \in Requests, Handle(r) PROVE UNCHANGED processVars
  BY <1>4 DEF Handle, Begin, WriteAudit, Stamp, Store, Emit, Respond, Handled
<1>5. CASE Connect \/ Accept \/ Lag \/ Send \/ Forward \/ End
  BY <1>5 DEF Connect, Accept, Lag, Send, Forward, End, Fed
<1>6. CASE Poll \/ Browse \/ (clock < bound.ticks /\ Tick /\ UNCHANGED <<processVars, deskVars, bound>>)
  BY <1>6 DEF Poll, Browse
<1>7. CASE GetStatsPort
  BY <1>7 DEF GetStatsPort, ProcessNext
<1>8. CASE UNCHANGED allVars
  BY <1>8 DEF allVars
<1>. QED  BY <1>1, <1>2, <1>3, <1>4, <1>5, <1>6, <1>7, <1>8 DEF Next

\* The desktop runs processes as GatewayProcess says, so that what is proved
\* about them holds beside the menu bar and the page, too.
THEOREM DesktopRunsProcesses == DesktopSpec => ProcessSpec
<1>1. DesktopInit => ProcessInit
  BY DEF DesktopInit
<1>. QED  BY <1>1, DesktopProcesses, PTL DEF DesktopSpec, ProcessSpec

\* In the whole of the desktop, a gateway that never met another one is found
\* through the port files and signs with the CA on disk.
THEOREM SoleGatewayOnDesktop == DesktopSpec => []SoleGatewayIsReachable
  BY DesktopRunsProcesses, SoleGateway, PTL

-----------------------------------------------------------------------------
(***************************************************************************)
(* What the dashboard tails                                                *)
(***************************************************************************)

Fields == {"at", "gw", "kind", "ts", "audited", "stored", "event"}

\* A request is a record of its fields; until its event is emitted it has no
\* number, and what comes before the event in the handler has come before it.
RequestInv ==
  /\ DOMAIN request = Requests
  /\ \A r \in Requests :
       LET q == request[r] IN
       /\ DOMAIN q = Fields
       /\ q.at # "new" => q.gw \in Gateways
       /\ q.at \in {"new", "audit", "stamp", "store", "emit"} => q.event = 0
       /\ q.at \in {"stamp", "store"} => q.audited
       /\ q.at \notin {"new", "audit", "stamp", "store"} /\ q.kind # None => q.audited /\ q.stored

\* The bus holds events, and that of a redaction is the event of its request.
BusInv ==
  /\ bus \in [Gateways -> Seq([type : {"Request", "Response"}, redacted : BOOLEAN])]
  /\ \A g \in Gateways : \A i \in 1 .. Len(bus[g]) :
       bus[g][i].type = "Request" /\ bus[g][i].redacted =>
         \E r \in Requests :
           request[r].gw = g /\ request[r].event = i /\ request[r].kind # None

\* An event by its process and its number there.
Event == Gateways \X (Nat \ {0})

\* The receiver is behind what it has not read yet: an event that has left the
\* ring comes from a process that is gone or from before the receiver.
Passed(e) == \/ main[e[1]] = "dead"
             \/ feed.gw = e[1] /\ feed.next \in Nat /\ e[2] < feed.next

Ordered(s) == \A i, j \in DOMAIN s : i < j /\ s[i][1] = s[j][1] => s[i][2] < s[j][2]

FeedInv ==
  /\ feed \in [gw : Gateways \cup {Nothing}, next : Nat \cup {Nothing}]
  /\ feed.gw = Nothing => feed.next = Nothing
  /\ feed.gw # Nothing => main[feed.gw] # "off"
  /\ feed.next # Nothing => feed.next \in 1 .. Len(bus[feed.gw]) + 1
  /\ tail \in Seq(Event) /\ socket \in Seq(Event)
  /\ \A i \in DOMAIN tail : Passed(tail[i]) /\ tail[i][2] <= Len(bus[tail[i][1]])
  /\ \A i \in DOMAIN socket : Passed(socket[i]) /\ socket[i][2] <= Len(bus[socket[i][1]])

OrderInv ==
  /\ Ordered(tail) /\ Ordered(socket)
  /\ \A i \in DOMAIN tail, j \in DOMAIN socket :
       tail[i][1] = socket[j][1] => tail[i][2] < socket[j][2]

\* Only redactions are handed on.
TailInv ==
  \A i \in DOMAIN tail :
    bus[tail[i][1]][tail[i][2]].type = "Request" /\ bus[tail[i][1]][tail[i][2]].redacted

DesktopInv == RequestInv /\ BusInv /\ FeedInv /\ OrderInv /\ TailInv

LEMMA DesktopInitInv == DesktopInit => DesktopInv
<1> SUFFICES ASSUME DesktopInit PROVE DesktopInv
  OBVIOUS
<1>1. RequestInv
  BY DEF DesktopInit, RequestInv, Idle, Fields
<1>2. bus = [g \in Gateways |-> <<>>] /\ tail = <<>> /\ socket = <<>> /\ feed = Down
  BY DEF DesktopInit
<1>3. BusInv
  BY <1>2 DEF BusInv
<1>4. FeedInv /\ OrderInv /\ TailInv
  BY <1>2 DEF FeedInv, OrderInv, TailInv, Ordered, Down
<1>. QED  BY <1>1, <1>3, <1>4 DEF DesktopInv

\* A process that has been started stays started, and one that is dead stays so.
LEMMA StagesStep ==
  ASSUME ProcessTypeOK, [ProcessNext]_processVars, NEW g \in Gateways
  PROVE  /\ main[g] = "dead" => main'[g] = "dead"
         /\ main'[g] = "off" => main[g] = "off"
<1> DEFINE Goal == (main[g] = "dead" => main'[g] = "dead") /\ (main'[g] = "off" => main[g] = "off")
<1>1. ASSUME NEW h \in Gateways, Exit(h) PROVE Goal
  BY <1>1 DEF Exit, ProcessTypeOK
<1>2. CASE UNCHANGED main
  BY <1>2
<1>3. ASSUME NEW l \in Launchers, Probe(l) \/ Spawn(l) PROVE Goal
  BY <1>3 DEF Probe, Spawn, ProcessTypeOK
<1>4. CASE Evict
  BY <1>1, <1>2, <1>4 DEF Evict, Serving
<1>5. ASSUME NEW h \in Gateways, Main(h) PROVE Goal
  <2>1. CASE Boot(h)
    BY <2>1 DEF Boot, ProcessTypeOK
  <2>2. CASE LoadCa(h)
    BY <1>1, <2>2 DEF LoadCa, ProcessTypeOK
  <2>3. CASE GenerateCa(h)
    BY <2>3 DEF GenerateCa, ProcessTypeOK
  <2>4. CASE WriteCert(h)
    BY <2>4 DEF WriteCert, ProcessTypeOK
  <2>5. CASE BindProxy(h)
    BY <1>1, <2>5 DEF BindProxy, ProcessTypeOK
  <2>. QED  BY <1>5, <2>1, <2>2, <2>3, <2>4, <2>5 DEF Main
<1>6. ASSUME NEW h \in Gateways, Die(h) PROVE Goal
  BY <1>1, <1>6 DEF Die
<1>7. \/ UNCHANGED main \/ Evict
      \/ \E l \in Launchers : Probe(l) \/ Spawn(l)
      \/ \E h \in Gateways : Main(h) \/ Die(h)
  BY DEF ProcessNext, Run, BindPort, Publish, RemoveFiles, RecoverFile, processVars
<1>. QED  BY <1>2, <1>3, <1>4, <1>5, <1>6, <1>7

-----------------------------------------------------------------------------
(***************************************************************************)
(* Steps of the processes, the page and the tray                           *)
(***************************************************************************)

LEMMA OutsideStep ==
  ASSUME ProcessTypeOK, DesktopInv, [ProcessNext]_processVars,
         UNCHANGED <<request, bus, feed, socket, tail>>
  PROVE  DesktopInv'
<1>1. RequestInv' /\ BusInv' /\ OrderInv' /\ TailInv'
  BY DEF DesktopInv, RequestInv, BusInv, OrderInv, Ordered, TailInv
<1>2. FeedInv'
  <2>1. feed.gw # Nothing => main'[feed.gw] # "off"
    BY StagesStep DEF DesktopInv, FeedInv
  <2>2. ASSUME NEW e \in Event, Passed(e) PROVE (Passed(e))'
    BY <2>2, StagesStep DEF Passed, Event
  <2>3. \A i \in DOMAIN tail : tail[i] \in Event
    BY DEF DesktopInv, FeedInv
  <2>4. \A i \in DOMAIN socket : socket[i] \in Event
    BY DEF DesktopInv, FeedInv
  <2>5. \A i \in DOMAIN tail : (Passed(tail[i]))'
    BY <2>2, <2>3 DEF DesktopInv, FeedInv, Passed
  <2>6. \A i \in DOMAIN socket : (Passed(socket[i]))'
    BY <2>2, <2>4 DEF DesktopInv, FeedInv, Passed
  <2>. QED  BY <2>1, <2>5, <2>6 DEF DesktopInv, FeedInv
<1>. QED  BY <1>1, <1>2 DEF DesktopInv

-----------------------------------------------------------------------------
(***************************************************************************)
(* Steps of the handlers                                                   *)
(***************************************************************************)

\* A handler's step that emits nothing.
LEMMA QuietStep ==
  ASSUME DesktopInv, RequestInv', UNCHANGED <<main, bus, feed, socket, tail>>,
         \A r \in Requests : request[r].event # 0 => request'[r] = request[r]
  PROVE  DesktopInv'
<1>1. BusInv'
  <2> SUFFICES ASSUME NEW g \in Gateways, NEW i \in 1 .. Len(bus[g]),
                      bus[g][i].type = "Request", bus[g][i].redacted
               PROVE  \E r \in Requests : /\ request'[r].gw = g /\ request'[r].event = i
                                          /\ request'[r].kind # None
    BY DEF DesktopInv, BusInv
  <2>1. PICK r \in Requests : request[r].gw = g /\ request[r].event = i /\ request[r].kind # None
    BY DEF DesktopInv, BusInv
  <2>. QED  BY <2>1
<1>2. FeedInv' /\ OrderInv' /\ TailInv'
  BY DEF DesktopInv, FeedInv, OrderInv, Ordered, TailInv, Passed
<1>. QED  BY <1>1, <1>2 DEF DesktopInv

\* An event that is appended to the bus moves none of the others.
LEMMA EmitStep ==
  ASSUME ProcessTypeOK, DesktopInv, RequestInv', UNCHANGED <<main, feed, socket, tail>>,
         NEW g \in Gateways,
         NEW e \in [type : {"Request", "Response"}, redacted : BOOLEAN],
         bus' = [bus EXCEPT ![g] = Append(@, e)],
         \A r \in Requests : request[r].event # 0 =>
            /\ request'[r].gw = request[r].gw /\ request'[r].event = request[r].event
            /\ request'[r].kind = request[r].kind,
         e.type = "Request" /\ e.redacted =>
            \E r \in Requests : /\ request'[r].gw = g /\ request'[r].event = Len(bus[g]) + 1
                                /\ request'[r].kind # None
  PROVE  DesktopInv'
<1>1. /\ bus \in [Gateways -> Seq([type : {"Request", "Response"}, redacted : BOOLEAN])]
      /\ bus' \in [Gateways -> Seq([type : {"Request", "Response"}, redacted : BOOLEAN])]
  BY DEF DesktopInv, BusInv
<1>2. \A h \in Gateways : Len(bus[h]) \in Nat /\ Len(bus'[h]) \in Nat /\ Len(bus[h]) <= Len(bus'[h])
  BY <1>1
<1>3. \A h \in Gateways : \A i \in 1 .. Len(bus[h]) : bus'[h][i] = bus[h][i]
  BY <1>1
<1>4. Len(bus'[g]) = Len(bus[g]) + 1 /\ bus'[g][Len(bus[g]) + 1] = e
      /\ \A h \in Gateways \ {g} : bus'[h] = bus[h]
  BY <1>1
<1>5. BusInv'
  <2> SUFFICES ASSUME NEW h \in Gateways, NEW i \in 1 .. Len(bus'[h]),
                      bus'[h][i].type = "Request", bus'[h][i].redacted
               PROVE  \E r \in Requests : /\ request'[r].gw = h /\ request'[r].event = i
                                          /\ request'[r].kind # None
    BY <1>1 DEF BusInv
  <2>1. CASE i \in 1 .. Len(bus[h])
    <3>1. bus[h][i].type = "Request" /\ bus[h][i].redacted
      BY <1>3, <2>1
    <3>2. PICK r \in Requests : request[r].gw = h /\ request[r].event = i /\ request[r].kind # None
      BY <2>1, <3>1 DEF DesktopInv, BusInv
    <3>. QED  BY <2>1, <3>2
  <2>2. CASE i \notin 1 .. Len(bus[h])
    <3>1. h = g
      BY <1>4, <2>2
    <3>2. i = Len(bus[g]) + 1
      BY <1>2, <1>4, <2>2, <3>1
    <3>. QED  BY <1>4, <3>1, <3>2
  <2>. QED  BY <2>1, <2>2
<1>6. \A x \in Event :
         x[2] <= Len(bus[x[1]]) =>
            x[2] <= Len(bus'[x[1]]) /\ bus'[x[1]][x[2]] = bus[x[1]][x[2]]
  <2> SUFFICES ASSUME NEW x \in Event, x[2] <= Len(bus[x[1]])
               PROVE  x[2] <= Len(bus'[x[1]]) /\ bus'[x[1]][x[2]] = bus[x[1]][x[2]]
    OBVIOUS
  <2>1. x[1] \in Gateways /\ x[2] \in Nat \ {0}
    BY DEF Event
  <2>2. x[2] \in 1 .. Len(bus[x[1]])
    BY <1>2, <2>1
  <2>. QED  BY <1>2, <1>3, <2>1, <2>2
<1>7. FeedInv'
  <2>1. feed.next # Nothing => feed.next \in 1 .. Len(bus'[feed.gw]) + 1
    <3> SUFFICES ASSUME feed.next # Nothing PROVE feed.next \in 1 .. Len(bus'[feed.gw]) + 1
      OBVIOUS
    <3>1. feed.gw \in Gateways /\ feed.next \in 1 .. Len(bus[feed.gw]) + 1
      BY DEF DesktopInv, FeedInv
    <3>. QED  BY <1>2, <3>1
  <2>2. \A i \in DOMAIN tail : tail[i][2] <= Len(bus'[tail[i][1]])
    BY <1>6 DEF DesktopInv, FeedInv
  <2>3. \A i \in DOMAIN socket : socket[i][2] <= Len(bus'[socket[i][1]])
    BY <1>6 DEF DesktopInv, FeedInv
  <2>. QED  BY <2>1, <2>2, <2>3 DEF DesktopInv, FeedInv, Passed
<1>8. OrderInv'
  BY DEF DesktopInv, OrderInv, Ordered
<1>9. TailInv'
  <2>1. \A i \in DOMAIN tail : tail[i] \in Event /\ tail[i][2] <= Len(bus[tail[i][1]])
    BY DEF DesktopInv, FeedInv
  <2> SUFFICES ASSUME NEW i \in DOMAIN tail, NEW x, x = tail[i]
               PROVE  bus'[x[1]][x[2]].type = "Request" /\ bus'[x[1]][x[2]].redacted
    BY DEF TailInv
  <2>2. bus'[x[1]][x[2]] = bus[x[1]][x[2]]
    BY <1>6, <2>1
  <2>3. bus[x[1]][x[2]].type = "Request" /\ bus[x[1]][x[2]].redacted
    BY DEF DesktopInv, TailInv
  <2>. QED  BY <2>2, <2>3
<1>. QED  BY <1>5, <1>7, <1>8, <1>9 DEF DesktopInv

\* A handler's step leaves the other requests alone.
LEMMA RequestStep ==
  ASSUME RequestInv, NEW r \in Requests,
         DOMAIN request' = Requests,
         \A p \in Requests \ {r} : request'[p] = request[p],
         DOMAIN request'[r] = Fields,
         request'[r].at # "new" => request'[r].gw \in Gateways,
         request'[r].at \in {"new", "audit", "stamp", "store", "emit"} => request'[r].event = 0,
         request'[r].at \in {"stamp", "store"} => request'[r].audited,
         request'[r].at \notin {"new", "audit", "stamp", "store"} /\ request'[r].kind # None =>
            request'[r].audited /\ request'[r].stored
  PROVE  RequestInv'
BY DEF RequestInv

LEMMA HandlerStep ==
  ASSUME ProcessTypeOK, DesktopInv, NEW r \in Requests, Handle(r)
  PROVE  DesktopInv'
<1> DEFINE q == request[r]
<1>0. /\ UNCHANGED <<main, feed, socket, tail>>
      /\ RequestInv
      /\ DOMAIN request = Requests /\ DOMAIN q = Fields
  BY DEF Handle, Begin, WriteAudit, Stamp, Store, Emit, Respond, Handled, processVars,
         DesktopInv, RequestInv
<1>1. CASE Begin(r)
  <2>1. PICK g \in Gateways, kind \in bound.kinds :
           /\ request' = [request EXCEPT ![r].gw = g, ![r].kind = kind,
                              ![r].at = IF kind = None THEN "emit" ELSE "audit"]
           /\ UNCHANGED bus /\ q.at = "new"
    BY <1>1 DEF Begin, Serving
  <2>2. /\ DOMAIN request' = Requests /\ DOMAIN request'[r] = Fields
        /\ \A p \in Requests \ {r} : request'[p] = request[p]
        /\ request'[r].at = IF kind = None THEN "emit" ELSE "audit"
        /\ request'[r].gw = g
        /\ request'[r].kind = kind
        /\ request'[r].event = q.event
    BY <1>0, <2>1 DEF Fields
  <2>3. q.event = 0
    BY <2>1 DEF DesktopInv, RequestInv
  <2>4. RequestInv'
    BY <1>0, <2>2, <2>3, RequestStep
  <2>. QED  BY <1>0, <2>1, <2>2, <2>3, <2>4, QuietStep
<1>2. CASE WriteAudit(r)
  <2>1. /\ request' = [request EXCEPT ![r].at = "stamp", ![r].audited = TRUE]
        /\ UNCHANGED bus /\ q.at = "audit"
    BY <1>2 DEF WriteAudit, At
  <2>2. /\ DOMAIN request' = Requests /\ DOMAIN request'[r] = Fields
        /\ \A p \in Requests \ {r} : request'[p] = request[p]
        /\ request'[r].at = "stamp"
        /\ request'[r].audited = TRUE
        /\ request'[r].gw = q.gw
        /\ request'[r].kind = q.kind
        /\ request'[r].event = q.event
    BY <1>0, <2>1 DEF Fields
  <2>3. q.event = 0 /\ q.gw \in Gateways
    BY <2>1 DEF DesktopInv, RequestInv
  <2>4. RequestInv'
    BY <1>0, <2>2, <2>3, RequestStep
  <2>. QED  BY <1>0, <2>1, <2>2, <2>3, <2>4, QuietStep
<1>3. CASE Stamp(r)
  <2>1. /\ request' = [request EXCEPT ![r].at = "store", ![r].ts = clock]
        /\ UNCHANGED bus /\ q.at = "stamp"
    BY <1>3 DEF Stamp, At
  <2>2. /\ DOMAIN request' = Requests /\ DOMAIN request'[r] = Fields
        /\ \A p \in Requests \ {r} : request'[p] = request[p]
        /\ request'[r].at = "store"
        /\ request'[r].gw = q.gw
        /\ request'[r].kind = q.kind
        /\ request'[r].audited = q.audited
        /\ request'[r].event = q.event
    BY <1>0, <2>1 DEF Fields
  <2>3. q.event = 0 /\ q.gw \in Gateways /\ q.audited
    BY <2>1 DEF DesktopInv, RequestInv
  <2>4. RequestInv'
    BY <1>0, <2>2, <2>3, RequestStep
  <2>. QED  BY <1>0, <2>1, <2>2, <2>3, <2>4, QuietStep
<1>4. CASE Store(r)
  <2>1. /\ request' = [request EXCEPT ![r].at = "emit", ![r].stored = TRUE]
        /\ UNCHANGED bus /\ q.at = "store"
    BY <1>4 DEF Store, At
  <2>2. /\ DOMAIN request' = Requests /\ DOMAIN request'[r] = Fields
        /\ \A p \in Requests \ {r} : request'[p] = request[p]
        /\ request'[r].at = "emit"
        /\ request'[r].stored = TRUE
        /\ request'[r].gw = q.gw
        /\ request'[r].kind = q.kind
        /\ request'[r].audited = q.audited
        /\ request'[r].event = q.event
    BY <1>0, <2>1 DEF Fields
  <2>3. q.event = 0 /\ q.gw \in Gateways /\ q.audited
    BY <2>1 DEF DesktopInv, RequestInv
  <2>4. RequestInv'
    BY <1>0, <2>2, <2>3, RequestStep
  <2>. QED  BY <1>0, <2>1, <2>2, <2>3, <2>4, QuietStep
<1>5. CASE Emit(r)
  <2> DEFINE e == [type |-> "Request", redacted |-> q.kind # None]
  <2>1. /\ request' = [request EXCEPT ![r].at = "sent", ![r].event = Len(bus[q.gw]) + 1]
        /\ bus' = [bus EXCEPT ![q.gw] = Append(@, e)] /\ q.at = "emit"
    BY <1>5 DEF Emit, At
  <2>2. /\ DOMAIN request' = Requests /\ DOMAIN request'[r] = Fields
        /\ \A p \in Requests \ {r} : request'[p] = request[p]
        /\ request'[r].at = "sent"
        /\ request'[r].gw = q.gw
        /\ request'[r].kind = q.kind
        /\ request'[r].audited = q.audited
        /\ request'[r].stored = q.stored
        /\ request'[r].event = Len(bus[q.gw]) + 1
    BY <1>0, <2>1 DEF Fields
  <2>3. q.event = 0 /\ q.gw \in Gateways /\ (q.kind # None => q.audited /\ q.stored)
    BY <2>1 DEF DesktopInv, RequestInv
  <2>4. RequestInv'
    BY <1>0, <2>2, <2>3, RequestStep
  <2>5. e \in [type : {"Request", "Response"}, redacted : BOOLEAN]
    OBVIOUS
  <2>6. e.redacted => request'[r].gw = q.gw /\ request'[r].event = Len(bus[q.gw]) + 1
                         /\ request'[r].kind # None
    BY <2>2
  <2>7. \A p \in Requests : request[p].event # 0 =>
           /\ request'[p].gw = request[p].gw /\ request'[p].event = request[p].event
           /\ request'[p].kind = request[p].kind
    BY <2>2, <2>3
  <2> HIDE DEF e
  <2>. QED  BY <1>0, <2>1, <2>2, <2>3, <2>4, <2>5, <2>6, <2>7, EmitStep
<1>6. CASE Respond(r)
  <2> DEFINE e == [type |-> "Response", redacted |-> FALSE]
  <2>1. /\ request' = [request EXCEPT ![r].at = "answered"]
        /\ bus' = [bus EXCEPT ![q.gw] = Append(@, e)] /\ q.at = "sent"
    BY <1>6 DEF Respond, At
  <2>2. /\ DOMAIN request' = Requests /\ DOMAIN request'[r] = Fields
        /\ \A p \in Requests \ {r} : request'[p] = request[p]
        /\ request'[r].at = "answered"
        /\ request'[r].gw = q.gw
        /\ request'[r].kind = q.kind
        /\ request'[r].audited = q.audited
        /\ request'[r].stored = q.stored
        /\ request'[r].event = q.event
    BY <1>0, <2>1 DEF Fields
  <2>3. q.gw \in Gateways /\ (q.kind # None => q.audited /\ q.stored)
    BY <2>1 DEF DesktopInv, RequestInv
  <2>4. RequestInv'
    BY <1>0, <2>2, <2>3, RequestStep
  <2>5. e \in [type : {"Request", "Response"}, redacted : BOOLEAN]
    OBVIOUS
  <2>6. e.type # "Request"
    OBVIOUS
  <2>7. \A p \in Requests : request[p].event # 0 =>
           /\ request'[p].gw = request[p].gw /\ request'[p].event = request[p].event
           /\ request'[p].kind = request[p].kind
    BY <2>2, <2>3
  <2> HIDE DEF e
  <2>. QED  BY <1>0, <2>1, <2>2, <2>3, <2>4, <2>5, <2>6, <2>7, EmitStep
<1>. QED  BY <1>1, <1>2, <1>3, <1>4, <1>5, <1>6 DEF Handle

-----------------------------------------------------------------------------
(***************************************************************************)
(* Steps of the bus and the forwarder                                      *)
(***************************************************************************)

\* The receiver moves on, or connects, and nothing is written or read.
LEMMA MoveStep ==
  ASSUME DesktopInv, UNCHANGED <<main, request, bus, socket, tail>>,
         feed' \in [gw : Gateways \cup {Nothing}, next : Nat \cup {Nothing}],
         feed'.gw = Nothing => feed'.next = Nothing,
         feed'.gw # Nothing => main[feed'.gw] # "off",
         feed'.next # Nothing => feed'.next \in 1 .. Len(bus[feed'.gw]) + 1,
         \A e \in Event : Passed(e) => (Passed(e))'
  PROVE  DesktopInv'
<1>1. RequestInv' /\ BusInv' /\ OrderInv' /\ TailInv'
  BY DEF DesktopInv, RequestInv, BusInv, OrderInv, Ordered, TailInv
<1>2. FeedInv'
  <2>1. /\ tail \in Seq(Event) /\ socket \in Seq(Event)
        /\ \A i \in DOMAIN tail : Passed(tail[i])
        /\ \A i \in DOMAIN socket : Passed(socket[i])
    BY DEF DesktopInv, FeedInv
  <2>2. \A i \in DOMAIN tail : (Passed(tail[i]))'
    <3> SUFFICES ASSUME NEW i \in DOMAIN tail PROVE (Passed(tail[i]))'
      BY DEF Passed
    <3>1. tail[i] \in Event /\ tail'[i] = tail[i]
      BY <2>1
    <3>. QED  BY <2>1, <3>1 DEF Passed
  <2>3. \A i \in DOMAIN socket : (Passed(socket[i]))'
    <3> SUFFICES ASSUME NEW i \in DOMAIN socket PROVE (Passed(socket[i]))'
      BY DEF Passed
    <3>1. socket[i] \in Event /\ socket'[i] = socket[i]
      BY <2>1
    <3>. QED  BY <2>1, <3>1 DEF Passed
  <2>. QED  BY <2>2, <2>3 DEF DesktopInv, FeedInv
<1>. QED  BY <1>1, <1>2 DEF DesktopInv

LEMMA ConnectionStep ==
  ASSUME ProcessTypeOK, TaskInv, DesktopInv, Connect \/ Accept \/ Lag \/ End
  PROVE  DesktopInv'
<1>0. /\ UNCHANGED <<main, request, bus, socket, tail>>
      /\ feed \in [gw : Gateways \cup {Nothing}, next : Nat \cup {Nothing}]
      /\ bus \in [Gateways -> Seq([type : {"Request", "Response"}, redacted : BOOLEAN])]
  BY DEF Connect, Accept, Lag, End, Fed, processVars, DesktopInv, FeedInv, BusInv
<1>1. CASE Connect
  <2>1. PICK g \in Gateways :
           /\ feed' = [gw |-> g, next |-> Nothing]
           /\ port["events"][g] = file["events"] /\ file["events"] # Nothing
           /\ feed = Down
    BY <1>1 DEF Connect, Holder
  <2>2. Alive(g)
    BY <2>1 DEF TaskInv, Services
  <2>3. g # Nothing
    BY ProcessAssumption
  <2>4. ASSUME NEW e \in Event, Passed(e) PROVE (Passed(e))'
    <3>1. e[1] # Nothing
      BY ProcessAssumption DEF Event
    <3>. QED  BY <1>0, <2>1, <2>4, <3>1 DEF Passed, Down
  <2>. QED  BY <1>0, <2>1, <2>2, <2>3, <2>4, MoveStep DEF Alive
<1>2. CASE Accept
  <2>1. /\ feed # Down /\ feed.next = Nothing
        /\ feed' = [feed EXCEPT !.next = Len(bus[feed.gw]) + 1]
    BY <1>2 DEF Accept
  <2>2. feed.gw # Nothing
    BY <1>0, <2>1 DEF Down
  <2>3. Len(bus[feed.gw]) \in Nat
    BY <1>0, <2>2
  <2>4. feed' = [gw |-> feed.gw, next |-> Len(bus[feed.gw]) + 1]
    BY <1>0, <2>1
  <2>5. ASSUME NEW e \in Event, Passed(e) PROVE (Passed(e))'
    BY <1>0, <2>1, <2>5, ProcessAssumption DEF Passed
  <2>6. main[feed.gw] # "off"
    BY <2>2 DEF DesktopInv, FeedInv
  <2>. QED  BY <1>0, <2>2, <2>3, <2>4, <2>5, <2>6, MoveStep
<1>3. CASE Lag
  <2>1. /\ feed # Down /\ feed.next # Nothing /\ feed.next < Oldest(feed.gw)
        /\ feed' = [feed EXCEPT !.next = Oldest(feed.gw)]
    BY <1>3 DEF Lag, Receiving
  <2>2. feed.gw \in Gateways /\ feed.next \in Nat \ {0} /\ main[feed.gw] # "off"
    BY <1>0, <2>1 DEF DesktopInv, FeedInv
  <2>3. Oldest(feed.gw) \in 1 .. Len(bus[feed.gw]) + 1
    <3>1. Len(bus[feed.gw]) \in Nat
      BY <1>0, <2>2
    <3>. QED  BY <3>1, DesktopAssumption DEF Oldest
  <2>4. feed' = [gw |-> feed.gw, next |-> Oldest(feed.gw)]
    BY <1>0, <2>1
  <2>5. ASSUME NEW e \in Event, Passed(e) PROVE (Passed(e))'
    <3>1. e[2] \in Nat
      BY DEF Event
    <3>2. Oldest(feed.gw) \in Nat
      BY <1>0, <2>2, <2>3
    <3>3. e[2] < feed.next => e[2] < Oldest(feed.gw)
      BY <2>1, <2>2, <3>1, <3>2
    <3>. QED  BY <1>0, <2>4, <2>5, <3>2, <3>3 DEF Passed
  <2>6. Oldest(feed.gw) \in Nat
    BY <1>0, <2>2, <2>3
  <2>7. /\ feed' \in [gw : Gateways \cup {Nothing}, next : Nat \cup {Nothing}]
        /\ feed'.gw = feed.gw /\ feed'.next = Oldest(feed.gw)
    BY <2>2, <2>4, <2>6
  <2>8. feed.gw # Nothing
    BY <2>2, ProcessAssumption
  <2>. QED  BY <1>0, <2>2, <2>3, <2>5, <2>7, <2>8, MoveStep
<1>4. CASE End
  <2>1. feed # Down /\ ~ Alive(feed.gw) /\ feed' = Down
    BY <1>4 DEF End
  <2>2. feed.gw = Nothing \/ main[feed.gw] = "dead"
    BY <2>1 DEF Alive, DesktopInv, FeedInv
  <2>3. ASSUME NEW e \in Event, Passed(e) PROVE (Passed(e))'
    <3>1. e[1] # Nothing
      BY ProcessAssumption DEF Event
    <3>2. main[e[1]] = "dead"
      BY <2>2, <2>3, <3>1 DEF Passed
    <3>. QED  BY <1>0, <3>2 DEF Passed
  <2>. QED  BY <1>0, <2>1, <2>3, MoveStep DEF Down
<1>. QED  BY <1>1, <1>2, <1>3, <1>4

\* What is appended comes after everything that was there from the same process.
LEMMA OrderedAppend ==
  ASSUME NEW s \in Seq(Event), Ordered(s), NEW e \in Event,
         \A i \in DOMAIN s : s[i][1] = e[1] => s[i][2] < e[2]
  PROVE  Ordered(Append(s, e))
<1> DEFINE t == Append(s, e)
<1>1. /\ DOMAIN t = 1 .. Len(s) + 1 /\ DOMAIN s = 1 .. Len(s) /\ Len(s) \in Nat
      /\ \A i \in DOMAIN s : t[i] = s[i]
      /\ t[Len(s) + 1] = e
  OBVIOUS
<1> HIDE DEF t
<1>2. ASSUME NEW i \in DOMAIN t, NEW j \in DOMAIN t, i < j, t[i][1] = t[j][1]
      PROVE  t[i][2] < t[j][2]
  <2>1. i \in DOMAIN s
    BY <1>1, <1>2
  <2>2. j \in DOMAIN s \/ j = Len(s) + 1
    BY <1>1
  <2>. QED  BY <1>1, <1>2, <2>1, <2>2 DEF Ordered
<1>3. Ordered(t)
  BY <1>2 DEF Ordered
<1>. QED  BY <1>3 DEF t

LEMMA SendStep ==
  ASSUME ProcessTypeOK, DesktopInv, Send
  PROVE  DesktopInv'
<1>0. /\ UNCHANGED <<main, request, bus, tail>>
      /\ socket' = Append(socket, <<feed.gw, feed.next>>)
      /\ feed' = [feed EXCEPT !.next = @ + 1]
      /\ feed # Down /\ feed.next # Nothing /\ Alive(feed.gw)
      /\ feed.next <= Len(bus[feed.gw])
  BY DEF Send, Receiving, Fed, processVars
<1>1. /\ feed \in [gw : Gateways \cup {Nothing}, next : Nat \cup {Nothing}]
      /\ feed.gw \in Gateways /\ feed.next \in Nat \ {0} /\ main[feed.gw] # "off"
  BY <1>0 DEF DesktopInv, FeedInv
<1>2. feed'.gw = feed.gw /\ feed'.next = feed.next + 1
      /\ feed' \in [gw : Gateways \cup {Nothing}, next : Nat \cup {Nothing}]
  BY <1>0, <1>1
<1>3. PICK e \in Event : e = <<feed.gw, feed.next>> /\ e[1] = feed.gw /\ e[2] = feed.next
  <2>1. <<feed.gw, feed.next>> \in Event
    BY <1>1 DEF Event
  <2>. QED  BY <2>1
<1>4. /\ tail \in Seq(Event) /\ socket \in Seq(Event)
      /\ \A i \in DOMAIN tail : Passed(tail[i]) /\ tail[i][2] <= Len(bus[tail[i][1]])
      /\ \A i \in DOMAIN socket : Passed(socket[i]) /\ socket[i][2] <= Len(bus[socket[i][1]])
  BY DEF DesktopInv, FeedInv
<1>5. ASSUME NEW x \in Event, Passed(x) PROVE (x[1] = e[1] => x[2] < e[2]) /\ (Passed(x))'
  <2>1. x[2] \in Nat
    BY DEF Event
  <2>2. x[2] < feed.next => x[2] < feed.next + 1
    BY <1>1, <2>1
  <2>3. x[1] = e[1] => main[x[1]] # "dead"
    BY <1>0, <1>3 DEF Alive
  <2>4. x[1] = e[1] => x[2] < e[2]
    BY <1>3, <1>5, <2>3 DEF Passed
  <2>5. (Passed(x))'
    BY <1>0, <1>1, <1>2, <1>5, <2>2 DEF Passed
  <2>. QED  BY <2>4, <2>5
<1>6. (Passed(e))'
  BY <1>1, <1>2, <1>3 DEF Passed, Event
<1>7. /\ \A i \in DOMAIN tail : (tail[i][1] = e[1] => tail[i][2] < e[2])
      /\ \A i \in DOMAIN socket : (socket[i][1] = e[1] => socket[i][2] < e[2])
  BY <1>4, <1>5
<1>8. /\ socket' \in Seq(Event)
      /\ \A i \in DOMAIN socket' : (i \in DOMAIN socket /\ socket'[i] = socket[i]) \/ socket'[i] = e
  BY <1>0, <1>3, <1>4
<1>9. FeedInv'
  <2>1. \A i \in DOMAIN tail' : (Passed(tail[i]))'
    <3> SUFFICES ASSUME NEW i \in DOMAIN tail PROVE (Passed(tail[i]))'
      BY <1>0
    <3>1. tail[i] \in Event /\ Passed(tail[i]) /\ tail'[i] = tail[i]
      BY <1>0, <1>4
    <3>. QED  BY <1>5, <3>1 DEF Passed
  <2>2. \A i \in DOMAIN socket' : (Passed(socket[i]))' /\ socket'[i][2] <= Len(bus'[socket'[i][1]])
    <3> SUFFICES ASSUME NEW i \in DOMAIN socket'
                 PROVE  (Passed(socket[i]))' /\ socket'[i][2] <= Len(bus'[socket'[i][1]])
      OBVIOUS
    <3>1. CASE i \in DOMAIN socket /\ socket'[i] = socket[i]
      <4>1. socket[i] \in Event /\ Passed(socket[i]) /\ socket[i][2] <= Len(bus[socket[i][1]])
        BY <1>4, <3>1
      <4>. QED  BY <1>0, <1>5, <3>1, <4>1 DEF Passed
    <3>2. CASE socket'[i] = e
      BY <1>0, <1>3, <1>6, <3>2 DEF Passed
    <3>. QED  BY <1>8, <3>1, <3>2
  <2>3. feed'.next \in 1 .. Len(bus'[feed'.gw]) + 1
    <3>1. Len(bus[feed.gw]) \in Nat
      BY <1>1 DEF DesktopInv, BusInv
    <3>. QED  BY <1>0, <1>1, <1>2, <3>1
  <2>4. feed'.gw # Nothing /\ main'[feed'.gw] # "off"
    BY <1>0, <1>1, <1>2, ProcessAssumption
  <2>. QED  BY <1>0, <1>2, <1>4, <1>8, <2>1, <2>2, <2>3, <2>4 DEF FeedInv
<1>10. OrderInv'
  <2>1. Ordered(socket')
    BY <1>0, <1>3, <1>4, <1>7, OrderedAppend DEF DesktopInv, OrderInv
  <2>2. \A i \in DOMAIN tail, j \in DOMAIN socket' :
           tail[i][1] = socket'[j][1] => tail[i][2] < socket'[j][2]
    BY <1>7, <1>8 DEF DesktopInv, OrderInv
  <2>. QED  BY <1>0, <2>1, <2>2 DEF DesktopInv, OrderInv, Ordered
<1>11. RequestInv' /\ BusInv' /\ TailInv'
  BY <1>0 DEF DesktopInv, RequestInv, BusInv, TailInv
<1>. QED  BY <1>9, <1>10, <1>11 DEF DesktopInv

\* Reading takes the head of the socket, which comes after all of the tail and
\* before the rest of the socket.
LEMMA ForwardStep ==
  ASSUME ProcessTypeOK, DesktopInv, Forward
  PROVE  DesktopInv'
<1>0. /\ UNCHANGED <<main, request, bus, feed>>
      /\ socket # <<>> /\ socket' = Tail(socket)
  BY DEF Forward, Fed, processVars
<1>1. /\ tail \in Seq(Event) /\ socket \in Seq(Event)
      /\ \A i \in DOMAIN tail : Passed(tail[i]) /\ tail[i][2] <= Len(bus[tail[i][1]])
      /\ \A i \in DOMAIN socket : Passed(socket[i]) /\ socket[i][2] <= Len(bus[socket[i][1]])
  BY DEF DesktopInv, FeedInv
<1>2. PICK e \in Event : e = socket[1]
  BY <1>0, <1>1
<1>3. /\ socket' \in Seq(Event)
      /\ \A i \in DOMAIN socket' : i + 1 \in DOMAIN socket /\ socket'[i] = socket[i + 1]
      /\ DOMAIN socket' \subseteq Nat \ {0} /\ 1 \in DOMAIN socket
  BY <1>0, <1>1
<1>4. \/ tail' = tail
      \/ /\ tail' = Append(tail, e)
         /\ bus[e[1]][e[2]].type = "Request" /\ bus[e[1]][e[2]].redacted
  BY <1>2 DEF Forward
<1>5. Passed(e) /\ e[2] <= Len(bus[e[1]])
  BY <1>1, <1>2, <1>3
<1>6. /\ tail' \in Seq(Event)
      /\ \A i \in DOMAIN tail' :
            \/ i \in DOMAIN tail /\ tail'[i] = tail[i]
            \/ /\ tail'[i] = e
               /\ bus[e[1]][e[2]].type = "Request" /\ bus[e[1]][e[2]].redacted
  <2>1. CASE tail' = tail
    BY <1>1, <2>1
  <2>2. CASE tail' = Append(tail, e)
    <3>1. /\ tail' \in Seq(Event)
          /\ \A i \in DOMAIN tail' : (i \in DOMAIN tail /\ tail'[i] = tail[i]) \/ tail'[i] = e
      BY <1>1, <2>2
    <3>2. CASE tail' # tail
      BY <1>4, <3>1, <3>2
    <3>. QED  BY <2>1, <3>2
  <2>. QED  BY <1>4, <2>1, <2>2
<1>7. /\ \A i \in DOMAIN tail : tail[i][1] = e[1] => tail[i][2] < e[2]
      /\ \A i \in DOMAIN socket' : e[1] = socket'[i][1] => e[2] < socket'[i][2]
  <2>1. \A i \in DOMAIN tail : tail[i][1] = e[1] => tail[i][2] < e[2]
    BY <1>2, <1>3 DEF DesktopInv, OrderInv
  <2>2. \A i \in DOMAIN socket' : e[1] = socket'[i][1] => e[2] < socket'[i][2]
    <3> SUFFICES ASSUME NEW i \in DOMAIN socket', e[1] = socket'[i][1]
                 PROVE  e[2] < socket'[i][2]
      OBVIOUS
    <3>1. i + 1 \in DOMAIN socket /\ 1 < i + 1 /\ socket'[i] = socket[i + 1]
      BY <1>3
    <3>. QED  BY <1>2, <1>3, <3>1 DEF DesktopInv, OrderInv, Ordered
  <2>. QED  BY <2>1, <2>2
<1>8. FeedInv'
  <2>1. \A i \in DOMAIN tail' : (Passed(tail[i]))' /\ tail'[i][2] <= Len(bus'[tail'[i][1]])
    BY <1>0, <1>1, <1>5, <1>6 DEF Passed
  <2>2. \A i \in DOMAIN socket' : (Passed(socket[i]))' /\ socket'[i][2] <= Len(bus'[socket'[i][1]])
    BY <1>0, <1>1, <1>3 DEF Passed
  <2>. QED  BY <1>0, <1>3, <1>6, <2>1, <2>2 DEF DesktopInv, FeedInv
<1>9. OrderInv'
  <2>1. Ordered(tail')
    <3>1. Ordered(tail)
      BY DEF DesktopInv, OrderInv
    <3>. QED  BY <1>1, <1>4, <1>7, <3>1, OrderedAppend
  <2>2. Ordered(socket')
    <3> SUFFICES ASSUME NEW i \in DOMAIN socket', NEW j \in DOMAIN socket',
                        i < j, socket'[i][1] = socket'[j][1]
                 PROVE  socket'[i][2] < socket'[j][2]
      BY DEF Ordered
    <3>1. /\ i + 1 \in DOMAIN socket /\ j + 1 \in DOMAIN socket /\ i + 1 < j + 1
          /\ socket'[i] = socket[i + 1] /\ socket'[j] = socket[j + 1]
      BY <1>3
    <3>. QED  BY <3>1 DEF DesktopInv, OrderInv, Ordered
  <2>3. \A i \in DOMAIN tail', j \in DOMAIN socket' :
           tail'[i][1] = socket'[j][1] => tail'[i][2] < socket'[j][2]
    <3> SUFFICES ASSUME NEW i \in DOMAIN tail', NEW j \in DOMAIN socket',
                        tail'[i][1] = socket'[j][1]
                 PROVE  tail'[i][2] < socket'[j][2]
      OBVIOUS
    <3>1. CASE i \in DOMAIN tail /\ tail'[i] = tail[i]
      BY <1>3, <3>1 DEF DesktopInv, OrderInv
    <3>2. CASE tail'[i] = e
      BY <1>7, <3>2
    <3>. QED  BY <1>6, <3>1, <3>2
  <2>. QED  BY <2>1, <2>2, <2>3 DEF OrderInv, Ordered
<1>10. TailInv'
  <2> SUFFICES ASSUME NEW i \in DOMAIN tail', NEW x, x = tail'[i]
               PROVE  bus[x[1]][x[2]].type = "Request" /\ bus[x[1]][x[2]].redacted
    BY <1>0 DEF TailInv
  <2>1. CASE i \in DOMAIN tail /\ tail'[i] = tail[i]
    BY <2>1 DEF DesktopInv, TailInv
  <2>. QED  BY <1>6, <2>1
<1>11. RequestInv' /\ BusInv'
  BY <1>0 DEF DesktopInv, RequestInv, BusInv
<1>. QED  BY <1>8, <1>9, <1>10, <1>11 DEF DesktopInv

-----------------------------------------------------------------------------
(***************************************************************************)
(* The theorem                                                             *)
(***************************************************************************)

LEMMA DesktopNextInv ==
  ASSUME ProcessTypeOK, TaskInv, DesktopInv, [Next]_allVars
  PROVE  DesktopInv'
<1>1. [ProcessNext]_processVars
  BY DesktopProcesses
<1>2. CASE UNCHANGED <<request, bus, feed, socket, tail>>
  BY <1>1, <1>2, OutsideStep
<1>3. CASE \E r \in Requests : Handle(r)
  BY <1>3, HandlerStep
<1>4. CASE Connect \/ Accept \/ Lag \/ End
  BY <1>4, ConnectionStep
<1>5. CASE Send \/ Forward
  BY <1>5, SendStep, ForwardStep
<1>6. CASE Launch \/ Process(Evict) \/ (bound.stop /\ Process(RemoveFiles))
  BY <1>2, <1>6 DEF Launch, Process, deskVars
<1>7. CASE \E g \in Gateways : Process(Run(g)) \/ (g <= bound.deaths /\ Process(Die(g)))
  BY <1>2, <1>7 DEF Process, deskVars
<1>8. CASE Poll \/ Browse \/ (clock < bound.ticks /\ Tick /\ UNCHANGED <<processVars, deskVars, bound>>)
  BY <1>2, <1>8 DEF Poll, Browse, deskVars
<1>9. CASE GetStatsPort
  BY <1>2, <1>9 DEF GetStatsPort
<1>10. CASE UNCHANGED allVars
  BY <1>2, <1>10 DEF allVars, deskVars
<1>. QED  BY <1>3, <1>4, <1>5, <1>6, <1>7, <1>8, <1>9, <1>10 DEF Next

\* A redaction on the bus is the event of a request whose handler has written
\* the audit lines and the history before it.
LEMMA LiveFeed == DesktopInv => LiveFeedIsFaithful
<1> SUFFICES ASSUME DesktopInv PROVE LiveFeedIsFaithful
  OBVIOUS
<1>1. \A i, j \in DOMAIN tail :
         i < j /\ tail[i][1] = tail[j][1] => tail[i][2] < tail[j][2]
  BY DEF DesktopInv, OrderInv, Ordered
<1>2. ASSUME NEW i \in DOMAIN tail
      PROVE  \E r \in Requests :
                /\ request[r].gw = tail[i][1] /\ request[r].event = tail[i][2]
                /\ request[r].audited /\ request[r].stored
  <2>1. PICK x \in Event : x = tail[i]
    BY DEF DesktopInv, FeedInv
  <2>2. x[1] \in Gateways /\ x[2] \in Nat \ {0} /\ x[2] <= Len(bus[x[1]])
    BY <2>1 DEF Event, DesktopInv, FeedInv
  <2>3. x[2] \in 1 .. Len(bus[x[1]])
    <3>1. Len(bus[x[1]]) \in Nat
      BY <2>2 DEF DesktopInv, BusInv
    <3>. QED  BY <2>2, <3>1
  <2>4. bus[x[1]][x[2]].type = "Request" /\ bus[x[1]][x[2]].redacted
    BY <2>1 DEF DesktopInv, TailInv
  <2>5. PICK r \in Requests :
           request[r].gw = x[1] /\ request[r].event = x[2] /\ request[r].kind # None
    BY <2>2, <2>3, <2>4 DEF DesktopInv, BusInv
  <2>6. request[r].at \notin {"new", "audit", "stamp", "store", "emit"}
    BY <2>2, <2>5 DEF DesktopInv, RequestInv
  <2>7. request[r].audited /\ request[r].stored
    BY <2>5, <2>6 DEF DesktopInv, RequestInv
  <2>. QED  BY <2>1, <2>5, <2>7
<1>. QED  BY <1>1, <1>2 DEF LiveFeedIsFaithful

\* However many requests, gateways, lags, ends of connections and restarts: what
\* the dashboard tails is in the order of each process, has no event twice, and
\* holds no redaction whose audit lines and history were not written first.
THEOREM LiveFeedOnDesktop == DesktopSpec => []LiveFeedIsFaithful
<1>1. DesktopInit => ProcessInv /\ DesktopInv
  BY ProcessInitInv, DesktopInitInv DEF DesktopInit
<1>2. ProcessInv /\ DesktopInv /\ [Next]_allVars => ProcessInv' /\ DesktopInv'
  <2> SUFFICES ASSUME ProcessInv, DesktopInv, [Next]_allVars PROVE ProcessInv' /\ DesktopInv'
    OBVIOUS
  <2>1. ProcessTypeOK /\ TaskInv
    BY DEF ProcessInv
  <2>. QED  BY <2>1, DesktopNextInv, DesktopProcesses, ProcessNextInv
<1>. QED  BY <1>1, <1>2, LiveFeed, PTL DEF DesktopSpec

-----------------------------------------------------------------------------
(***************************************************************************)
(* A finite table can be sorted                                            *)
(***************************************************************************)

\* Rows whose ids are below n and whose times are up to t, the rows there can
\* be at all, and the cursors.
RowBefore(n, t) == [id : 1 .. n - 1, ts : 0 .. t, category : Categories]
AnyRow == [id : Nat, ts : Nat, category : Categories]
Cursor == [ts : Nat, id : Nat]

\* The ids tell the rows of T apart.
Keyed(T) == \A q, r \in T : q.id = r.id => q = r

Descending(s) == \A i, j \in DOMAIN s : i < j => Newer(s[i], s[j])

LEMMA NewerIsOrder ==
  ASSUME NEW p, NEW q, NEW r, p.ts \in Nat, p.id \in Nat, q.ts \in Nat, q.id \in Nat,
         r.ts \in Nat, r.id \in Nat
  PROVE  /\ Newer(p, q) /\ Newer(q, r) => Newer(p, r)
         /\ Newer(p, q) \/ Newer(q, p) \/ (p.ts = q.ts /\ p.id = q.id)
  BY DEF Newer

LEMMA OldestRow ==
  ASSUME NEW T \in SUBSET AnyRow, Keyed(T), T # {}
  PROVE  \E m \in T : \A r \in T \ {m} : Newer(r, m)
<1> DEFINE Times == {r.ts : r \in T}
<1>1. Times \in SUBSET Nat /\ Times # {}
  BY DEF AnyRow
<1>2. PICK t \in Times : \A u \in Times : t <= u
  BY <1>1, LeastNumber
<1> DEFINE Ids == {r.id : r \in {q \in T : q.ts = t}}
<1>3. Ids \in SUBSET Nat /\ Ids # {}
  BY <1>2 DEF AnyRow
<1>4. PICK k \in Ids : \A l \in Ids : k <= l
  <2> HIDE DEF Ids
  <2>. QED  BY <1>3, LeastNumber
<1>5. PICK m \in T : m.ts = t /\ m.id = k
  BY <1>4
<1>6. ASSUME NEW r \in T \ {m}
      PROVE  Newer(r, m)
  <2>1. r \in AnyRow /\ m \in AnyRow /\ t <= r.ts /\ r.id # m.id
    BY <1>2, <1>5, <1>6 DEF Keyed
  <2>2. r.ts = t => k <= r.id
    BY <1>4, <1>6
  <2>. QED  BY <1>5, <2>1, <2>2 DEF Newer, AnyRow
<1>. QED  BY <1>5, <1>6

LEMMA SortedExists ==
  ASSUME NEW T \in SUBSET AnyRow, Keyed(T), IsFiniteSet(T)
  PROVE  \E s \in SetToSeqs(T) : Descending(s)
<1> DEFINE Sortable(S) == \E s \in SetToSeqs(S) : Descending(s)
           Fit(S, n) == S \in SUBSET AnyRow /\ Keyed(S) /\ IsFiniteSet(S) /\ Cardinality(S) = n
           Bad == {n \in Nat : ~ \A S : Fit(S, n) => Sortable(S)}
<1>1. SUFFICES ASSUME Bad # {}
               PROVE  FALSE
  <2>1. Cardinality(T) \in Nat /\ Fit(T, Cardinality(T))
    BY FS_CardinalityType
  <2> HIDE DEF Sortable, Fit
  <2>. QED  BY <2>1 DEF Sortable
<1>2. PICK n \in Bad : \A k \in Bad : n <= k
  <2>1. Bad \in SUBSET Nat
    OBVIOUS
  <2> HIDE DEF Bad
  <2>. QED  BY <1>1, <2>1, LeastNumber, Zenon
<1>3. n \in Nat /\ ~ \A S : Fit(S, n) => Sortable(S)
  OBVIOUS
<1>4. PICK S : Fit(S, n) /\ ~Sortable(S)
  <2> HIDE DEF Fit, Sortable
  <2>. QED  BY <1>3
<1>5. CASE n = 0
  <2>1. S = {}
    BY <1>4, <1>5, FS_EmptySet
  <2>2. << >> \in SetToSeqs({}) /\ Descending(<< >>)
    BY FS_EmptySet DEF SetToSeqs, Descending
  <2>. QED  BY <1>4, <2>1, <2>2
<1>6. CASE n # 0
  <2>1. S # {}
    BY <1>4, <1>6, FS_EmptySet
  <2>2. PICK m \in S : \A r \in S \ {m} : Newer(r, m)
    BY <1>4, <2>1, OldestRow
  <2> DEFINE R == S \ {m}
  <2>3. Fit(R, n - 1)
    BY <1>3, <1>4, FS_RemoveElement DEF Keyed
  <2>4. n - 1 \in Nat /\ n - 1 \notin Bad
    <3>1. n - 1 \in Nat /\ ~(n <= n - 1)
      BY <1>3, <1>6
    <3> HIDE DEF Bad
    <3>. QED  BY <1>2, <3>1
  <2>5. Sortable(R)
    <3> HIDE DEF Sortable, Fit, R
    <3>. QED  BY <2>3, <2>4 DEF Bad
  <2>6. PICK s \in SetToSeqs(R) : Descending(s)
    BY <2>5
  <2>7. /\ s \in [1 .. n - 1 -> R]
        /\ \A i, j \in 1 .. n - 1 : i # j => s[i] # s[j]
    <3>1. Cardinality(R) = n - 1
      BY <2>3
    <3> HIDE DEF R
    <3>. QED  BY <2>6, <3>1 DEF SetToSeqs
  <2> DEFINE s2 == [i \in 1 .. n |-> IF i = n THEN m ELSE s[i]]
  <2>8. /\ s2 \in [1 .. n -> S]
        /\ \A i, j \in 1 .. n : i # j => s2[i] # s2[j]
    BY <1>3, <2>7
  <2>9. s2 \in SetToSeqs(S)
    <3>1. Cardinality(S) = n
      BY <1>4
    <3> HIDE DEF s2
    <3>. QED  BY <2>8, <3>1 DEF SetToSeqs
  <2>10. Descending(s2)
    <3> SUFFICES ASSUME NEW i \in 1 .. n, NEW j \in 1 .. n, i < j
                 PROVE  Newer(s2[i], s2[j])
      BY DEF Descending
    <3>1. i \in 1 .. n - 1 /\ s2[i] = s[i]
      BY <1>3
    <3>2. CASE j = n
      BY <2>2, <2>7, <3>1, <3>2
    <3>3. CASE j # n
      <4>1. j \in 1 .. n - 1 /\ s2[j] = s[j]
        BY <1>3, <3>3
      <4>. QED  BY <2>6, <2>7, <3>1, <4>1 DEF Descending
    <3>. QED  BY <3>2, <3>3
  <2>. QED  BY <1>4, <2>9, <2>10
<1>. QED  BY <1>5, <1>6

LEMMA SortedIs ==
  ASSUME NEW T \in SUBSET AnyRow, Keyed(T), IsFiniteSet(T)
  PROVE  Sorted(T) \in Seq(T) /\ ToSet(Sorted(T)) = T /\ Descending(Sorted(T))
<1>1. Sorted(T) \in SetToSeqs(T) /\ Descending(Sorted(T))
  BY SortedExists, Zenon DEF Sorted, Descending
<1>. QED  BY <1>1, SequencesOfSet

LEMMA LesserOfTwo ==
  ASSUME NEW a \in Nat, NEW b \in Nat
  PROVE  Min({a, b}) = IF a <= b THEN a ELSE b
<1> DEFINE c == IF a <= b THEN a ELSE b
<1>1. c \in {a, b} /\ \A y \in {a, b} : c <= y
  OBVIOUS
<1>2. \A x \in {a, b} : (\A y \in {a, b} : x <= y) => x = c
  OBVIOUS
<1> HIDE DEF c
<1>3. Min({a, b}) = c
  BY <1>1, <1>2 DEF Min
<1>. QED  BY <1>3 DEF c

-----------------------------------------------------------------------------
(***************************************************************************)
(* What a query answers                                                    *)
(***************************************************************************)

\* Cursor c is where the list s stops.
EndsAt(s, c) == s # << >> /\ c = [ts |-> Last(s).ts, id |-> Last(s).id]

\* A row is among those of the list or comes after its cursor.
Reached(r, s, c) == r \in ToSet(s) \/ (c # None /\ Newer(c, r))

\* The page for a filter and a cursor: in order, of the rows that are asked for,
\* and none is left out before its own cursor.
PageIs(page, filter, cursor, table) ==
  /\ Descending(page.rows)
  /\ \A i \in DOMAIN page.rows :
       Matches(page.rows[i], filter) /\ Older(page.rows[i], cursor)
  /\ page.cursor # None => EndsAt(page.rows, page.cursor)
  /\ \A r \in table :
       Matches(r, filter) /\ Older(r, cursor) => Reached(r, page.rows, page.cursor)

LEMMA QueryIs ==
  ASSUME rows \subseteq AnyRow, Keyed(rows), IsFiniteSet(rows), NEW filter, NEW cursor
  PROVE  LET page == query_redactions(filter, cursor) IN
         /\ page \in [rows : Seq(rows), cursor : Cursor \cup {None}]
         /\ PageIs(page, filter, cursor, rows)
<1> DEFINE T     == {r \in rows : Matches(r, filter) /\ Older(r, cursor)}
           found == Sorted(T)
           n     == Len(found)
           k     == IF PageSize <= n THEN PageSize ELSE n
           shown == SubSeq(found, 1, k)
           next  == IF Len(shown) < PageSize THEN None
                    ELSE [ts |-> Last(shown).ts, id |-> Last(shown).id]
           page  == [rows |-> shown, cursor |-> next]
<1>1. T \in SUBSET AnyRow /\ T \subseteq rows /\ Keyed(T) /\ IsFiniteSet(T)
  BY FS_Subset DEF Keyed
<1>2. found \in Seq(T) /\ ToSet(found) = T /\ Descending(found)
  <2> HIDE DEF T
  <2>. QED  BY <1>1, SortedIs
<1>3. PageSize \in Nat /\ PageSize # 0 /\ n \in Nat
  BY <1>2, HistoryAssumption
<1>4. query_redactions(filter, cursor) = page
  <2>1. Min({PageSize, n}) = k
    BY <1>3, LesserOfTwo
  <2>. QED  BY <2>1, Zenon DEF query_redactions
<1> HIDE DEF found
<1>5. k \in 0 .. n /\ (n < PageSize => k = n) /\ (PageSize <= n => k = PageSize)
  BY <1>3
<1> HIDE DEF k
<1>6. /\ shown \in Seq(T) /\ Len(shown) = k /\ DOMAIN shown = 1 .. k
      /\ \A i \in 1 .. k : shown[i] = found[i]
  <2> HIDE DEF T
  <2>. QED  BY <1>2, <1>5
<1> HIDE DEF shown
<1>7. \A i \in 1 .. n : found[i] \in T
  BY <1>2
<1>8. Descending(shown)
  BY <1>2, <1>5, <1>6 DEF Descending
<1>9. \A i \in DOMAIN shown : Matches(shown[i], filter) /\ Older(shown[i], cursor)
  BY <1>5, <1>6, <1>7
<1>10. CASE PageSize <= n
  <2>1. k = PageSize /\ next = [ts |-> Last(shown).ts, id |-> Last(shown).id]
    BY <1>3, <1>5, <1>6, <1>10
  <2>2. shown # << >> /\ Last(shown) = found[k] /\ found[k] \in AnyRow /\ k \in 1 .. n
    BY <1>1, <1>3, <1>5, <1>6, <1>7, <2>1 DEF Last
  <2>3. next \in Cursor /\ EndsAt(shown, next) /\ next # None
    BY <2>1, <2>2, HistoryAssumption DEF Cursor, AnyRow, EndsAt
  <2> HIDE DEF next
  <2>4. next.ts = found[k].ts /\ next.id = found[k].id
    BY <2>2, <2>3 DEF EndsAt
  <2>5. ASSUME NEW r \in T
        PROVE  Reached(r, shown, next)
    <3>1. PICK i \in 1 .. n : found[i] = r
      BY <1>2 DEF ToSet
    <3>2. CASE i <= k
      <4>1. i \in 1 .. k /\ shown[i] = r
        BY <1>3, <1>5, <1>6, <3>1, <3>2
      <4>. QED  BY <1>6, <4>1 DEF Reached, ToSet
    <3>3. CASE ~(i <= k)
      <4>1. k < i
        BY <1>3, <1>5, <3>3
      <4>2. Newer(found[k], r)
        BY <1>2, <2>2, <3>1, <4>1 DEF Descending
      <4>. QED  BY <2>3, <2>4, <4>2 DEF Reached, Newer
    <3>. QED  BY <3>2, <3>3
  <2>6. shown \in Seq(rows)
    BY <1>1, <1>6
  <2>. QED  BY <1>4, <1>8, <1>9, <2>3, <2>5, <2>6 DEF PageIs
<1>11. CASE ~(PageSize <= n)
  <2>1. k = n /\ next = None
    BY <1>3, <1>5, <1>6, <1>11
  <2> HIDE DEF next
  <2>2. ASSUME NEW r \in T
        PROVE  Reached(r, shown, next)
    <3>1. PICK i \in 1 .. n : found[i] = r
      BY <1>2 DEF ToSet
    <3>2. shown[i] = r
      BY <1>6, <2>1, <3>1
    <3>. QED  BY <1>6, <2>1, <3>1, <3>2 DEF Reached, ToSet
  <2>3. shown \in Seq(rows)
    BY <1>1, <1>6
  <2>. QED  BY <1>4, <1>8, <1>9, <2>1, <2>2, <2>3 DEF PageIs
<1>. QED  BY <1>10, <1>11

-----------------------------------------------------------------------------
(***************************************************************************)
(* The inductive invariant                                                 *)
(***************************************************************************)

\* What the history goes through, alone: redactions are recorded at any time
\* that has been, and the user does what the page lets him.
HistoryNext ==
  \/ \E ts \in 0 .. clock, category \in Categories : Record(ts, category)
  \/ ResetHistory
  \/ Tick
  \/ LoadPage
  \/ \E filter \in Categories \cup {None} : Refilter(filter)
  \/ PageArrives
  \/ PageFails

Row == RowBefore(next_id, clock)

\* Rows are told apart by their ids, and what the view or a page holds are rows
\* there have been.
TableInv ==
  /\ next_id \in Nat \ {0} /\ clock \in Nat
  /\ rows \subseteq Row /\ Keyed(rows) /\ IsFiniteSet(rows)
  /\ view \in [filter : Categories \cup {None}, shown : Seq(Row), cursor : Cursor \cup {None},
               first : BOOLEAN, loading : BOOLEAN, start : SUBSET Row, spoilt : BOOLEAN]
  /\ replies \subseteq [rows : Seq(Row), cursor : Cursor \cup {None}]

\* A load under way has its page under way.  In a view that is not spoilt it is
\* the only one, and there is none without a load.
LoadInv ==
  /\ view.loading => replies # {}
  /\ ~view.spoilt =>
       /\ ~view.loading => replies = {}
       /\ \A p, q \in replies : p = q
       /\ view.first /\ view.cursor = None => replies = {}

\* What is shown is in order, of the filter, stops at the cursor and leaves out
\* nothing before it; the page under way goes on from there.
ShownInv ==
  ~view.spoilt =>
    /\ Descending(view.shown)
    /\ \A i \in DOMAIN view.shown : Matches(view.shown[i], view.filter)
    /\ IF view.first
       THEN /\ view.cursor # None => EndsAt(view.shown, view.cursor)
            /\ \A r \in view.start \cap rows :
                 Matches(r, view.filter) => Reached(r, view.shown, view.cursor)
       ELSE view.shown = << >> /\ view.cursor = None
    /\ \A page \in replies : PageIs(page, view.filter, view.cursor, view.start \cap rows)

HistoryInv == TableInv /\ LoadInv /\ ShownInv

LEMMA HistoryInvProperties ==
  ASSUME HistoryInv
  PROVE  HistoryTypeOK /\ PagesAreExact
<1>1. HistoryTypeOK
  BY DEF HistoryInv, TableInv, HistoryTypeOK, Row, RowBefore
<1>2. PagesAreExact
  <2>1. view.first /\ view.cursor = None /\ ~view.spoilt =>
          \A r \in view.start \cap rows : Matches(r, view.filter) => r \in ToSet(view.shown)
    BY DEF HistoryInv, ShownInv, Reached
  <2>. QED  BY <2>1 DEF HistoryInv, ShownInv, PagesAreExact, Descending
<1>. QED  BY <1>1, <1>2

\* A page that is right for some rows is right for fewer.
LEMMA FewerRows ==
  ASSUME NEW page, NEW filter, NEW cursor, NEW table, NEW fewer \in SUBSET table,
         PageIs(page, filter, cursor, table)
  PROVE  PageIs(page, filter, cursor, fewer)
  BY DEF PageIs

-----------------------------------------------------------------------------
(***************************************************************************)
(* Steps of the table                                                      *)
(***************************************************************************)

LEMMA RecordStep ==
  ASSUME HistoryInv, NEW ts \in 0 .. clock, NEW category \in Categories, Record(ts, category)
  PROVE  HistoryInv'
<1> DEFINE new == [id |-> next_id, ts |-> ts, category |-> category]
<1>1. /\ rows' = rows \cup {new} /\ next_id' = next_id + 1
      /\ UNCHANGED <<clock, view, replies>>
  BY DEF Record
<1>2. new \in Row' /\ Row \subseteq Row' /\ \A r \in Row : r.id # new.id
  BY <1>1 DEF HistoryInv, TableInv, Row, RowBefore
<1>3. TableInv'
  <2>1. Keyed(rows')
    BY <1>1, <1>2 DEF HistoryInv, TableInv, Keyed
  <2>2. IsFiniteSet(rows')
    BY <1>1, FS_AddElement DEF HistoryInv, TableInv
  <2>3. Seq(Row) \subseteq Seq(Row')
    BY <1>2
  <2>4. view' \in [filter : Categories \cup {None}, shown : Seq(Row'), cursor : Cursor \cup {None},
                   first : BOOLEAN, loading : BOOLEAN, start : SUBSET Row', spoilt : BOOLEAN]
    BY <1>1, <1>2, <2>3 DEF HistoryInv, TableInv
  <2>5. replies' \subseteq [rows : Seq(Row'), cursor : Cursor \cup {None}]
    BY <1>1, <2>3 DEF HistoryInv, TableInv
  <2>. QED  BY <1>1, <1>2, <2>1, <2>2, <2>4, <2>5 DEF HistoryInv, TableInv
<1>4. LoadInv'
  BY <1>1 DEF HistoryInv, LoadInv
<1>5. view'.start \cap rows' = view.start \cap rows
  BY <1>1, <1>2 DEF HistoryInv, TableInv
<1>6. ShownInv'
  BY <1>1, <1>5 DEF HistoryInv, ShownInv
<1>. QED  BY <1>3, <1>4, <1>6 DEF HistoryInv

LEMMA ResetStep ==
  ASSUME HistoryInv, ResetHistory
  PROVE  HistoryInv'
<1>1. rows' = {} /\ UNCHANGED <<next_id, clock, view, replies>>
  BY DEF ResetHistory
<1>2. TableInv' /\ LoadInv'
  BY <1>1, FS_EmptySet DEF HistoryInv, TableInv, LoadInv, Keyed, Row
<1>3. view'.start \cap rows' = {}
  BY <1>1
<1>4. ~view.spoilt => \A page \in replies : PageIs(page, view.filter, view.cursor, {})
  BY DEF HistoryInv, ShownInv, PageIs
<1>5. ShownInv'
  BY <1>1, <1>3, <1>4 DEF HistoryInv, ShownInv
<1>. QED  BY <1>2, <1>5 DEF HistoryInv

LEMMA TickStep ==
  ASSUME HistoryInv, Tick
  PROVE  HistoryInv'
<1>1. clock' = clock + 1 /\ UNCHANGED <<rows, next_id, view, replies>>
  BY DEF Tick
<1>2. Row \subseteq Row'
  BY <1>1 DEF HistoryInv, TableInv, Row, RowBefore
<1>3. TableInv'
  <2>1. Seq(Row) \subseteq Seq(Row')
    BY <1>2
  <2>2. view' \in [filter : Categories \cup {None}, shown : Seq(Row'), cursor : Cursor \cup {None},
                   first : BOOLEAN, loading : BOOLEAN, start : SUBSET Row', spoilt : BOOLEAN]
    BY <1>1, <1>2, <2>1 DEF HistoryInv, TableInv
  <2>. QED  BY <1>1, <1>2, <2>1, <2>2 DEF HistoryInv, TableInv
<1>4. LoadInv' /\ ShownInv'
  BY <1>1 DEF HistoryInv, LoadInv, ShownInv
<1>. QED  BY <1>3, <1>4 DEF HistoryInv

-----------------------------------------------------------------------------
(***************************************************************************)
(* Steps of the drill-down                                                 *)
(***************************************************************************)

ViewType ==
  [filter : Categories \cup {None}, shown : Seq(Row), cursor : Cursor \cup {None},
   first : BOOLEAN, loading : BOOLEAN, start : SUBSET Row, spoilt : BOOLEAN]

\* A view that may ask for a page: it is right so far, and if it is not spoilt
\* there is no other page under way.
MayAsk(v) ==
  /\ v \in ViewType
  /\ ~v.spoilt =>
       /\ replies = {}
       /\ ~(v.first /\ v.cursor = None)
       /\ Descending(v.shown)
       /\ \A i \in DOMAIN v.shown : Matches(v.shown[i], v.filter)
       /\ IF v.first
          THEN /\ EndsAt(v.shown, v.cursor)
               /\ \A r \in v.start \cap rows :
                    Matches(r, v.filter) => Reached(r, v.shown, v.cursor)
          ELSE v.shown = << >> /\ v.cursor = None

LEMMA AskStep ==
  ASSUME HistoryInv, NEW v, MayAsk(v), Ask(v), UNCHANGED <<rows, next_id, clock>>
  PROVE  HistoryInv'
<1>1. PICK failed \in BOOLEAN :
         /\ replies' = replies \cup
               {IF failed THEN [rows |-> << >>, cursor |-> None]
                ELSE query_redactions(v.filter, v.cursor)}
         /\ view' = [v EXCEPT !.loading = TRUE, !.spoilt = @ \/ failed,
                              !.start = IF v.first THEN @ ELSE rows]
  BY DEF Ask
<1> DEFINE page  == query_redactions(v.filter, v.cursor)
           empty == [rows |-> << >>, cursor |-> None]
<1>2. rows \subseteq AnyRow /\ Keyed(rows) /\ IsFiniteSet(rows) /\ rows \subseteq Row /\ Row' = Row
  BY DEF HistoryInv, TableInv, Row, RowBefore, AnyRow
<1>3. /\ page \in [rows : Seq(rows), cursor : Cursor \cup {None}]
      /\ PageIs(page, v.filter, v.cursor, rows)
  BY <1>2, QueryIs
<1>4. Seq(rows) \subseteq Seq(Row)
  BY <1>2
<1>5. empty \in [rows : Seq(Row), cursor : Cursor \cup {None}]
  OBVIOUS
<1> HIDE DEF page, empty
<1>6. replies' \subseteq [rows : Seq(Row), cursor : Cursor \cup {None}] /\ replies' # {}
  BY <1>1, <1>3, <1>4, <1>5 DEF HistoryInv, TableInv, page, empty
<1>7. /\ view'.filter = v.filter /\ view'.shown = v.shown /\ view'.cursor = v.cursor
      /\ view'.first = v.first /\ view'.loading = TRUE /\ view'.spoilt = (v.spoilt \/ failed)
      /\ view'.start = (IF v.first THEN v.start ELSE rows)
      /\ view' \in ViewType
  BY <1>1, <1>2 DEF MayAsk, ViewType
<1>8. TableInv'
  BY <1>2, <1>6, <1>7 DEF HistoryInv, TableInv, ViewType
<1>9. ASSUME ~view'.spoilt
      PROVE  replies' = {page} /\ ~v.spoilt
  BY <1>1, <1>7, <1>9 DEF MayAsk, page, ViewType
<1>10. LoadInv'
  BY <1>6, <1>7, <1>9 DEF LoadInv, MayAsk
<1>11. ShownInv'
  <2> SUFFICES ASSUME ~view'.spoilt PROVE ShownInv'
    BY DEF ShownInv
  <2>1. PageIs(page, v.filter, v.cursor, view'.start \cap rows)
    BY <1>3, FewerRows
  <2>. QED  BY <1>7, <1>9, <2>1 DEF ShownInv, MayAsk
<1>. QED  BY <1>8, <1>10, <1>11 DEF HistoryInv

LEMMA LoadStep ==
  ASSUME HistoryInv, LoadPage
  PROVE  HistoryInv'
<1>1. MayAsk(view)
  BY DEF LoadPage, HistoryInv, TableInv, LoadInv, ShownInv, MayAsk, ViewType
<1>. QED  BY <1>1, AskStep DEF LoadPage

LEMMA RefilterStep ==
  ASSUME HistoryInv, NEW filter \in Categories \cup {None}, Refilter(filter)
  PROVE  HistoryInv'
<1> DEFINE new == EmptyView(filter, replies # {})
<1>1. /\ new \in ViewType /\ new.shown = << >> /\ new.cursor = None /\ new.first = FALSE
      /\ IF replies = {} THEN ~new.spoilt ELSE new.spoilt
  <2>1. << >> \in Seq(Row) /\ {} \in SUBSET Row /\ (replies # {}) \in BOOLEAN
    OBVIOUS
  <2> DEFINE spoilt == replies # {}
  <2>2. spoilt \in BOOLEAN /\ IF replies = {} THEN ~spoilt ELSE spoilt
    OBVIOUS
  <2> HIDE DEF spoilt
  <2>3. new = EmptyView(filter, spoilt)
    BY DEF spoilt
  <2>. QED  BY <2>1, <2>2, <2>3 DEF ViewType, EmptyView
<1>2. UNCHANGED <<rows, next_id, clock>>
  BY DEF Refilter
<1>3. CASE Ask(new)
  <2>1. MayAsk(new)
    <3>1. Descending(<< >>) /\ DOMAIN << >> = {}
      BY DEF Descending
    <3> HIDE DEF new
    <3>. QED  BY <1>1, <3>1 DEF MayAsk
  <2>. QED  BY <1>2, <1>3, <2>1, AskStep
<1>4. CASE view.loading /\ view' = [new EXCEPT !.loading = TRUE] /\ UNCHANGED replies
  <2>1. replies # {} /\ new.spoilt
    BY <1>1, <1>4 DEF HistoryInv, LoadInv
  <2> HIDE DEF new
  <2>2. view' \in ViewType /\ view'.spoilt
    BY <1>1, <1>4, <2>1 DEF ViewType
  <2>3. TableInv'
    BY <1>2, <1>4, <2>2 DEF HistoryInv, TableInv, ViewType, Row
  <2>. QED  BY <1>4, <2>1, <2>2, <2>3 DEF HistoryInv, LoadInv, ShownInv
<1>. QED  BY <1>3, <1>4 DEF Refilter

LEMMA FailStep ==
  ASSUME HistoryInv, PageFails
  PROVE  HistoryInv'
<1>1. PICK page \in replies : replies' = replies \ {page}
  BY DEF PageFails
<1>2. view' = [view EXCEPT !.loading = FALSE] /\ UNCHANGED <<rows, next_id, clock>>
  BY DEF PageFails
<1>3. /\ view'.filter = view.filter /\ view'.shown = view.shown /\ view'.cursor = view.cursor
      /\ view'.first = view.first /\ view'.loading = FALSE /\ view'.spoilt = view.spoilt
      /\ view'.start = view.start /\ view' \in ViewType
  BY <1>2 DEF HistoryInv, TableInv, ViewType
<1>4. TableInv'
  BY <1>1, <1>2, <1>3 DEF HistoryInv, TableInv, ViewType, Row
<1>5. ~view.spoilt => replies' = {}
  BY <1>1 DEF HistoryInv, LoadInv
<1>6. LoadInv' /\ ShownInv'
  BY <1>2, <1>3, <1>5 DEF HistoryInv, LoadInv, ShownInv
<1>. QED  BY <1>4, <1>6 DEF HistoryInv

\* What Newer compares.
LEMMA RowHasKey ==
  ASSUME TableInv, NEW r \in Row
  PROVE  r.ts \in Nat /\ r.id \in Nat
  BY DEF TableInv, Row, RowBefore

\* The page that arrives goes on where the list stopped.
LEMMA ArriveStep ==
  ASSUME HistoryInv, PageArrives
  PROVE  HistoryInv'
<1>1. PICK page \in replies :
         /\ view' = [view EXCEPT !.shown = @ \o page.rows, !.cursor = page.cursor,
                                 !.first = TRUE, !.loading = FALSE]
         /\ replies' = replies \ {page}
  BY DEF PageArrives
<1>2. UNCHANGED <<rows, next_id, clock>>
  BY DEF PageArrives
<1> DEFINE old == view.shown
           new == page.rows
           all == old \o new
<1>3. /\ old \in Seq(Row) /\ new \in Seq(Row) /\ all \in Seq(Row)
      /\ page.cursor \in Cursor \cup {None}
  BY DEF HistoryInv, TableInv
<1>4. /\ view'.filter = view.filter /\ view'.shown = all /\ view'.cursor = page.cursor
      /\ view'.first = TRUE /\ view'.loading = FALSE /\ view'.spoilt = view.spoilt
      /\ view'.start = view.start /\ view' \in ViewType
  BY <1>1, <1>3 DEF HistoryInv, TableInv, ViewType
<1>5. TableInv'
  BY <1>1, <1>2, <1>4 DEF HistoryInv, TableInv, ViewType, Row
<1>6. ~view.spoilt => replies' = {}
  BY <1>1 DEF HistoryInv, LoadInv
<1>7. LoadInv'
  BY <1>4, <1>6 DEF LoadInv
<1>8. ShownInv'
  <2> SUFFICES ASSUME ~view.spoilt PROVE ShownInv'
    BY <1>4 DEF ShownInv
  <2>1. PageIs(page, view.filter, view.cursor, view.start \cap rows)
    BY DEF HistoryInv, ShownInv
  <2>2. /\ Descending(old)
        /\ \A i \in DOMAIN old : Matches(old[i], view.filter)
    BY DEF HistoryInv, ShownInv
  <2>3. /\ view.first => view.cursor # None /\ EndsAt(old, view.cursor)
        /\ ~view.first => old = << >> /\ view.cursor = None
        /\ view.first => \A r \in view.start \cap rows :
             Matches(r, view.filter) => Reached(r, old, view.cursor)
    BY DEF HistoryInv, LoadInv, ShownInv
  <2> DEFINE a == Len(old)
             b == Len(new)
  <2>4. /\ a \in Nat /\ b \in Nat /\ DOMAIN old = 1 .. a /\ DOMAIN new = 1 .. b
        /\ Len(all) = a + b /\ DOMAIN all = 1 .. a + b
        /\ \A i \in 1 .. a : all[i] = old[i]
        /\ \A i \in 1 .. a + b : i > a => i - a \in 1 .. b /\ all[i] = new[i - a]
    <3> HIDE DEF old, new
    <3>. QED  BY <1>3
  <2>5. \A i \in 1 .. b : i + a \in 1 .. a + b /\ all[i + a] = new[i]
    <3> HIDE DEF old, new
    <3>. QED  BY <1>3, <2>4
  <2> HIDE DEF a, b, all, old, new
  <2>6. ASSUME NEW i \in 1 .. a, NEW j \in 1 .. b
        PROVE  Newer(old[i], new[j])
    <3>1. old # << >> /\ a # 0
      BY <1>3, <2>4 DEF a
    <3>2. view.first
      BY <2>3, <3>1
    <3>3. /\ view.cursor = [ts |-> old[a].ts, id |-> old[a].id]
          /\ a \in 1 .. a
      BY <2>3, <2>4, <3>1, <3>2 DEF EndsAt, Last, a
    <3>4. Newer(view.cursor, new[j])
      BY <2>1, <2>3, <2>4, <3>2 DEF PageIs, Older, new
    <3>5. Newer(old[a], new[j])
      BY <3>3, <3>4 DEF Newer
    <3>6. old[i] \in Row /\ old[a] \in Row /\ new[j] \in Row
      BY <1>3, <2>4, <3>3
    <3>7. i = a \/ Newer(old[i], old[a])
      BY <2>2, <2>4, <3>3 DEF Descending
    <3>. QED
      BY <3>5, <3>6, <3>7, RowHasKey, NewerIsOrder DEF HistoryInv
  <2>7. Descending(all)
    <3> SUFFICES ASSUME NEW i \in 1 .. a + b, NEW j \in 1 .. a + b, i < j
                 PROVE  Newer(all[i], all[j])
      BY <2>4 DEF Descending
    <3>1. CASE j <= a
      <4>1. i \in 1 .. a /\ j \in 1 .. a
        BY <2>4, <3>1
      <4>. QED  BY <2>2, <2>4, <4>1 DEF Descending
    <3>2. CASE i <= a /\ ~(j <= a)
      <4>1. i \in 1 .. a /\ j - a \in 1 .. b /\ all[j] = new[j - a]
        BY <2>4, <3>2
      <4>. QED  BY <2>4, <2>6, <4>1
    <3>3. CASE ~(i <= a)
      <4>1. /\ i - a \in 1 .. b /\ all[i] = new[i - a]
            /\ j - a \in 1 .. b /\ all[j] = new[j - a] /\ i - a < j - a
        <5>1. i \in Int /\ j \in Int /\ a \in Int /\ i > a /\ j > a
          BY <2>4, <3>3
        <5>2. i - a < j - a
          BY <5>1
        <5>. QED  BY <2>4, <5>1, <5>2
      <4>2. Descending(new)
        BY <2>1 DEF PageIs, new
      <4>. QED  BY <2>4, <4>1, <4>2 DEF Descending
    <3>. QED  BY <3>1, <3>2, <3>3
  <2>8. \A i \in DOMAIN all : Matches(all[i], view.filter)
    <3> SUFFICES ASSUME NEW i \in 1 .. a + b PROVE Matches(all[i], view.filter)
      BY <2>4
    <3>1. CASE i <= a
      <4>1. i \in 1 .. a
        BY <2>4, <3>1
      <4>. QED  BY <2>2, <2>4, <4>1
    <3>2. CASE ~(i <= a)
      <4>1. i - a \in 1 .. b /\ all[i] = new[i - a]
        BY <2>4, <3>2
      <4>2. Matches(new[i - a], view.filter)
        BY <2>1, <2>4, <4>1 DEF PageIs, new
      <4>. QED  BY <4>1, <4>2
    <3>. QED  BY <3>1, <3>2
  <2>9. page.cursor # None => EndsAt(all, page.cursor)
    <3> SUFFICES ASSUME page.cursor # None PROVE EndsAt(all, page.cursor)
      OBVIOUS
    <3>1. new # << >> /\ page.cursor = [ts |-> Last(new).ts, id |-> Last(new).id]
      BY <2>1 DEF PageIs, EndsAt, new
    <3>2. b \in 1 .. b /\ Last(new) = new[b]
      BY <1>3, <2>4, <3>1 DEF Last, b
    <3>3. Last(all) = new[b] /\ all # << >>
      <4>1. b + a \in 1 .. a + b /\ all[b + a] = new[b] /\ b + a = Len(all)
        BY <2>4, <2>5, <3>2
      <4>. QED  BY <4>1, <2>4 DEF Last
    <3>. QED  BY <3>1, <3>2, <3>3 DEF EndsAt
  <2>10. ASSUME NEW r \in view.start \cap rows, Matches(r, view.filter)
         PROVE  Reached(r, all, page.cursor)
    <3>1. ASSUME r \in ToSet(old) PROVE r \in ToSet(all)
      <4>1. PICK i \in 1 .. a : old[i] = r
        BY <2>4, <3>1 DEF ToSet
      <4>2. i \in 1 .. a + b /\ all[i] = r
        BY <2>4, <4>1
      <4>. QED  BY <2>4, <4>2 DEF ToSet
    <3>2. ASSUME r \in ToSet(new) PROVE r \in ToSet(all)
      <4>1. PICK i \in 1 .. b : new[i] = r
        BY <2>4, <3>2 DEF ToSet
      <4>2. i + a \in 1 .. a + b /\ all[i + a] = r
        BY <2>5, <4>1
      <4>. QED  BY <2>4, <4>2 DEF ToSet
    <3>3. r \in ToSet(old) \/ Older(r, view.cursor)
      <4>1. CASE view.first
        BY <2>3, <2>10, <4>1 DEF Reached, Older
      <4>2. CASE ~view.first
        BY <2>3, <4>2 DEF Older
      <4>. QED  BY <4>1, <4>2
    <3>4. CASE r \in ToSet(old)
      BY <3>1, <3>4 DEF Reached
    <3>5. CASE Older(r, view.cursor)
      BY <2>1, <2>10, <3>2, <3>5 DEF PageIs, Reached, new
    <3>. QED  BY <3>3, <3>4, <3>5
  <2>. QED  BY <1>2, <1>4, <1>6, <2>7, <2>8, <2>9, <2>10 DEF ShownInv
<1>. QED  BY <1>5, <1>7, <1>8 DEF HistoryInv

LEMMA HistoryStep ==
  ASSUME HistoryInv, [HistoryNext]_historyVars
  PROVE  HistoryInv'
<1>1. CASE UNCHANGED historyVars
  BY <1>1 DEF historyVars, HistoryInv, TableInv, LoadInv, ShownInv, Row
<1>. QED
  BY <1>1, RecordStep, ResetStep, TickStep, LoadStep, RefilterStep, ArriveStep, FailStep
     DEF HistoryNext

-----------------------------------------------------------------------------
(***************************************************************************)
(* The history of earlier sessions                                         *)
(***************************************************************************)

\* The clock starts at the latest of their times, so none is ahead of it.
LEMMA LatestTime ==
  ASSUME NEW T \in SUBSET AnyRow, Keyed(T), IsFiniteSet(T)
  PROVE  /\ Max({0} \cup {r.ts : r \in T}) \in Nat
         /\ \A r \in T : r.ts <= Max({0} \cup {q.ts : q \in T})
<1> DEFINE Times == {0} \cup {r.ts : r \in T}
<1>1. Times \in SUBSET Nat /\ Times # {}
  BY DEF AnyRow
<1>2. PICK t \in Nat : \A u \in Times : u <= t
  <2>1. CASE T = {}
    BY <2>1
  <2>2. CASE T # {}
    <3>1. PICK s \in SetToSeqs(T) : Descending(s)
      BY SortedExists
    <3>2. s \in Seq(T) /\ ToSet(s) = T
      BY <3>1, SequencesOfSet
    <3>3. DOMAIN s = 1 .. Len(s) /\ Len(s) \in Nat /\ 1 \in DOMAIN s
      BY <2>2, <3>2 DEF ToSet
    <3>4. s[1] \in AnyRow
      BY <3>2, <3>3
    <3>5. ASSUME NEW r \in T PROVE r.ts <= s[1].ts
      <4>1. PICK i \in DOMAIN s : s[i] = r
        BY <3>2 DEF ToSet
      <4>2. i = 1 \/ Newer(s[1], r)
        BY <3>1, <3>3, <4>1 DEF Descending
      <4>. QED  BY <3>4, <4>1, <4>2 DEF Newer, AnyRow
    <3>6. s[1].ts \in Nat /\ \A u \in Times : u <= s[1].ts
      BY <3>4, <3>5 DEF AnyRow
    <3> HIDE DEF Times
    <3>. QED  BY <3>6
  <2>. QED  BY <2>1, <2>2
<1> HIDE DEF Times
<1>3. Max(Times) \in Times /\ \A u \in Times : Max(Times) >= u
  BY <1>1, <1>2, BoundedMax
<1>4. Max(Times) \in Nat /\ \A r \in T : r.ts \in Times /\ r.ts \in Nat
  BY <1>1, <1>3 DEF Times, AnyRow
<1>. QED  BY <1>3, <1>4 DEF Times

LEMMA HistoryStarts ==
  ASSUME NEW earlier, HistoryInit(earlier), IsFiniteSet(earlier), Keyed(earlier),
         earlier \subseteq [id : 1 .. Cardinality(earlier), ts : Nat, category : Categories]
  PROVE  HistoryInv
<1>1. Cardinality(earlier) \in Nat
  BY FS_CardinalityType
<1>2. earlier \in SUBSET AnyRow
  BY DEF AnyRow
<1>3. /\ clock \in Nat /\ \A r \in earlier : r.ts <= clock
  BY <1>2, LatestTime DEF HistoryInit
<1>4. rows = earlier /\ next_id = 1 + Cardinality(earlier) /\ replies = {}
      /\ view = [filter |-> None, shown |-> << >>, cursor |-> None, first |-> FALSE,
                 loading |-> FALSE, start |-> {}, spoilt |-> FALSE]
  BY DEF HistoryInit, EmptyView
<1>5. rows \subseteq Row
  BY <1>1, <1>3, <1>4 DEF Row, RowBefore
<1>6. TableInv
  BY <1>1, <1>3, <1>4, <1>5 DEF TableInv
<1>7. LoadInv /\ ShownInv
  BY <1>4 DEF LoadInv, ShownInv, Descending
<1>. QED  BY <1>6, <1>7 DEF HistoryInv


-----------------------------------------------------------------------------
(***************************************************************************)
(* The history under the desktop                                           *)
(***************************************************************************)

\* What a handler is about to record is a redaction of a time that has been.
RedactionInv ==
  /\ bound \in Bounds
  /\ \A r \in Requests :
       /\ request[r].kind \in Categories \cup {None}
       /\ request[r].ts \in 0 .. clock
       /\ request[r].at \in {"audit", "stamp", "store"} => request[r].kind # None

\* The desktop takes the history through the steps of HistoryNext only.
LEMMA DesktopHistory ==
  ASSUME RedactionInv, [Next]_allVars
  PROVE  [HistoryNext]_historyVars
<1>1. ASSUME NEW r \in Requests, Handle(r) PROVE [HistoryNext]_historyVars
  <2>1. CASE Store(r)
    <3>1. request[r].ts \in 0 .. clock /\ request[r].kind \in Categories
      BY <2>1 DEF Store, At, RedactionInv
    <3>. QED  BY <2>1, <3>1 DEF Store, HistoryNext
  <2>2. CASE Begin(r) \/ WriteAudit(r) \/ Stamp(r) \/ Emit(r) \/ Respond(r)
    BY <2>2 DEF Begin, WriteAudit, Stamp, Emit, Respond
  <2>. QED  BY <1>1, <2>1, <2>2 DEF Handle
<1>2. CASE Connect \/ Accept \/ Lag \/ Send \/ Forward \/ End
  BY <1>2 DEF Connect, Accept, Lag, Send, Forward, End, Fed
<1>3. CASE Poll \/ GetStatsPort
  BY <1>3 DEF Poll, GetStatsPort
<1>4. CASE Browse
  BY <1>4 DEF Browse, HistoryNext
<1>5. CASE clock < bound.ticks /\ Tick /\ UNCHANGED <<processVars, deskVars, bound>>
  BY <1>5 DEF HistoryNext
<1>6. CASE Launch \/ Process(Evict) \/ (bound.stop /\ Process(RemoveFiles))
  BY <1>6 DEF Launch, Process
<1>7. CASE \E g \in Gateways : Process(Run(g)) \/ (g <= bound.deaths /\ Process(Die(g)))
  BY <1>7 DEF Process
<1>8. CASE UNCHANGED allVars
  BY <1>8 DEF allVars
<1>. QED  BY <1>1, <1>2, <1>3, <1>4, <1>5, <1>6, <1>7, <1>8 DEF Next

LEMMA DesktopStarts ==
  ASSUME DesktopInit
  PROVE  RedactionInv /\ HistoryInv
<1>1. /\ bound \in Bounds /\ HistoryInit(bound.rows) /\ IsFiniteSet(bound.rows)
      /\ bound.rows \subseteq [id : 1 .. Cardinality(bound.rows), ts : Nat, category : Categories]
      /\ Keyed(bound.rows)
  BY DesktopAssumption DEF DesktopInit, Keyed
<1>2. HistoryInv
  BY <1>1, HistoryStarts
<1>3. clock \in Nat
  BY <1>2 DEF HistoryInv, TableInv
<1>4. RedactionInv
  BY <1>1, <1>3 DEF DesktopInit, Idle, RedactionInv
<1>. QED  BY <1>2, <1>4

\* A step of a handler moves its own request on and lets time be.
LEMMA RedactionHandled ==
  ASSUME RequestInv, RedactionInv, clock \in Nat, NEW r \in Requests, Handle(r)
  PROVE  RedactionInv'
<1> DEFINE q == request[r]
<1>0. /\ DOMAIN request = Requests /\ DOMAIN q = Fields
      /\ UNCHANGED <<bound, clock>>
  BY DEF RequestInv, Handle, Begin, WriteAudit, Stamp, Store, Emit, Respond, Handled, historyVars,
         Record
<1>1. SUFFICES /\ \A p \in Requests \ {r} : request'[p] = request[p]
               /\ request'[r].kind \in Categories \cup {None}
               /\ request'[r].ts \in 0 .. clock
               /\ request'[r].at \in {"audit", "stamp", "store"} => request'[r].kind # None
  BY <1>0 DEF RedactionInv
<1>2. /\ q.kind \in Categories \cup {None} /\ q.ts \in 0 .. clock
      /\ q.at \in {"audit", "stamp", "store"} => q.kind # None
  BY DEF RedactionInv
<1>3. CASE Begin(r)
  <2>1. PICK g \in Gateways, kind \in bound.kinds :
           request' = [request EXCEPT ![r].gw = g, ![r].kind = kind,
                              ![r].at = IF kind = None THEN "emit" ELSE "audit"]
    BY <1>3 DEF Begin, Serving
  <2>2. kind \in Categories \cup {None}
    BY DesktopAssumption DEF RedactionInv
  <2>3. /\ \A p \in Requests \ {r} : request'[p] = request[p]
        /\ request'[r].kind = kind /\ request'[r].ts = q.ts
        /\ request'[r].at = IF kind = None THEN "emit" ELSE "audit"
    BY <1>0, <2>1 DEF Fields
  <2>. QED  BY <1>2, <2>2, <2>3
<1>4. CASE WriteAudit(r)
  <2>1. q.at = "audit" /\ request' = [request EXCEPT ![r].at = "stamp", ![r].audited = TRUE]
    BY <1>4 DEF WriteAudit, At
  <2>. QED  BY <1>0, <1>2, <2>1 DEF Fields
<1>5. CASE Stamp(r)
  <2>1. q.at = "stamp" /\ request' = [request EXCEPT ![r].at = "store", ![r].ts = clock]
    BY <1>5 DEF Stamp, At
  <2>2. clock \in 0 .. clock
    OBVIOUS
  <2>. QED  BY <1>0, <1>2, <2>1, <2>2 DEF Fields
<1>6. CASE Store(r)
  <2>1. q.at = "store" /\ request' = [request EXCEPT ![r].at = "emit", ![r].stored = TRUE]
    BY <1>6 DEF Store, At
  <2>. QED  BY <1>0, <1>2, <2>1 DEF Fields
<1>7. CASE Emit(r)
  <2>1. PICK n : request' = [request EXCEPT ![r].at = "sent", ![r].event = n]
    BY <1>7 DEF Emit
  <2>. QED  BY <1>0, <1>2, <2>1 DEF Fields
<1>8. CASE Respond(r)
  <2>1. request' = [request EXCEPT ![r].at = "answered"]
    BY <1>8 DEF Respond
  <2>. QED  BY <1>0, <1>2, <2>1 DEF Fields
<1>. QED  BY <1>3, <1>4, <1>5, <1>6, <1>7, <1>8 DEF Handle

LEMMA RedactionStep ==
  ASSUME RequestInv, RedactionInv, HistoryInv, [Next]_allVars
  PROVE  RedactionInv'
<1>1. clock \in Nat /\ clock' \in Nat /\ clock <= clock'
  <2>1. clock' \in {clock, clock + 1}
    BY DesktopHistory DEF HistoryNext, historyVars, Record, ResetHistory, Tick, LoadPage, Refilter,
       PageArrives, PageFails
  <2>. QED  BY <2>1 DEF HistoryInv, TableInv
<1>2. CASE \E r \in Requests : Handle(r)
  BY <1>1, <1>2, RedactionHandled
<1>3. CASE UNCHANGED <<request, bound>>
  BY <1>1, <1>3 DEF RedactionInv
<1>4. CASE Connect \/ Accept \/ Lag \/ Send \/ Forward \/ End
  BY <1>3, <1>4 DEF Connect, Accept, Lag, Send, Forward, End, Fed
<1>5. CASE Poll \/ GetStatsPort \/ Browse
  BY <1>3, <1>5 DEF Poll, GetStatsPort, Browse, deskVars
<1>6. CASE clock < bound.ticks /\ Tick /\ UNCHANGED <<processVars, deskVars, bound>>
  BY <1>3, <1>6 DEF deskVars
<1>7. CASE Launch \/ Process(Evict) \/ (bound.stop /\ Process(RemoveFiles))
  BY <1>3, <1>7 DEF Launch, Process, deskVars
<1>8. CASE \E g \in Gateways : Process(Run(g)) \/ (g <= bound.deaths /\ Process(Die(g)))
  BY <1>3, <1>8 DEF Process, deskVars
<1>9. CASE UNCHANGED allVars
  BY <1>3, <1>9 DEF allVars, deskVars
<1>. QED  BY <1>2, <1>4, <1>5, <1>6, <1>7, <1>8, <1>9 DEF Next

\* What bounds the socket, the tray and the port of the page.
PageInv == Len(socket) <= Socket /\ {tray} \subseteq BOOLEAN /\ page_port \in Ports \cup {Nothing}

LEMMA PageStep ==
  ASSUME ProcessTypeOK, FeedInv, PageInv, [Next]_allVars
  PROVE  PageInv'
<1>0. socket \in Seq(Event) /\ Len(socket) \in Nat
  BY DEF FeedInv
<1>1. CASE UNCHANGED <<socket, tray, page_port>>
  BY <1>1 DEF PageInv
<1>2. CASE Send
  <2>1. /\ Len(socket) < Socket /\ \E e : socket' = Append(socket, e)
        /\ UNCHANGED <<tray, page_port>>
    BY <1>2 DEF Send, Fed
  <2>2. Len(socket') = Len(socket) + 1
    BY <1>0, <2>1
  <2>. QED  BY <1>0, <2>1, <2>2, DesktopAssumption DEF PageInv
<1>3. CASE Forward
  <2>1. socket # << >> /\ socket' = Tail(socket) /\ UNCHANGED <<tray, page_port>>
    BY <1>3 DEF Forward, Fed
  <2>2. Len(socket') = Len(socket) - 1
    BY <1>0, <2>1
  <2>. QED  BY <1>0, <2>1, <2>2, DesktopAssumption DEF PageInv
<1>4. CASE Poll
  <2>1. Healthy(file["stats"]) \in BOOLEAN
    BY DEF Healthy
  <2>. QED  BY <1>4, <2>1 DEF Poll, PageInv
<1>5. CASE GetStatsPort
  <2>1. page_port' \in Ports /\ UNCHANGED <<socket, tray>>
    BY <1>5 DEF GetStatsPort, RecoverFile, ProcessTypeOK, Services
  <2>. QED  BY <2>1 DEF PageInv
<1>6. CASE Connect \/ Accept \/ Lag \/ End
  BY <1>1, <1>6 DEF Connect, Accept, Lag, End, Fed
<1>7. ASSUME NEW r \in Requests, Handle(r) PROVE PageInv'
  BY <1>1, <1>7 DEF Handle, Begin, WriteAudit, Stamp, Store, Emit, Respond, Handled
<1>8. CASE Browse \/ (clock < bound.ticks /\ Tick /\ UNCHANGED <<processVars, deskVars, bound>>)
  BY <1>1, <1>8 DEF Browse, deskVars
<1>9. CASE Launch \/ Process(Evict) \/ (bound.stop /\ Process(RemoveFiles))
  BY <1>1, <1>9 DEF Launch, Process, deskVars
<1>10. CASE \E g \in Gateways : Process(Run(g)) \/ (g <= bound.deaths /\ Process(Die(g)))
  BY <1>1, <1>10 DEF Process, deskVars
<1>11. CASE UNCHANGED allVars
  BY <1>1, <1>11 DEF allVars, deskVars
<1>. QED
  BY <1>2, <1>3, <1>4, <1>5, <1>6, <1>7, <1>8, <1>9, <1>10, <1>11 DEF Next

LEMMA DesktopHistoryInvariance ==
  DesktopSpec => [](ProcessInv /\ DesktopInv /\ RedactionInv /\ HistoryInv /\ PageInv)
<1> DEFINE All == ProcessInv /\ DesktopInv /\ RedactionInv /\ HistoryInv /\ PageInv
<1>1. DesktopInit => All
  <2> SUFFICES ASSUME DesktopInit PROVE All
    OBVIOUS
  <2>1. PageInv
    <3>1. socket = <<>> /\ tray = FALSE /\ page_port = Nothing
      BY DEF DesktopInit
    <3>2. Len(socket) = 0 /\ Socket \in Nat
      BY <3>1, DesktopAssumption
    <3>3. Len(socket) <= Socket
      BY <3>2
    <3>4. page_port \in Ports \cup {Nothing}
      BY <3>1
    <3>5. tray \in BOOLEAN
      BY <3>1
    <3>. QED  BY <3>3, <3>4, <3>5 DEF PageInv
  <2>. QED  BY <2>1, ProcessInitInv, DesktopInitInv, DesktopStarts DEF DesktopInit
<1>2. All /\ [Next]_allVars => All'
  <2> SUFFICES ASSUME All, [Next]_allVars PROVE All'
    OBVIOUS
  <2>1. ProcessTypeOK /\ TaskInv /\ RequestInv /\ FeedInv
    BY DEF ProcessInv, DesktopInv
  <2>2. ProcessInv' /\ DesktopInv'
    BY <2>1, DesktopNextInv, DesktopProcesses, ProcessNextInv
  <2>3. RedactionInv' /\ PageInv'
    BY <2>1, RedactionStep, PageStep
  <2>4. HistoryInv'
    BY DesktopHistory, HistoryStep
  <2>. QED  BY <2>2, <2>3, <2>4
<1>. QED  BY <1>1, <1>2, PTL DEF DesktopSpec

\* Every reachable state of the desktop is well typed: sockets and ports stay
\* within their bounds, the receiver within the bus.
THEOREM DesktopTypes == DesktopSpec => []DesktopTypeOK
<1>1. ProcessInv /\ DesktopInv /\ HistoryInv /\ PageInv => DesktopTypeOK
  <2> SUFFICES ASSUME ProcessInv, DesktopInv, HistoryInv, PageInv PROVE DesktopTypeOK
    OBVIOUS
  <2>1. HistoryTypeOK
    BY HistoryInvProperties
  <2>2. ProcessTypeOK
    BY DEF ProcessInv
  <2>3. /\ feed.gw \in Gateways \cup {Nothing} /\ feed.next \in Nat \cup {Nothing}
        /\ feed.next # Nothing => feed.next <= Len(bus[feed.gw]) + 1
    <3>1. feed \in [gw : Gateways \cup {Nothing}, next : Nat \cup {Nothing}]
      BY DEF DesktopInv, FeedInv
    <3>2. feed.next # Nothing => feed.gw \in Gateways /\ feed.next \in 1 .. Len(bus[feed.gw]) + 1
      BY <3>1 DEF DesktopInv, FeedInv
    <3>3. \A g \in Gateways : Len(bus[g]) \in Nat
      BY DEF DesktopInv, BusInv
    <3>. QED  BY <3>1, <3>2, <3>3
  <2>. QED  BY <2>1, <2>2, <2>3 DEF DesktopTypeOK, PageInv
<1>. QED  BY <1>1, DesktopHistoryInvariance, PTL

\* However redactions are recorded and wiped while somebody scrolls: a view that
\* is not spoilt shows rows of its filter, newest first and none twice, and at
\* its end all of those it was opened on that are still there.
THEOREM PagesOnDesktop == DesktopSpec => []PagesAreExact
<1>1. HistoryInv => PagesAreExact
  BY HistoryInvProperties
<1>. QED  BY <1>1, DesktopHistoryInvariance, PTL

=============================================================================
