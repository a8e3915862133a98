------------------------------- MODULE Desktop -------------------------------
(***************************************************************************)
(* What the user sees of the gateway: handle_request and handle_response   *)
(* as far as they write the audit log, the history and the event bus       *)
(* (src/src/hudsucker.rs, content_router/audit.rs, event_bus.rs), and the  *)
(* menu bar that finds a gateway through the port files, polls its         *)
(* counters and forwards its events (apps/menu-bar/src-tauri/src/main.rs). *)
(* It composes GatewayProcess and History.                                 *)
(*                                                                         *)
(* The bus is tokio's broadcast channel: a ring that every receiver reads  *)
(* at its own pace from where it subscribed; one that is more than the     *)
(* ring behind goes on at its oldest event.  A receiver subscribes when    *)
(* its connection is accepted, its task writes to the socket, and what is  *)
(* in the socket outlives the gateway.                                     *)
(***************************************************************************)
EXTENDS GatewayProcess, History

CONSTANTS
    Requests,    \* requests the proxy intercepts, with their responses
    Ring,        \* size of the broadcast channel (1000 in the code)
    Socket,      \* events a socket holds
    Bounds       \* bounds of a behaviour, one of which is chosen at its start

\* The rows of earlier sessions are numbered by AUTOINCREMENT from 1.
ASSUME DesktopAssumption ==
    /\ Ring \in Nat \ {0} /\ Socket \in Nat \ {0}
    /\ \A b \in Bounds :
          /\ b.kinds \subseteq Categories \cup {None}
          /\ IsFiniteSet(b.rows)
          /\ b.rows \subseteq [id : 1 .. Cardinality(b.rows), ts : Nat, category : Categories]
          /\ \A q, r \in b.rows : q.id = r.id => q = r

VARIABLES
    bound,       \* how much may happen, and which parts of the menu bar run
    request,     \* every request in its handler
    bus,         \* the events each process has emitted
    feed,        \* the forwarder's connection, and where its receiver is
    socket,      \* events written to the connection and not read yet
    tail,        \* the events the forwarder has handed to the dashboard
    tray,        \* whether the tray says it is connected
    page_port    \* statsPort of the dashboard, which it never forgets

deskVars == <<request, bus, feed, socket, tail, tray, page_port>>
allVars == <<processVars, historyVars, deskVars, bound>>

Down == [gw |-> Nothing, next |-> Nothing]

Idle == [at |-> "new", gw |-> Nothing, kind |-> None, ts |-> 0,
         audited |-> FALSE, stored |-> FALSE, event |-> 0]

DesktopInit ==
    /\ bound \in Bounds
    /\ ProcessInit
    /\ busy = bound.busy /\ file \in bound.files /\ cert \in bound.certs
    /\ HistoryInit(bound.rows)
    /\ request = [r \in Requests |-> Idle]
    /\ bus = [g \in Gateways |-> <<>>]
    /\ feed = Down
    /\ socket = <<>>
    /\ tail = <<>>
    /\ tray = FALSE
    /\ page_port = Nothing

-----------------------------------------------------------------------------
(* The handlers *)

Handled == UNCHANGED <<processVars, feed, socket, tail, tray, page_port, bound>>

\* process_body and record_batch, which Gateway models, come first.  kind is
\* the category of what was redacted, or None.
Begin(r) ==
    /\ request[r].at = "new"
    /\ r <= bound.requests
    /\ \A q \in Requests : q < r => request[q].at # "new"
    /\ \E g \in Serving, kind \in bound.kinds :
          request' = [request EXCEPT ![r].gw = g, ![r].kind = kind,
                                     ![r].at = IF kind = None THEN "emit" ELSE "audit"]
    /\ UNCHANGED bus
    /\ UNCHANGED historyVars
    /\ Handled

\* r is at this point of a handler whose process is still there.
At(r, point) == request[r].at = point /\ main[request[r].gw] = "serving"

\* A write that fails is logged, and the handler goes on.
WriteAudit(r) ==
    /\ At(r, "audit")
    /\ request' = [request EXCEPT ![r].at = "stamp", ![r].audited = TRUE]
    /\ UNCHANGED bus
    /\ UNCHANGED historyVars
    /\ Handled

\* record_redactions up to the mutex ...
Stamp(r) ==
    /\ At(r, "stamp")
    /\ request' = [request EXCEPT ![r].at = "store", ![r].ts = clock]
    /\ UNCHANGED bus
    /\ UNCHANGED historyVars
    /\ Handled

\* ... and under it.  It does nothing if the database could not be opened, and
\* a transaction may fail.
Store(r) ==
    /\ At(r, "store")
    /\ request' = [request EXCEPT ![r].at = "emit", ![r].stored = TRUE]
    /\ Record(request[r].ts, request[r].kind) \/ UNCHANGED historyVars
    /\ UNCHANGED bus
    /\ Handled

\* Variant: the event is emitted before anything is written.
EmitFirst(r) ==
    /\ At(r, "audit") \/ At(r, "emit")
    /\ request[r].event = 0
    /\ request' = [request EXCEPT ![r].at = IF @ = "emit" THEN "sent" ELSE @,
                                  ![r].event = Len(bus[request[r].gw]) + 1]
    /\ bus' = [bus EXCEPT ![request[r].gw] =
                  Append(@, [type |-> "Request", redacted |-> request[r].kind # None])]
    /\ UNCHANGED historyVars
    /\ Handled

\* event_bus::emit; the body is forwarded.
Emit(r) ==
    /\ At(r, "emit")
    /\ request' = [request EXCEPT ![r].at = "sent",
                                  ![r].event = Len(bus[request[r].gw]) + 1]
    /\ bus' = [bus EXCEPT ![request[r].gw] =
                  Append(@, [type |-> "Request", redacted |-> request[r].kind # None])]
    /\ UNCHANGED historyVars
    /\ Handled

\* handle_response, if there is a response.
Respond(r) ==
    /\ bound.feed
    /\ At(r, "sent")
    /\ request' = [request EXCEPT ![r].at = "answered"]
    /\ bus' = [bus EXCEPT ![request[r].gw] =
                  Append(@, [type |-> "Response", redacted |-> FALSE])]
    /\ UNCHANGED historyVars
    /\ Handled

Handle(r) == Begin(r) \/ WriteAudit(r) \/ Stamp(r) \/ Store(r) \/ Emit(r) \/ Respond(r)

-----------------------------------------------------------------------------
(* The bus and the forwarder of the menu bar *)

Fed == UNCHANGED <<processVars, historyVars, request, bus, tray, page_port, bound>>

\* The file is read before every attempt.
Connect ==
    /\ bound.feed
    /\ feed = Down
    /\ \E g \in Holder("events", file["events"]) : feed' = [gw |-> g, next |-> Nothing]
    /\ UNCHANGED <<socket, tail>>
    /\ Fed

\* The accept loop subscribes for the client: what was emitted since it has
\* connected is lost to it.
Accept ==
    /\ feed # Down /\ feed.next = Nothing
    /\ task["events"][feed.gw] = "listening"
    /\ feed' = [feed EXCEPT !.next = Len(bus[feed.gw]) + 1]
    /\ UNCHANGED <<socket, tail>>
    /\ Fed

Receiving == feed # Down /\ feed.next # Nothing /\ Alive(feed.gw)
Oldest(g) == IF Len(bus[g]) > Ring THEN Len(bus[g]) - Ring + 1 ELSE 1

\* RecvError::Lagged
Lag ==
    /\ Receiving
    /\ feed.next < Oldest(feed.gw)
    /\ feed' = [feed EXCEPT !.next = Oldest(feed.gw)]
    /\ UNCHANGED <<socket, tail>>
    /\ Fed

\* handle_client: recv and write_all, which waits while the socket is full.
Send ==
    /\ Receiving
    /\ feed.next >= Oldest(feed.gw) /\ feed.next <= Len(bus[feed.gw])
    /\ Len(socket) < Socket
    /\ socket' = Append(socket, <<feed.gw, feed.next>>)
    /\ feed' = [feed EXCEPT !.next = @ + 1]
    /\ UNCHANGED tail
    /\ Fed

\* The forwarder hands on requests with redactions and nothing else.
Forward ==
    /\ socket # <<>>
    /\ LET e == bus[socket[1][1]][socket[1][2]] IN
       tail' = IF e.type = "Request" /\ e.redacted THEN Append(tail, socket[1]) ELSE tail
    /\ socket' = Tail(socket)
    /\ UNCHANGED feed
    /\ Fed

\* Variant: read_line's zero is taken for an empty line.
IgnoreEnd ==
    /\ feed # Down /\ ~Alive(feed.gw)
    /\ socket = <<>>
    /\ UNCHANGED <<feed, socket, tail>>
    /\ Fed

\* The process has gone and all it has written is read: connect again.
End ==
    /\ feed # Down /\ ~Alive(feed.gw)
    /\ socket = <<>>
    /\ feed' = Down
    /\ UNCHANGED <<socket, tail>>
    /\ Fed

-----------------------------------------------------------------------------
(* The tray and the dashboard *)

\* spawn_poller: the file is all it looks at.
Poll ==
    /\ bound.tray
    /\ tray' = Healthy(file["stats"])
    /\ UNCHANGED <<processVars, historyVars, request, bus, feed, socket, tail, page_port, bound>>

\* Variant: the port found by probing is not written to the file.
ProbeOnly ==
    /\ bound.tray \/ bound.view
    /\ page_port = Nothing
    /\ \/ file["stats"] # Nothing /\ page_port' = file["stats"]
       \/ /\ file["stats"] = Nothing
          /\ \E p \in Ports : Healthy(p) /\ page_port' = p
    /\ UNCHANGED processVars
    /\ UNCHANGED <<historyVars, request, bus, feed, socket, tail, tray, bound>>

\* getStatsPort of the page, which asks get_stats_port until it has a port.
GetStatsPort ==
    /\ bound.tray \/ bound.view
    /\ page_port = Nothing
    /\ \/ file["stats"] # Nothing /\ page_port' = file["stats"] /\ UNCHANGED processVars
       \/ RecoverFile /\ page_port' = file'["stats"]
    /\ UNCHANGED <<historyVars, request, bus, feed, socket, tail, tray, bound>>

\* What the page does with its port, as long as a gateway answers there.  (A
\* view that is spoilt is not changed by hand any more.)
Browse ==
    /\ bound.view
    /\ page_port # Nothing
    /\ \/ /\ Healthy(page_port)
          /\ \/ LoadPage
             \/ rows # {} /\ ResetHistory
             \/ /\ ~view.spoilt
                /\ \E filter \in (Categories \cup {None}) \ {view.filter} : Refilter(filter)
       \/ PageArrives \/ PageFails
    /\ UNCHANGED <<processVars, deskVars, bound>>

-----------------------------------------------------------------------------

\* A step of the processes, within the bounds.
Process(A) == A /\ UNCHANGED <<historyVars, deskVars, bound>>

Launch == Process(\E l \in Launchers \cap bound.launchers :
                     \/ /\ \E g \in Gateways : g <= bound.gateways /\ main[g] = "off"
                        /\ Probe(l)
                     \/ Spawn(l))

Next ==
    \/ Launch
    \/ Process(Evict)
    \/ bound.stop /\ Process(RemoveFiles)
    \/ \E g \in Gateways : \/ Process(Run(g))
                           \/ g <= bound.deaths /\ Process(Die(g))
    \/ \E r \in Requests : Handle(r)
    \/ clock < bound.ticks /\ Tick /\ UNCHANGED <<processVars, deskVars, bound>>
    \/ Connect \/ Accept \/ Lag \/ Send \/ Forward \/ End
    \/ Poll \/ GetStatsPort \/ Browse

\* The start of a process gets on, and so does what loops: the task that serves
\* the connection, the forwarder and the poller of the menu bar, and the timer
\* of the page.  Nothing says that a launcher runs, a request comes or a user
\* acts.
Serve == Accept \/ Lag \/ Send
Forwarder == Connect \/ Forward \/ End

Fairness ==
    /\ \A g \in Gateways : WF_allVars(Process(Main(g)))
    /\ WF_allVars(Serve)
    /\ WF_allVars(Forwarder)
    /\ WF_allVars(Poll)
    /\ WF_allVars(GetStatsPort)

DesktopSpec == DesktopInit /\ [][Next]_allVars /\ Fairness

-----------------------------------------------------------------------------
(* Properties *)

DesktopTypeOK ==
    /\ ProcessTypeOK
    /\ HistoryTypeOK
    /\ feed.gw \in Gateways \cup {Nothing}
    /\ feed.next \in Nat \cup {Nothing}
    /\ feed # Down /\ feed.next # Nothing => feed.next <= Len(bus[feed.gw]) + 1
    /\ Len(socket) <= Socket
    /\ {tray} \subseteq BOOLEAN
    /\ page_port \in Ports \cup {Nothing}

\* What the dashboard tails is a faithful part of what happened: the events of
\* a process in their order and none twice, across lags, ends of connections
\* and restarts, and each of a redaction whose audit lines and history rows
\* were written first, even if the process died right after it was emitted.
\* (hudsucker.rs:287-311, event_bus.rs:68-97 and the forwarder, main.rs:565-611.)
LiveFeedIsFaithful ==
    /\ \A i, j \in DOMAIN tail :
          i < j /\ tail[i][1] = tail[j][1] => tail[i][2] < tail[j][2]
    /\ \A i \in DOMAIN tail : \E r \in Requests :
          /\ request[r].gw = tail[i][1] /\ request[r].event = tail[i][2]
          /\ request[r].audited /\ request[r].stored

\* The tray finds a gateway whose port file was removed while it was starting:
\* if the page has no port yet it probes the range and writes the file again,
\* unless that file has come to name a port nobody answers.  (main.rs:92-118
\* and 325-341.)
TrayFindsGateway ==
    \A g \in Gateways :
        (bound.tray /\ page_port = Nothing /\ main[g] = "serving"
            /\ task["stats"][g] = "listening")
            ~> \/ tray \/ main[g] = "dead"
               \/ file["stats"] # Nothing /\ ~Healthy(file["stats"])

\* The forwarder comes back to whatever gateway the port file names, and while
\* it is there every redaction reaches the dashboard unless the ring has run
\* over it.  (main.rs:565-611, event_bus.rs:39-97.)
Named(g) == main[g] = "serving" /\ task["events"][g] = "listening"
                /\ file["events"] = port["events"][g]
Subscribed(g) == feed.gw = g /\ feed.next # Nothing
Due(r) == /\ request[r].event > 0 /\ request[r].kind # None
          /\ Subscribed(request[r].gw) /\ feed.next <= request[r].event
Settled(r) == \E g \in Gateways :
    /\ request[r].gw = g
    /\ <<g, request[r].event>> \in ToSet(tail) \/ request[r].event < Oldest(g) \/ main[g] = "dead"
FeedFollowsGateway ==
    /\ \A g \in Gateways :
          (bound.feed /\ Named(g)) ~> (Subscribed(g) \/ ~Named(g))
    /\ \A r \in Requests : Due(r) ~> Settled(r)
=============================================================================
