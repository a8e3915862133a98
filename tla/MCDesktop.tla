------------------------------ MODULE MCDesktop ------------------------------
(* Five small desktops, one of which is chosen at the start of a behaviour: *)
(* two launchers and a first start; the port files removed under the menu   *)
(* bar; a gateway replaced under the forwarder; two requests at once; and   *)
(* somebody who browses the history while it grows.                         *)
EXTENDS Desktop

CONSTANTS secret, pii

NoFiles == [s \in Services |-> Nothing]
OldFiles == [s \in Services |-> 2]

Still == [gateways |-> 2, deaths |-> 1, launchers |-> {"menu bar"}, stop |-> FALSE,
          busy |-> {}, files |-> {NoFiles}, certs |-> {Earlier}, rows |-> {},
          requests |-> 0, kinds |-> {}, ticks |-> 0,
          feed |-> FALSE, tray |-> FALSE, view |-> FALSE]

\* Of equal times, and one behind the order of the ids.
OldRows == {[id |-> 1, ts |-> 1, category |-> pii], [id |-> 2, ts |-> 0, category |-> secret]}

MCBounds ==
    {[Still EXCEPT !.launchers = {"wrapper", "launchd"}, !.busy = {2},
                   !.files = {NoFiles, OldFiles}, !.certs = {Missing}],
     [Still EXCEPT !.files = {OldFiles}, !.stop = TRUE, !.tray = TRUE],
     [Still EXCEPT !.requests = 1, !.kinds = {pii}, !.feed = TRUE],
     [Still EXCEPT !.gateways = 1, !.requests = 2, !.kinds = {None, pii}, !.feed = TRUE],
     [Still EXCEPT !.gateways = 1, !.deaths = 0, !.requests = 1, !.kinds = {pii},
                   !.rows = OldRows, !.ticks = 2, !.view = TRUE]}
=============================================================================
