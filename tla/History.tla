------------------------------- MODULE History -------------------------------
(***************************************************************************)
(* The redaction history, src/src/stats/mod.rs, and the drill-down of the  *)
(* dashboard that pages through it, apps/menu-bar/ui/app.js.               *)
(*                                                                         *)
(* A row is the two rows of one redaction; they are inserted and deleted   *)
(* in one transaction.  The time of a row is taken before the mutex, so    *)
(* the order of the times is not that of the ids.  A page is asked for     *)
(* with the filter and the cursor of that moment and is appended when it   *)
(* arrives, whatever the view shows by then.                               *)
(***************************************************************************)
EXTENDS Naturals, SequencesExt, FiniteSetsExt

CONSTANTS
    Categories,  \* categories of rules
    PageSize,    \* `limit' of a page (200 in the dashboard, at most 1000)
    None         \* no cursor, no filter

ASSUME HistoryAssumption ==
    /\ PageSize \in Nat \ {0}
    /\ None \notin Categories
    /\ None \notin [ts : Nat, id : Nat]

VARIABLES
    rows,      \* the table redactions with redaction_entries
    next_id,   \* AUTOINCREMENT: never goes back
    clock,     \* the seconds of the system time
    view,      \* the drill-down
    replies    \* pages on their way to the view

historyVars == <<rows, next_id, clock, view, replies>>

-----------------------------------------------------------------------------
(* stats *)

\* Newest first: by time and then by id.
Newer(q, r) == q.ts > r.ts \/ (q.ts = r.ts /\ q.id > r.id)

\* Variant: the next page is older by the time alone.
OlderByTime(r, cursor) == cursor = None \/ r.ts < cursor.ts

\* Strictly older than the cursor, the last row of the page before.
Older(r, cursor) == cursor = None \/ Newer(cursor, r)

Matches(r, filter) == filter = None \/ r.category = filter

\* ORDER BY ts DESC, id DESC.
Sorted(found) ==
    CHOOSE s \in SetToSeqs(found) : \A i, j \in DOMAIN s : i < j => Newer(s[i], s[j])

\* query_redactions: a page, and the cursor of the next one unless it is short.
query_redactions(filter, cursor) ==
    LET found == Sorted({r \in rows : Matches(r, filter) /\ Older(r, cursor)})
        page  == SubSeq(found, 1, Min({PageSize, Len(found)}))
    IN [rows |-> page,
        cursor |-> IF Len(page) < PageSize THEN None
                   ELSE [ts |-> Last(page).ts, id |-> Last(page).id]]

\* record_redactions: one transaction under the mutex.
Record(ts, category) ==
    /\ rows' = rows \cup {[id |-> next_id, ts |-> ts, category |-> category]}
    /\ next_id' = next_id + 1
    /\ UNCHANGED <<clock, view, replies>>

\* reset_all
ResetHistory ==
    /\ rows' = {}
    /\ UNCHANGED <<next_id, clock, view, replies>>

Tick == /\ clock' = clock + 1
        /\ UNCHANGED <<rows, next_id, view, replies>>

-----------------------------------------------------------------------------
(* The drill-down *)

\* first is loadedFirstPage.  Of history: start, the rows there were when the
\* first page was asked for, and spoilt, whether the filter has changed while a
\* page was on its way or a query has failed.
EmptyView(filter, spoilt) ==
    [filter |-> filter, shown |-> <<>>, cursor |-> None, first |-> FALSE,
     loading |-> FALSE, start |-> {}, spoilt |-> spoilt]

\* The history outlives the processes: it may hold rows of earlier sessions.
HistoryInit(earlier) ==
    /\ rows = earlier
    /\ next_id = 1 + Cardinality(earlier)
    /\ clock = Max({0} \cup {r.ts : r \in earlier})
    /\ view = EmptyView(None, FALSE)
    /\ replies = {}

\* loadDrilldownPage up to its await.  The gateway answers from the rows there
\* are then; if the database fails, with an empty last page.
Ask(v) ==
    \E failed \in BOOLEAN :
        /\ replies' = replies \cup
               {IF failed THEN [rows |-> <<>>, cursor |-> None]
                ELSE query_redactions(v.filter, v.cursor)}
        /\ view' = [v EXCEPT !.loading = TRUE, !.spoilt = @ \/ failed,
                             !.start = IF v.first THEN @ ELSE rows]

LoadPage ==
    /\ ~view.loading
    /\ ~(view.first /\ view.cursor = None)
    /\ Ask(view)
    /\ UNCHANGED <<rows, next_id, clock>>

\* openDrilldown forgets a load that is under way and starts one of its own;
\* _resetAndReload starts one if there is none.
Refilter(filter) ==
    /\ LET new == EmptyView(filter, replies # {}) IN
       \/ Ask(new)
       \/ view.loading /\ view' = [new EXCEPT !.loading = TRUE] /\ UNCHANGED replies
    /\ UNCHANGED <<rows, next_id, clock>>

\* ... and behind it.
PageArrives ==
    /\ \E page \in replies :
          /\ view' = [view EXCEPT !.shown = @ \o page.rows, !.cursor = page.cursor,
                                  !.first = TRUE, !.loading = FALSE]
          /\ replies' = replies \ {page}
    /\ UNCHANGED <<rows, next_id, clock>>

\* The request fails: the page can be asked for again.
PageFails ==
    /\ \E page \in replies : replies' = replies \ {page}
    /\ view' = [view EXCEPT !.loading = FALSE]
    /\ UNCHANGED <<rows, next_id, clock>>

-----------------------------------------------------------------------------
(* Properties *)

HistoryTypeOK ==
    LET Row == [id : 1 .. next_id - 1, ts : 0 .. clock, category : Categories] IN
    /\ next_id \in Nat \ {0} /\ clock \in Nat
    /\ rows \subseteq Row
    /\ view.shown \in Seq(Row)
    /\ view.filter \in Categories \cup {None}
    /\ {view.loading, view.first, view.spoilt} \subseteq BOOLEAN
    /\ \A page \in replies : page.rows \in Seq(Row)

\* However redactions are recorded while somebody scrolls, with times that may
\* run behind the order of the ids: a drill-down whose filter has not changed
\* under a load, and for which no query has failed, shows rows of its filter
\* only, newest first and none twice, and when it is at its end every row that
\* was there when it was opened and has not been wiped since.
\* (stats/mod.rs:344-470, app.js:910-939.  A filter changed under a load gets
\* rows of the old filter: nothing in app.js tells a late page apart.)
PagesAreExact ==
    ~view.spoilt =>
        /\ \A i, j \in DOMAIN view.shown : i < j => Newer(view.shown[i], view.shown[j])
        /\ \A i \in DOMAIN view.shown : Matches(view.shown[i], view.filter)
        /\ view.first /\ view.cursor = None =>
              {r \in view.start \cap rows : Matches(r, view.filter)} \subseteq ToSet(view.shown)
=============================================================================
