----------------------------- MODULE Dictionary -----------------------------
(***************************************************************************)
(* The persistent fake <-> original dictionary of src/src/dictionary.rs.   *)
(*                                                                         *)
(* Three stores hold the same mapping: MAP (fake -> original, read by the  *)
(* response side), REVERSE (original -> fake, read by the request side)    *)
(* and a SQLite table that survives restarts.  record_batch updates them   *)
(* one after the other, each under a lock of its own, so calls interleave  *)
(* between the three updates; reset_all holds the database lock while it   *)
(* empties them one after the other.  A crash may come between any two     *)
(* steps, and init then rebuilds both maps from the table.                 *)
(*                                                                         *)
(* Strings are members of Original and Fake.  The two sets may overlap: a  *)
(* fake that leaked into a file is detected like any other secret.         *)
(***************************************************************************)
EXTENDS Integers, Sequences

CONSTANTS
  Original,    \* strings detection can report
  Fake,        \* strings the generators can mint
  Pair,        \* the (fake, original) redactions callers can record
  Batch,       \* the redaction lists a single record_batch call can carry
  Caller,      \* threads that call into the module
  Resetter,    \* the callers that may call reset_all
  None,        \* no binding, no lock holder
  MaxClock,    \* bound on the wall clock, in seconds
  MaxResets    \* bound on the number of resets

ASSUME DictionaryAssumption ==
  /\ Pair \subseteq [fake : Fake, original : Original]
  /\ Batch \subseteq Seq(Pair) \ {<< >>}
  /\ Resetter \subseteq Caller
  /\ None \notin Original \cup Fake \cup Caller
  /\ None \notin [original : Original, created : Nat]
  /\ MaxClock \in Nat
  /\ MaxResets \in Nat

VARIABLES
  dict,      \* the process and its statics: "down", "unset" (init failed), "open"
  fwd,       \* MAP
  rev,       \* REVERSE
  rows,      \* the table, keyed by its primary key
  lock,      \* who holds the database mutex across steps
  pc,        \* where each caller is
  batch,     \* the redactions a caller is recording
  stamp,     \* the `now` a caller read when its record_batch began
  clock,     \* wall clock, in seconds
  resets,    \* number of resets so far
  owed,      \* history: pairs of completed record_batch calls, since the last reset
  overlap    \* history: the caller's record_batch overlapped a reset

maps   == <<fwd, rev>>
calls  == <<pc, batch, stamp>>
ghosts == <<owed, overlap>>
vars   == <<dict, fwd, rev, rows, lock, pc, batch, stamp, clock, resets, owed, overlap>>

Row == [original : Original, created : 0..MaxClock]

NoFwd  == [f \in Fake |-> None]
NoRev  == [o \in Original |-> None]
NoRows == [f \in Fake |-> None]

Recording == {"map", "rev", "db"}
Clearing  == {"clear_map", "clear_rev"}

TypeOK ==
  /\ dict \in {"down", "unset", "open"}
  /\ fwd \in [Fake -> Original \cup {None}]
  /\ rev \in [Original -> Fake \cup {None}]
  /\ rows \in [Fake -> Row \cup {None}]
  /\ lock \in Resetter \cup {None}
  /\ pc \in [Caller -> {"idle"} \cup Recording \cup Clearing]
  /\ batch \in [Caller -> Batch \cup {<< >>}]
  /\ stamp \in [Caller -> 0..MaxClock]
  /\ clock \in 0..MaxClock
  /\ resets \in 0..MaxResets
  /\ owed \subseteq Pair
  /\ overlap \in [Caller -> BOOLEAN]

Init ==
  /\ dict = "down"
  /\ fwd = NoFwd
  /\ rev = NoRev
  /\ rows = NoRows
  /\ lock = None
  /\ pc = [c \in Caller |-> "idle"]
  /\ batch = [c \in Caller |-> << >>]
  /\ stamp = [c \in Caller |-> 0]
  /\ clock = 0
  /\ resets = 0
  /\ owed = {}
  /\ overlap = [c \in Caller |-> FALSE]

-----------------------------------------------------------------------------
(***************************************************************************)
(* Starting up and going away.                                             *)
(***************************************************************************)

\* The fakes on disk that stand for o, and the oldest of them.  created_at is
\* in whole seconds and the query orders by nothing else, so fakes of the same
\* second come back in an order SQL leaves open.
FakesOf(o) == {f \in Fake : rows[f] # None /\ rows[f].original = o}
Oldest(o)  == {f \in FakesOf(o) : \A g \in FakesOf(o) : rows[f].created <= rows[g].created}

\* What the warm-up loop of init leaves in REVERSE: or_insert keeps the first
\* fake of each original in the order of the query.
Warmed(r) ==
  /\ r \in [Original -> Fake \cup {None}]
  /\ \A o \in Original : IF FakesOf(o) = {} THEN r[o] = None ELSE r[o] \in Oldest(o)

\* Variant: the warm-up fills only the reverse map.
OpenForgetsForward ==
  /\ dict = "down"
  /\ dict' = "open"
  /\ rev' \in [Original -> Fake \cup {None}] /\ Warmed(rev')
  /\ UNCHANGED <<fwd, rows, lock, calls, clock, resets, ghosts>>

\* init succeeds: both maps are loaded before the statics become visible.
Open ==
  /\ dict = "down"
  /\ dict' = "open"
  /\ fwd' = [f \in Fake |-> IF rows[f] = None THEN None ELSE rows[f].original]
  /\ rev' \in [Original -> Fake \cup {None}] /\ Warmed(rev')
  /\ UNCHANGED <<rows, lock, calls, clock, resets, ghosts>>

\* init fails: run_hudsucker logs it and serves with the statics unset, so that
\* every later call returns at once.
OpenFails ==
  /\ dict = "down"
  /\ dict' = "unset"
  /\ UNCHANGED <<maps, rows, lock, calls, clock, resets, ghosts>>

\* The process goes away, by a crash, ctrl-c or the parent watchdog.  An open
\* transaction is rolled back; committed rows stay.
Crash ==
  /\ dict # "down"
  /\ dict' = "down"
  /\ fwd' = NoFwd
  /\ rev' = NoRev
  /\ lock' = None
  /\ pc' = [c \in Caller |-> "idle"]
  /\ batch' = [c \in Caller |-> << >>]
  /\ overlap' = [c \in Caller |-> FALSE]
  /\ UNCHANGED <<rows, stamp, clock, resets, owed>>

Tick ==
  /\ clock < MaxClock
  /\ clock' = clock + 1
  /\ UNCHANGED <<dict, maps, rows, lock, calls, resets, ghosts>>

-----------------------------------------------------------------------------
(***************************************************************************)
(* record_batch                                                            *)
(***************************************************************************)

\* The first redaction of b, among the positions D, whose field `key` is k.
Matches(b, D, key, k)  == {i \in D : b[i][key] = k}
FirstOf(b, D, key, k) ==
  CHOOSE i \in Matches(b, D, key, k) : \A j \in Matches(b, D, key, k) : i <= j

\* Variants: insert(k, v), where the last writer wins; every key bound to the
\* value of the first redaction; the key stored as its own value.
InsertLast(m, b, key, val) ==
  [k \in DOMAIN m |->
     IF Matches(b, DOMAIN b, key, k) # {}
       THEN b[CHOOSE i \in Matches(b, DOMAIN b, key, k) :
                 \A j \in Matches(b, DOMAIN b, key, k) : i >= j][val]
       ELSE m[k]]
OrInsertHead(m, b, key, val) ==
  [k \in DOMAIN m |->
     IF m[k] = None /\ Matches(b, DOMAIN b, key, k) # {} THEN b[1][val] ELSE m[k]]
OrInsertKey(m, b, key, val) ==
  [k \in DOMAIN m |->
     IF m[k] = None /\ Matches(b, DOMAIN b, key, k) # {} THEN k ELSE m[k]]

\* entry(k).or_insert(v) for every redaction of b in turn: an existing binding
\* wins over the batch, and an earlier redaction over a later one.
OrInsert(m, b, key, val) ==
  [k \in DOMAIN m |->
     IF m[k] = None /\ Matches(b, DOMAIN b, key, k) # {}
       THEN b[FirstOf(b, DOMAIN b, key, k)][val]
       ELSE m[k]]

\* The call: the time is read before any lock is taken.  With an empty list or
\* the statics unset the call returns without a trace.
RecordBatch(c, b) ==
  /\ dict = "open"
  /\ pc[c] = "idle"
  /\ b \in Batch
  /\ pc' = [pc EXCEPT ![c] = "map"]
  /\ batch' = [batch EXCEPT ![c] = b]
  /\ stamp' = [stamp EXCEPT ![c] = clock]
  /\ overlap' = [overlap EXCEPT ![c] = (lock # None)]
  /\ UNCHANGED <<dict, maps, rows, lock, clock, resets, owed>>

\* Variant: only the first redaction of the list reaches MAP.
RecordMapHead(c) ==
  /\ pc[c] = "map"
  /\ fwd' = OrInsert(fwd, <<Head(batch[c])>>, "fake", "original")
  /\ pc' = [pc EXCEPT ![c] = "rev"]
  /\ UNCHANGED <<dict, rev, rows, lock, batch, stamp, clock, resets, ghosts>>

\* MAP.write(): memory first.
RecordMap(c) ==
  /\ pc[c] = "map"
  /\ fwd' = OrInsert(fwd, batch[c], "fake", "original")
  /\ pc' = [pc EXCEPT ![c] = "rev"]
  /\ UNCHANGED <<dict, rev, rows, lock, batch, stamp, clock, resets, ghosts>>

\* REVERSE.write()
RecordRev(c) ==
  /\ pc[c] = "rev"
  /\ rev' = OrInsert(rev, batch[c], "original", "fake")
  /\ pc' = [pc EXCEPT ![c] = "db"]
  /\ UNCHANGED <<dict, fwd, rows, lock, batch, stamp, clock, resets, ghosts>>

\* INSERT of the redactions of b at positions `saved`, at time t.  ON CONFLICT
\* (fake) touches only updated_at, which nothing reads: the row stays.
Inserted(b, saved, t) ==
  [f \in Fake |->
     IF rows[f] = None /\ Matches(b, saved, "fake", f) # {}
       THEN [original |-> b[FirstOf(b, saved, "fake", f)].original, created |-> t]
       ELSE rows[f]]

\* Variant: the insert does not take the database mutex.
RecordDbUnlocked(c) ==
  /\ pc[c] = "db"
  /\ rows' = Inserted(batch[c], DOMAIN batch[c], stamp[c])
  /\ pc' = [pc EXCEPT ![c] = "idle"]
  /\ batch' = [batch EXCEPT ![c] = << >>]
  /\ overlap' = [overlap EXCEPT ![c] = FALSE]
  /\ UNCHANGED <<dict, maps, lock, stamp, clock, resets, owed>>

\* The transaction, which the database mutex makes one step.  Each INSERT may
\* fail on its own (logged and skipped); `saved` are those that did not, and it
\* is empty when the transaction cannot begin or commit.
RecordDb(c) ==
  /\ pc[c] = "db"
  /\ lock = None
  /\ \E saved \in SUBSET DOMAIN batch[c] :
       /\ rows' = Inserted(batch[c], saved, stamp[c])
       /\ owed' = IF overlap[c] THEN owed ELSE owed \cup {batch[c][i] : i \in saved}
  /\ pc' = [pc EXCEPT ![c] = "idle"]
  /\ batch' = [batch EXCEPT ![c] = << >>]
  /\ overlap' = [overlap EXCEPT ![c] = FALSE]
  /\ UNCHANGED <<dict, maps, lock, stamp, clock, resets>>

-----------------------------------------------------------------------------
(***************************************************************************)
(* reset_all.  A DELETE that fails returns 0 and changes nothing.          *)
(***************************************************************************)

ResetAll(c) ==
  /\ c \in Resetter
  /\ dict = "open"
  /\ pc[c] = "idle"
  /\ lock = None
  /\ resets < MaxResets
  /\ rows' = NoRows
  /\ lock' = c
  /\ pc' = [pc EXCEPT ![c] = "clear_map"]
  /\ resets' = resets + 1
  /\ owed' = {}
  /\ overlap' = [d \in Caller |-> pc[d] \in Recording]
  /\ UNCHANGED <<dict, maps, batch, stamp, clock>>

ClearMap(c) ==
  /\ pc[c] = "clear_map"
  /\ fwd' = NoFwd
  /\ pc' = [pc EXCEPT ![c] = "clear_rev"]
  /\ UNCHANGED <<dict, rev, rows, lock, batch, stamp, clock, resets, ghosts>>

\* Variant: the guard outlives the call.
ClearRevKeepsLock(c) ==
  /\ pc[c] = "clear_rev"
  /\ rev' = NoRev
  /\ pc' = [pc EXCEPT ![c] = "idle"]
  /\ UNCHANGED <<dict, fwd, rows, lock, batch, stamp, clock, resets, ghosts>>

\* The last clear, after which the guard of the database mutex is dropped.
ClearRev(c) ==
  /\ pc[c] = "clear_rev"
  /\ rev' = NoRev
  /\ lock' = None
  /\ pc' = [pc EXCEPT ![c] = "idle"]
  /\ UNCHANGED <<dict, fwd, rows, batch, stamp, clock, resets, ghosts>>

-----------------------------------------------------------------------------

Running(c) == RecordMap(c) \/ RecordRev(c) \/ RecordDb(c) \/ ClearMap(c) \/ ClearRev(c)

Next ==
  \/ Open
  \/ OpenFails
  \/ Crash
  \/ Tick
  \/ \E c \in Caller, b \in Batch : RecordBatch(c, b)
  \/ \E c \in Caller : RecordMap(c)
  \/ \E c \in Caller : RecordRev(c)
  \/ \E c \in Caller : RecordDb(c)
  \/ \E c \in Resetter : ResetAll(c)
  \/ \E c \in Caller : ClearMap(c)
  \/ \E c \in Caller : ClearRev(c)

\* A thread inside a call is scheduled until it returns.  Nothing makes a
\* client call, the process start or stop, or time pass.
Fairness == \A c \in Caller : WF_vars(Running(c))

Spec == Init /\ [][Next]_vars

FairSpec == Spec /\ Fairness

-----------------------------------------------------------------------------
(***************************************************************************)
(* Properties                                                              *)
(***************************************************************************)

\* The random draws never gave one fake to two originals, which is what the
\* comment at dictionary.rs:115-118 takes for granted.
UniqueFakes == \A p, q \in Pair : p.fake = q.fake => p.original = q.original

\* A record_batch call that returned, whose inserts went through and that no
\* reset overlapped, is a promise: until the next reset its fakes are on disk,
\* and in memory whenever the dictionary is open, across any number of crashes
\* and whatever other calls run meanwhile.
CompletedIsDurable ==
  \A p \in owed :
    /\ rows[p.fake] # None
    /\ dict = "open" => fwd[p.fake] # None

\* When no two originals share a fake, each such fake leads back to its own
\* original, on disk and in memory.
CompletedIsExact ==
  UniqueFakes =>
    \A p \in owed :
      /\ rows[p.fake].original = p.original
      /\ dict = "open" => fwd[p.fake] = p.original

\* While reset_all clears memory, the table it emptied stays empty: no
\* record_batch slips a row in between the DELETE and the two clears, and
\* nothing completed is owed.
ResetHoldsTheDisk ==
  lock # None => rows = NoRows /\ owed = {}

\* dictionary.rs:134-135: "readers see new mappings before the disk write
\* commits".  Until the first reset a fake on disk is visible in memory too.  (A
\* reset that runs between a caller's MAP and database updates leaves a row that
\* memory lacks until the next restart.)
MemoryBeforeDisk ==
  dict = "open" /\ resets = 0 =>
    \A f \in Fake : rows[f] # None => fwd[f] # None

\* A canonical fake handed to a request is one that a response can restore: MAP
\* is written before REVERSE, and until a reset neither loses a binding.
CanonicalRoundTrips ==
  resets = 0 =>
    \A o \in Original :
      rev[o] # None =>
        /\ fwd[rev[o]] # None
        /\ UniqueFakes => fwd[rev[o]] = o

\* Each store binds a key once and forgets only wholesale, through every
\* interleaving of record_batch, reset_all, crash and restart.
ForwardMap == INSTANCE WriteOnceStore WITH Key <- Fake, Value <- Original, store <- fwd
ReverseMap == INSTANCE WriteOnceStore WITH Key <- Original, Value <- Fake, store <- rev
Table      == INSTANCE WriteOnceStore WITH Key <- Fake, Value <- Row, store <- rows

StoresAreWriteOnce == ForwardMap!Spec /\ ReverseMap!Spec /\ Table!Spec

\* A call that got past its early returns comes back: the database mutex is
\* always released and nobody waits for it for ever.
CallsReturn == \A c \in Caller : pc[c] # "idle" ~> pc[c] = "idle"

=============================================================================
