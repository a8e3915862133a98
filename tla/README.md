# A TLA+ model of bleep-gateway

bleep-gateway is a local proxy between a coding assistant and `*.anthropic.com`. It replaces the secrets
it detects in a request body by fakes before the body leaves the machine, and puts the originals back into
the reply. This directory models the program from the rule files to what the user sees: the pipeline that
builds the rules, detection and the fakes it is answered with, the dictionary of fakes and originals, the
handlers that use it, the streaming body that restores a reply while it flows through, the processes that
serve all this and are started by three launchers, and the menu bar's view of them. TLC checks the models on
small instances; TLAPS proves the safety properties of detection, the dictionary, the handlers and their
replies, the streaming body, the processes, the event feed, the history, and the rule pipeline with the fakes
for every value of the constants.

Paths below are relative to the repository. `PROJECT.json` lists components, runs, mutants, hazards and
theorems, and maps every definition to the source lines it models.

## 1. Inventory

### The parts that carry the logic

| part | state | operations | talks to |
|---|---|---|---|
| dictionary (`src/dictionary.rs`) | statics `DB` (SQLite behind a mutex), `MAP` fake→original and `REVERSE` original→fake (each behind a read-write lock), the table on disk | `init`, `lookup_by_original`, `record_batch`, `snapshot_pairs`, `reset_all` | called by handlers, replacement and the statistics server |
| handler (`src/hudsucker.rs`) | a clone per request: `pending_redactions`, `pending_request_id` | `handle_request`, `handle_response`; start-up and the parent watchdog | content router, dictionary, statistics, event bus, audit log |
| replacement (`src/replacement/`) | a dedup map per body or per field | `apply_with_dedup`, `json_replace`, `deanonymize`, the generators | dictionary (look-up) |
| content router (`src/content_router/`) | none across calls; an event-frame parser with a buffer | `process_body`, `deanonymize_body_with_dictionary`, one handler per content type | detection, replacement |
| streaming deanonymizer (`src/streaming_deanon.rs`) | `pending` bytes, `inner_done`, `flushed`, the map and the length of its longest fake | `new`, `poll_frame` | polled by hyper; polls the upstream body; the waker |
| detection (`src/detection/mod.rs`) | compiled rules | `scan`, `scan_field` with overlap resolution | rules |
| event bus (`src/event_bus.rs`) | a broadcast ring of 1000 events, a receiver per client; a port file | `emit`, `start_tcp_server`, `handle_client` | handlers; terminal and menu-bar clients |
| history (`src/stats/mod.rs`, `src/stats_server.rs`) | a SQLite file behind a mutex, a port file, the `disabled` flag file | record, reset, pages with a cursor; HTTP routes | handlers, menu bar |
| gateway process (`src/hudsucker.rs`, `src/ca.rs`) | two server tasks, the proxy port, the certificate files | `run_hudsucker`, `ensure_ca`, the parent watchdog | the operating system, launchers |
| menu bar (`apps/menu-bar`) | child process, tray, `statsPort` and the drill-down of the page | probe, spawn, recover the port file, poll, forward events, page through the history | gateway process, event bus, history |
| wrapper and launch agent (`claude-wrapper.sh`, `Taskfile.yml`) | none | check, evict, start, stop | gateway process, port files |
| rule pipeline (`src/rule_pipeline.rs`, `build-rules`, `curate-rules`) | files under `rules/` | `run` from the vendor files to `combined.yaml`, the curated subset | compiled into the gateway |
| rules of a gateway (`src/types/rule.rs`, the `LazyLock`s) | the parsed and the compiled rules | load once, or panic | detection |

The remaining parts (performance spans, terminal dashboard, legacy proxy, benchmark) keep no state the others
depend on; `PROJECT.json` gives the reason for each.

### What is hard about it

* Handlers run concurrently and share the dictionary. `record_batch` updates MAP, REVERSE and the table one
  after the other, each under its own lock; the look-up of a canonical fake and its recording are
  separate; `reset_all` holds one lock while it takes the two others.
* The process may end anywhere (ctrl-c, the watchdog's `exit(0)`, a crash); `init` rebuilds both maps from
  what was committed. `init` may fail, and the proxy then serves without a dictionary.
* A reply is restored from a snapshot taken when it arrives, by substitutions applied one after the other,
  two different algorithms for buffered and streamed bodies, and, for dictionary entries, in hash order.
* The streaming body is cut into frames anywhere, must hold back just enough, substitutes again over bytes
  it has restored already, and returns `Pending` in places where only its own call of the waker keeps it
  alive.

* Two servers start in tasks of their own while the process still looks for its certificate and its proxy
  port, so the port files of a process that loses the port are already written. Three launchers look for a
  running gateway in three ways (one does not look) and start one later. The port files and the certificate
  files outlive the process, cut off if it dies while writing.
* The ring runs over slow receivers; events without a client are lost; what a dead process has written to a
  socket is still read after its death.
* Redactions get their time before the mutex and their id under it, so the history's order is not that of its
  ids, and rows come in while somebody pages through it.
* Four sources of rules in three hand-parsed formats are merged under one key, with a vendor's mistakes in them;
  a build writes several files, one after the other, and the gateway trusts the last.

### What makes each part correct

* Dictionary: a completed recording is durable and exact; a key is bound once; memory is ahead of disk;
  a canonical fake can be restored; nobody waits for ever.
* Handlers: one fake per secret in a body; nothing is sent upstream that cannot be restored; replies restore
  their own fakes and those of earlier sessions; every request gets through.
* Streaming: the client reads what the buffered path would have produced, early, and to the end.
* Detection: nothing that was found is left in the body, and what was not found stays.
* Rules: the strongest source wins an id; a parsed file has the rules that are written in it; a rule's literal
  prefix heads whatever it matches; what a build lets pass, a gateway can load.
* Fakes: nothing of the secret is in them, the rule's prefix is, and check digits hold.
* Processes: one that is alone is found through its port files and signs with the certificate on disk; tray
  and forwarder come back to a gateway.
* Bus and history: the live tail is in order, without repetition and never ahead of the audit log; pages show
  every row once and none is skipped.

## 2. The modules

```
WriteOnceStore      a map that binds a key once and forgets only wholesale
  ^ implemented by
Dictionary          MAP, REVERSE, the table; record_batch, reset_all, init, crash
  ^ EXTENDS                                    ^ EXTENDS
Gateway             requests and replies       Dictionary_proofs
  ^ EXTENDS                                    ^ EXTENDS
MCGateway           instances                  Gateway_proofs

Substitution        exact-string replacement over sequences of letters
  ^ EXTENDS                                    ^ EXTENDS
BodyRestoration     what restoring a body      Substitution_proofs
  ^ implemented by  promises                   (the other _proofs of bodies and sequences use it too)
StreamingDeanon     poll_frame, frames,        ^ EXTENDS (both)
                    the waker                  StreamingDeanon_proofs

Detection           scan_inner and the splice of one text
  ^ EXTENDS
Detection_proofs

RuleTaxonomy        ids and names to categories, replacements, severities
  ^ EXTENDS                    VendorFiles  the line parsers
LiteralPrefix       the literal head of a regex
  ^ EXTENDS (all three)
RulePipeline        run and curate-rules, a step at a time
  ^ EXTENDS                    FakeValues   the generators
RuleToFake          a gateway that loads the rules and replaces by them
  ^ EXTENDS                    ^ EXTENDS
MCRuleToFake        small      RuleToFake_proofs
                    vendor files

GatewayProcess      processes, ports, port files, certificates, launchers
  ^ EXTENDS                    ^ EXTENDS
Desktop             + History  GatewayProcess_proofs
  ^ EXTENDS                    ^ EXTENDS
MCDesktop           five       Desktop_proofs
                    desktops
```

### Dictionary

One variable per store: `fwd` is MAP, `rev` REVERSE, `rows` the table (an original and a creation second per
fake), `lock` the holder of the database mutex across steps, `dict` whether the process is down, runs
without the statics (`init` failed) or with them. A caller inside `record_batch` goes through
`RecordBatch` (early returns, reading the time), `RecordMap`, `RecordRev`, `RecordDb`; one inside
`reset_all` through `ResetAll`, `ClearMap`, `ClearRev`. Each is the code between two points where another
thread can come in, that is one critical section. A recorder that waits for the mutex is a caller at
`pc = "db"` whose `RecordDb` is not enabled. `RecordDb` picks the set `saved` of inserts that succeed:
everything, some (a failing `INSERT` is logged and skipped), or nothing (the transaction cannot begin or
commit). `Crash` drops everything but committed rows; `Open` rebuilds both maps, choosing for each original
one of its oldest fakes, since `ORDER BY created_at` leaves fakes of the same second in any order.

`or_insert` over a list is `OrInsert`: existing bindings win over the list, earlier entries over later ones.

Two history variables serve the properties: `owed`, the pairs of recordings that returned, whose insert
succeeded and that no reset overlapped, and `overlap`, whether a reset ran during a caller's recording.

### Gateway

Adds the handlers, one `Request` per clone. `Receive` collects and routes a body, `Replace` handles one match
(the look-up takes REVERSE's lock for that match only, so others come in between two matches), `Persist`
stashes the redactions and calls `record_batch`, `Forward` is the return and the hand-over to the upstream,
`Answer` is the response's arrival with the snapshot of MAP, `Finish` the end of the response. `InDictionary`
lets the dictionary work meanwhile, `Down` ends the process with all that is in flight.

A body is the list of secrets detection reports, in the order they are replaced, and one of three
routes: `whole` (JSON, plain text: one dedup map), `fields` (form values, multipart parts, event frames: a
map each; every field has one match in the model) or `opaque` (signed, undecodable, binary, or nothing
found: forwarded as it is). A client can
only send a fake that has been sent to the upstream before, in this session or an earlier one (`Leaked`).
What a reply may look like is an operator, `Results(r, x)`: the set of what the client may read
where the model wrote `x`, one element for each order a `HashMap` may iterate in.

Fakes are whole tokens here; that one fake may be part of another is StreamingDeanon's business.

### Substitution, BodyRestoration, StreamingDeanon

Bodies and fakes are sequences of letters. `Replaced` is the left-to-right replacement the source writes
three times. `BodyRestoration` says what both paths promise: at any time the client has a prefix of the
restored body, all of it at the end, nothing wrong after an error. `StreamingDeanon` is the `Body` impl: a
task that hyper polls while it is `woken`; the inner body holds at most `MaxQueued` frames and wakes the
task when one arrives; each branch of `poll_frame` is an action. `Opening` and `Closing` are the framing an
event puts around its text; with both empty the model is about bytes alone.

### Detection

One text on its way through `scan_inner` and `apply_with_dedup`, a loop iteration per step. A match is a rule and
a span of byte offsets; the rules are numbered in the order of `RULES`, which is what decides between equal spans
(`sort_by` is stable). `Yields(r)` is what a regular expression and its filters may report: any spans that do
not overlap. The sorted vectors are sets here, and the order is in which member a step takes: `Resolve` the
first under `Before`, `Skip`, `Splice` and `Panic` the `Rightmost`. The text is a sequence of cells that
remember where they came from, a byte of the text or a byte of a match's fake, so that "this byte has leaked"
and "this fake is whole" can be said. `Panic` is the range check of `Vec::splice`; the request then fails.

### RuleTaxonomy, VendorFiles, LiteralPrefix, RulePipeline

The pure parts of `src/rule_pipeline.rs` are operators and recursive functions over small data. An id is the
sequence of its dot-separated parts and a regex the sequence of its tokens, since that is as far as the code
looks into either. `VendorFiles` folds the two line parsers over a file; a line has the key its
first characters show, and a flag `text` that only the reference definition `WrittenRules` may read: whether a
YAML parser would take the line for text. `extract_literal_prefix` follows the source's scan over the tokens;
`Words` is the reference, the finite set of heads of what a pattern matches.

That scan counts parentheses and ends with the regex if a group is not closed (`Closings`); such a group is taken
for one with an alternation (`HasPipe`). The section "What the input files may hold" states the shape of the inputs
(`SnapshotsAssumption`).

`RulePipeline` is `run`, one action per step of it (load, fixtures, merge, prefixes, limit, validation, write)
over `work`, what the build has in memory. A step that panics ends the build as "failed", and so does `Killed`;
a write that is killed leaves its file `Torn`. `Curate` is the other program. The input files (`Inputs`) change between
builds only, which is also when a gateway is looked at.

### FakeValues, RuleToFake

`generate` is the set of fakes a generator may return. A fake says of each of its characters where it comes
from: from the match, from the code (a fixed word), or drawn (`Fresh`). Only where check digits are computed
are the draws digits. A connection string is a record of what the classification tests look at, with its keyed
fields; parsing one is a library's and `parses` says how it ended.

`RuleToFake` compiles what the build has left into a gateway (`Compile`), starts one with the embedded rules or
with the file that `BLEEP_RULES_FILE` names (`StartGateway`; `loaded` is what the first use of the `LazyLock`
gave, the rules or a panic), and lets one match of any loaded rule be replaced (`Redact`).

### GatewayProcess

`main` is where `run_hudsucker` of each process is, `task` and `port` the two servers that run beside it,
`file` the two port files, `cert` and `key` the certificate files, each with the process that wrote it. Between
`Probe` and `Spawn` of a launcher anything may happen; `Evict` is the wrapper's kill of whoever holds the
proxy port. `Exit` is what the end of a process does to the rest: its ports are free again, the files stay.
`alone` is history: a process loses it when another one runs at the same time.

### History

`rows` is the table. A row has the id SQLite gives it and the second that was read before the mutex.
`query_redactions` is the page query; `Sorted` says what `ORDER BY` promises, an order of the rows that
descends, rather than how SQLite finds it. The page's side is `view`: a load asks with the filter and the cursor of
that moment (`Ask`), and what arrives is appended, whatever the view shows by then. `spoilt` is history: the
filter was changed under a load, or a query failed, which the page cannot tell from the end of the list.

### Desktop

Composes the two. A request walks through its handler (`WriteAudit`, `Stamp`, `Store`, `Emit`, `Respond`) in
a process that must live on; `bus` has all the events of a process, of which `Oldest` and later are in the ring.
`feed` is the forwarder's one connection with its receiver, `socket` what is written and not read, `tail` what
the dashboard got. The other end of the menu bar is `Poll` (the tray), `GetStatsPort` and `Browse` (the page).
Every action of `GatewayProcess` is an action here with the rest left alone, and `GetStatsPort` may be
`RecoverFile`. `bound` chooses, at the start of a behaviour, how much may happen and which parts run.

## 3. The runs

| run | module, cfg | what it shows |
|---|---|---|
| `dictionary` | MCDictionary | the properties of the dictionary, the three stores as write-once stores, and that calls return |
| `gateway` | MCGateway | one fake per secret in a body, nothing forwarded that cannot be restored, replies restored |
| `gateway_progress` | MCGateway, `MCGatewayProgress.cfg` | no request is held back for ever |
| `gateway_two_fakes` | MCGateway, `MCGatewayTwoFakes.cfg` | violation: two fakes for one secret |
| `gateway_leaked_fake` | MCGateway, `MCGatewayLeakedFake.cfg` | violation: a known fake reaches the user |
| `streaming` | MCStreamingDeanon | streamed equals buffered; little is held back; the stream ends |
| `streaming_sse` | MCStreamingDeanon, `MCStreamingSse.cfg` | violation: a fake split over events is not restored |
| `detection` | MCDetection | maximal matches are kept, nothing found is left, disjoint spans are spliced exactly |
| `detection_overlap` | MCDetection, `MCDetectionOverlap.cfg` | violation: redactions that overlap |
| `rule_to_fake` | MCRuleToFake | merge, parsers, prefixes, limit, load and fakes, from the vendor files to the body |
| `rule_exclusion` | MCRuleToFake, `MCRuleToFakeExclude.cfg` | violation: a custom rule's exclusion is lost |
| `desktop` | MCDesktop | processes are found, the tail and the pages are faithful, tray and forwarder come back |

**Bounds.** `dictionary`: two callers, one of which may reset, three fakes for two secrets, lists of one and
two redactions, one reset, two values of the clock, any number of crashes, failed starts and recordings. Two
callers give every interleaving of two recordings and of a recording with a reset; two fakes for a secret
give two canonical candidates, in the same second and in different ones.
`gateway`: two requests and an administrator, three kinds of body (a secret twice, two secrets in separate
fields, nothing), one reset, any number of requests and crashes; the clock stands still, which keeps every
tie of `Oldest` possible. Requests are interchangeable, and the safety run uses that symmetry.
`gateway_progress` has one secret and lets the clock tick.
`streaming`: texts up to five letters over three, in pieces of one or two, fakes of two and three letters,
originals shorter and longer than their fakes, no rule up to one redaction and one dictionary entry (for the
same fake or another). Five letters hold a fake that starts and ends inside the text with a cut at
every place, and two fakes side by side. A stream ends, so the two streaming runs do not check deadlock.
`detection`: five bytes, three rules of which the second is passthrough, up to four matches, fakes of one and
three bytes. Four matches give chains of partial overlaps with a nested match and a shielding one between them;
spans of one to five bytes are shorter and longer than both fakes, and a splice behind the end happens. A text
ends, so the two runs do not check deadlock.
`rule_to_fake`: two builds with any of six states of the input files between them (as they are; no custom
rules and other exclusions; a category, a confidence and a regex that are wrong; a custom file that does not
parse), each without a limit, with 0 and with 6; every kind of line of a vendor file; names that collide, a
vendor id in two sources, a phantom rule in an example. Two builds are what it takes for files of two builds to
lie side by side. One redaction at a time, with a match of every shape the generators tell apart. The assumption
`ExtractionIsSound` compares the prefix extraction with `Words` for all patterns of up to five tokens over
eight. Builds are bounded, so the runs do not check deadlock. `rule_exclusion` has one build.
`desktop`: five desktops, one of which a behaviour starts with. Two processes and the wrapper with launchd (a
first start without certificate, port files of an earlier session or none, a port that is taken); two processes
and the menu bar, with `gateway:stop` removing files under it; a gateway replaced under the forwarder; two
requests at once with a ring of one and a socket of one, so that a receiver lags after a single event; and
somebody who pages, one row at a time, through rows of earlier sessions (equal times, and times against the ids)
while the clock ticks and a request adds a row. Two processes are the fewest that meet; ports and rings larger
than one or two add only repetition. Processes are finite in number, so the run does not check deadlock.

**Fairness.** `FairSpec` of Dictionary: a thread inside a call is scheduled until the call returns (no lock is
held by anyone who is not itself inside a call, and the locks are the operating system's). `FairGatewaySpec`:
the runtime polls a handler that can go on. `FairSpec` of StreamingDeanon: a woken task is polled, which is
hyper's contract; nothing is assumed of a task nobody woke. `Fairness` of Desktop: a process that has been
started gets on with `run_hudsucker`, the task that serves a connection is scheduled, and the loops of the menu
bar (forwarder, poller, the page's timer) go round. Nothing says that a launcher runs, a request comes, a
handler finishes or a user acts. Clients, the upstream, the clock, the
administrator and the process's end are never forced.

### Findings

* `OneFakePerSecret` (`src/dictionary.rs:51-52`, `README.md:94`): a secret has one fake for ever. Two requests
  that both look it up before either has recorded it draw two. Both fakes remain restorable.
* `NoKnownFakeShown` (`src/dictionary.rs:10-19`): a fake the dictionary knows does not come back to the user.
  A body with a secret and its leaked fake is answered with the fake visible: the substitutions are applied
  one after the other, and the dictionary pass skips fakes of the request.
* `TextRestored` (`src/streaming_deanon.rs:1-14`): a fake split over several events is restored. The window
  holds raw bytes, and the framing between two events separates the pieces.
* `NoRedactionsOverlap` (`docs/arch/REPLACEMENT-PIPELINE.md:253`): the spans of redactions do not overlap. The
  resolution drops nested matches only. With the shipped rules, an IBAN in groups of four and a card number
  behind it overlap partially. The left splice then cuts the fake on the right, eats bytes behind it, or
  panics. What was found still does not get out (`NoFoundByteSurvives`).

* `CustomExclusionKept` (`src/types/rule.rs:106-111`): the `exclude_regex` of a rule in `custom.yaml` excludes.
  The pipeline's own rule type has no such field: the build drops it, and the filter of detection never runs.

**Observed while reading**, and modelled as the code has it, without a run that claims otherwise:

* Pipeline: `parse_np_file` takes `name: Prince` in an example for the name of `np.mongodb.1`, and makes rules of
  `- name:` lines in examples, which are dropped because they have no id; example lines after a text line with a
  colon are lost. `VendorFilesReadAsWritten` holds for files that are `Plain`: no `id:` or `pattern:` line in a
  text, none and no start of a rule in a pattern's block, no line of a text that looks like the start of a rule
  before the id and the pattern of its own rule, and no rule with two ids or two patterns.
  The taxonomy asks for `np.mongo.` where the vendor writes `np.mongodb.`. A pipe outside all groups
  (`foo|bar`) gives the prefix `foo`, against the promise never to produce a wrong one; harmless, because
  `with_literal_prefix` looks at the match. `--limit 0` gives one rule. A confidence or checksum name in a
  hand-written file is not checked by the build; the gateway then panics at the first use of the rules.
* Generators: `jdbc:` strings with `://` always take the URL branch, so that the case its comment speaks of
  (`replacers.rs:781`) is not reached; `fake_url_cred` leaves credentials in the query alone.
* Processes: at login launchd and the menu bar may both start a gateway; the loser of the proxy port has
  already overwritten both port files. Two first starts at once can leave a certificate that does not belong to
  the key, and a file cut off makes every later start panic. `get_stats_port` recovers the statistics port file
  only, never that of the events. The page never forgets its port (`app.js:162`).
* Bus: `hudsucker.rs:515` says that the menu bar sets `BLEEP_PARENT_PID`, which `main.rs` deliberately does not.
  The redactions of an event carry the original text, although `hudsucker.rs:195`, `bleep-events/src/lib.rs:17-20` and
  `docs/arch/SAFETY-INVARIANTS.md:99` speak of fakes only; events have no such field in the model.
* Drill-down: a filter changed while a page is on its way gets rows of the old filter (`app.js:910`), and a
  failed query looks like the end of the list.

## 4. What is proved

`Dictionary_proofs` proves, for any sets of callers, secrets, fakes and lists and any bounds, every safety
property its run checks. They rest on one inductive invariant:

    IInv == TypeOK /\ OpenInv /\ LockInv /\ VisibleInv /\ SoundInv /\ FreshInv /\ CompletedIsDurable

`CompletedIsDurable` is not inductive alone. That a recording which commits is visible in MAP needs
`VisibleInv` (past its MAP update, a caller that no reset overlapped finds its fakes bound); that nothing is
owed while a reset clears memory needs `LockInv` (who clears holds the mutex, the table is empty, and whoever
records at that time knows); exactness needs `SoundInv` (every binding is one of the recordable pairs, so that
unique fakes leave one candidate); the properties about the time before the first reset need `FreshInv`.
`OrInsertFwd`, `OrInsertRev` and `DbInserts` say once what the three updates preserve. `StoresRefine` shows
that each store implements `WriteOnceStore`.

`Gateway_proofs` shows first that every step of Gateway is a step of Dictionary or leaves it alone
(`GatewayImplementsDictionary`), which makes `IInv` an invariant of Gateway too. On top of it

    GInv == IInv /\ GatewayTypeOK /\ IdleInv /\ DedupInv /\ PersistInv

is inductive: `DedupInv` ties the redactions of a body to its dedup map and gives `OneFakePerBody`;
`PersistInv` says that a request inside `record_batch` records its own redactions, and that they are bound
when it has come back, which needs `VisibleInv` at the moment of the return, and gives `ForwardedIsKnown`.
The two properties about replies need `ReplyInv` beside it: what a snapshot binds are pairs that can be
recorded, and the stores are finite, which is not assumed but follows from how they are filled, and is what makes
a `HashMap`'s iteration a fold that ends. Of that fold it is shown that it may go any way round
(`Results`): whatever comes first, at most one substitution takes effect on a fake, because what it leaves is an
original, and under `CleanDraws` no original is a fake.

`Substitution_proofs` is about texts. `Replaced` walks along a body as `str::replace` does; the lemmas say
what it makes of the empty text, of a text cut anywhere, of a fake at its head. Rules keep apart (`Apart`)
when no two of their fakes can overlap in a text and no fake can begin or end inside an original that has been
put in. For such rules `AllReplacedIsOnePass` shows that substituting one rule after the other, in any order,
is one left-to-right pass with all of them. The inductions, over the number of rules and over positions in the
text, are made by least counterexample.

`StreamingDeanon_proofs` proves all safety properties of its run for any letters, framing, pieces and setups. `WindowInv`
has the type invariant, and that a task nobody will wake has taken all that arrived and holds less than its
longest fake, which gives `WaitsWithLittle`. `StreamsAsBuffered` is a refinement of `BodyRestoration`; its invariant

    RestoreInv == WindowInv /\ Clean(setup) /\ (~flushed =>
                    \A z : out \o Restored(pending \o z) = Restored(received \o z))

says that whatever else may come, restoring what is held and appending it to what is out is restoring everything
received. Each poll keeps this because `Restored` is one pass, and a window one byte shorter than the longest
fake is cut where no fake can lie across. The hypothesis `Clean(setup)`, which implies `Apart` for whatever order
the map has, is the one by which `MCStreamingDeanon` chooses its setups. Without it, where a fake lies inside
another one or an original has a piece of a fake at its edge, the substitutions depend on their order in the
source too, and the two paths need not agree.

`Detection_proofs` proves all of its run's properties. Its invariant

    IInv == TypeOK /\ PhaseInv /\ ResolveInv /\ OrderInv /\ BufferInv /\ OnlyOverlapsPanic

says of the resolution that what has been looked at is covered by what was kept, and that the kept ones are
maximal (`ResolveInv`): a match that lies in a dropped one lies in what covers that one, which is why comparing
with kept matches suffices. Of the splices it says (`BufferFor`) that the buffer left of all splices is the
text, and that to their right there is neither a byte of a replaced span nor one from left of the splices. `SpliceBuffer`
is the step: if a byte that the next match covers stood behind its end, it would be right of an earlier splice's
start, and since that match is not inside the next one it would have covered the byte. `SpliceFacts` says once
what a splice does to a sequence. `DisjointIsExact` needs `ExactInv` besides: the flattened beginnings of the
result (`Fronts`: what the text up to byte n has become) exist and end in the buffer. A splice changes the
fronts behind its span and leaves those before it, so that the property's left-to-right reading follows from
splices that run from right to left.

`GatewayProcess_proofs` proves the type invariant, with what the operating system keeps about ports, and
`SoleGatewayIsReachable`, for any number of processes and ports. The invariant is

    ProcessInv == ProcessTypeOK /\ AloneInv /\ TaskInv /\ CaInv /\ SoleGatewayIsReachable

A port file that names somebody else's port was written by a process that ran at the same time: `TaskInv` says
that who has a task or a port runs, `AloneInv` that two which run at once are not alone, and `FileStep` that a
file only ever changes to a port somebody has, or to nothing. For the certificate (`CaInv`) the order of the
two writes is what counts: the key first, so that a certificate is never there without its key, and what
is cut off is seen as such. That the lowest free port exists is the well-foundedness of the naturals
(`LowestPort`).

`Desktop_proofs` shows that every step of Desktop is one of GatewayProcess or leaves it alone
(`DesktopRunsProcesses`), which carries the theorem over, and proves `LiveFeedIsFaithful` from

    DesktopInv == RequestInv /\ BusInv /\ FeedInv /\ OrderInv /\ TailInv

`FeedInv` has the step that makes it inductive: an event that has left the ring (`Passed`) lies before the
receiver or comes from a process that is dead, which stays so. A new connection goes to a process that lives,
so nothing it sends can repeat what an earlier connection brought. `BusInv` ties a redaction on the bus to its
request, and `RequestInv` that request to what its handler has done.

The part of it about `History` has the invariant of the drill-down, over the steps the desktop takes in the
history (`HistoryNext`):

    HistoryInv == TableInv /\ LoadInv /\ ShownInv

`LoadInv` is about the load that is under way: in a view that is not spoilt there is at most one, and none
before the first page without one. `ShownInv` says that what is shown descends and ends at the cursor, and that
every row that was there at the start and still is has been shown or lies behind the cursor. A page that arrives
late keeps this because rows that came in meanwhile, or went, are not asked about, and because the cursor is the
last row of what was delivered and not a count. Both parts of the cursor, time and id, are needed: `RowBefore`
is a total order because ids differ (`Keyed`). That the finite set of rows has a descending order at all, which
`Sorted` chooses, is proved by induction over the set's size. `RedactionInv` and `PageInv`
complete this to `DesktopTypeOK`: the second a request stamps is never ahead of the clock, and what a forwarder's
socket holds is bounded by its size.

`RuleToFake_proofs` proves, for any content of the input files, any limits and any matches, all properties of the
`rule_to_fake` run. Three facts about operators come first. The parsers, the checksums and `Kept` are
folds, and TLA+ chooses a function that satisfies the fold's equation if there is one: `FoldExists` shows that
there is, `WalksTo` what the chosen one does. `extract_literal_prefix` recurs on the rest of a regex and on the
alternatives of a group; these are shorter (`AlternativesShorter`), and `Words` on
parts that are shorter, too. `RecursionExists` says for both that a function with the equation exists: there is one
on the regexes up to every length, two of them agree, and together they are one on all regexes (`ExtractionWalks`,
`WordsWalk`). Hence what a build finds in front of a regex is a sequence of literals, whatever
the regex is, one whose groups are not closed included.

`Merged`, `Ruleset` and `Built` say what files that parse come to, after the merge, after the rewriting, and
in a file. The invariant of the build says of each step that `work` and `final` are that much of it:

    BuildInv == Shape /\ ParsedSoFar /\ RewrittenSoFar /\ WrittenFiles

`WrittenFiles` is about earlier builds too: a file that is whole was built from one state of the input files,
which need not be today's. `DeployInv` adds that what is embedded and what a gateway has loaded was such a file.
From it follow the type invariant, the keyword of every e-mail rule (`EmailRulesAlwaysTrigger`), the rule of every
fixture (`FixturesAlwaysMatchRules`) and `OnlyUncheckedFieldsMatter`: gitleaks and Nosey Parker rules have a
confidence and a checksum the pipeline has chosen itself, the three other sources copy theirs. That the strongest source wins
(`HighestSourceAlwaysWins`) is `LastOfCat`, four times: of two lists in a row the last rule of an id is the last
in the second, or, if it has none, in the first. For the limit (`LimitAlwaysTakesFromEverySource`), `FirstPlaces` says
that in a strict total order of n elements the numbers of elements before each are 0 to n-1, each once. `Place` is
that number in the order of ids within a source, `Turn` that in the order of turns; the rules that come before the
first rule of a source are first rules of other sources, hence fewer than there are sources.

`CheckDigitsAlwaysHold` is about arithmetic. Appending a digit moves every other one a place further from the end, so the
digits `luhn_check_digit` doubles are those `luhn_valid` doubles, and the check digit fills the sum up to a
multiple of ten. The remainder of an IBAN is taken one value at a time (`Mod97Walks`); replacing the two
noughts at the end by 98 less their remainder leaves 1. `PrefixAlwaysKept` and `NoSecretEverSurvives` rest on
`RedactionInv`: a redaction is of a rule whose prefix is literals (by `DeployInv`) and a fake that `generate` may
return. Each generator then has a lemma that says from where the characters of its texts come, or, for connection
strings, that every format's list of keys has the credentials that can occur in that format.

`PrefixAlwaysHeadsEveryMatch` compares the extraction with `Words` for regexes of any length. The induction is that
of a shortest counterexample, since lengths are numbers. The two functions take a regex apart differently: the
extraction steps over an opening parenthesis and walks on into what lies behind the group, `Words` takes the group
for itself and joins it with the rest. What brings them together is that the walk is local: what follows a closed
group does not change the prefix that is found in it. So the prefix found at the parenthesis is that of the group
alone, which heads the words of the group by induction and stays their head when the rest is joined on. For a group
with alternatives, the words of the group are those of its alternatives, which `Words` reaches by cutting at one pipe
after the other and the extraction at once, and a common head of their prefixes heads them all.

`VendorFilesAlwaysReadAsWritten` compares the fold of the line parser with `WrittenRules`, for any number of files of
any length. `NpReads` gives the parser's state after each line. The invariant over the lines, `ReadTo`, says that the
rules flushed so far are what the lines before the last start of a rule come to, and that the rule being collected
(`InRule`) is what its own lines up to here say; `Shows` is the part of that about a pattern, the text that
has been gathered of it and whether its block is still open. In a plain file the lines from one start of a rule to
the next, be it one that only looks like it, hold just the ids and patterns a YAML reader finds for the rule
(`PlainSpan`); what a phantom collects has no id and is dropped. `FileReads` puts this together for a file, `FilesPairs`
for the files in a row, and `NpPairs` for the exclusions; a rule without an id or with an empty pattern is left out on
both sides.

Assumptions on the constants are those named in the modules (`DictionaryAssumption`, `GatewayAssumption`,
`StreamingAssumption`, `DetectionAssumption`, `ProcessAssumption`, `HistoryAssumption`, `DesktopAssumption`,
`SnapshotsAssumption`, `LimitsAssumption`, `LiteralsAssumption`, `OrderAssumption`, `FakeValuesAssumption`, `OriginalsAssumption`):
redactions are pairs of a fake and an original, sentinels (the missing cursor among them) are not values, a body's
possible redaction lists can be recorded, the framing of a stream shares no byte with its text, a dictionary has
one entry for a fake, fakes are not empty, processes and ports are numbers, ring and socket hold at least one
event, and the rows of an earlier session have ids of their own. Of the input files nothing is assumed but the shape
of each format, its library parser's for TOML and YAML, and a file may always be one that does not parse. A literal
of a regex is none of its other tokens, and a rule that is being collected is not the mark for none (`Nothing`). Ids and
sources have a place in the alphabetical order, which is theirs alone. The fixed words and the drawn characters are
told apart from the letters and digits of a match, a draw has the size and the range that was asked for, and the
values of `--limit` are numbers. What a rule may match is, by its replacement type, a text, digits, the country and
length of an IBAN, or a connection string in which only a URL has an authority.

**Only model-checked:** liveness (`CallsReturn`, `RequestsAreForwarded`, `StreamEnds`, `TrayFindsGateway`,
`FeedFollowsGateway`), which is beyond the prover. `MCRuleToFake` also compares the extraction with `Words` for every
pattern of five tokens as an assumption (`ExtractionIsSound`), which shows that the definitions mean what they
should on patterns a reader can check by hand.

Two of the theorems claim no more than the code gives. A `literal_prefix` that is written by hand in the
hand-authored or the custom file is taken by the pipeline as it is, and a pipe outside all groups is not looked at,
so `PrefixHeadsEveryMatch` excepts both. `VendorFilesReadAsWritten` is about plain files: of a rule with
two ids the parser takes the last, and an `id:` line in an example is one to it.

## 5. What is not modelled

* The parts `PROJECT.json` lists as left out, and of those it calls partly modelled: the event-frame parser, the
  multipart splitting and the compression round trip of the content router; the confidence thresholds of
  detection; the totals and time windows of the statistics; the `disabled` flag; the contents of the audit and
  request logs.
* Loss of committed transactions on a power failure (`synchronous = NORMAL` permits it): `Crash` is the
  process's end, after which SQLite's WAL keeps every commit.
* Poisoned locks. No code path panics while it holds one.
* What regular expressions match in a text, beyond the head of a match: detection takes any spans that do not
  overlap for the matches of a rule.
* Which names, hosts and digits a generator draws. In `Gateway`, `Gen[o]` is the set of fakes that can be drawn
  for `o`; properties that need different secrets to have different fakes say so (`UniqueFakes`, `CleanDraws`).
  `src/replacement/replacers.rs` has generators with few values, for which this is only likely.
* Compressed replies on the streaming path, which the source excludes by asking for none.
* More than one client of the bus: receivers do not see each other. Tokio rounds the ring up to a power of two.
* A process id that is used again, and a port that another program takes later.

Hazards without a property have a note in `PROJECT.json`: the ties of canonical fakes after a restart, a reset
between a recording's updates, generators with few values, the order of rules over equal spans, and statistics
that are read in several queries.

## 6. Plan

Done: WriteOnceStore, Dictionary, Gateway, Substitution, BodyRestoration, StreamingDeanon, Detection, the rule
pipeline with the generators, GatewayProcess, History and Desktop; the proofs of every safety property checked of
the dictionary, the handlers, the streaming body, detection, the processes, the event feed, the history, and the rule pipeline
with its generators.

1. `EventFrames` and the content router: the incremental frame parser against splitting the whole stream,
   what each content type does, the compression round trip and the length header.
