# TLA+ specification of the DBX Kafka plugin

This directory holds a TLA+ development for the Go side of `dbx-plugin-kafka`:
modules that model the plugin's components, TLC configurations that check them
on small instances, and TLAPS proofs that hold for every size. `PROJECT.json`
maps every definition to the source lines it models and lists runs, mutants,
findings, hazards and theorems.

Run a check with `tlc -config X.cfg M`, a proof with `tlapm M.tla`.

## 1. The system

The plugin is one process (the *sidecar*) that a host talks to over stdin and
stdout. `Serve` (`shared/sdk/.../sdk.go`) starts a goroutine for every request
and calls the handler in `backend/main.go`, which dispatches to
`kafkaconn.Service` and to the MCP server. All requests therefore run
concurrently, and everything they share is protected by a handful of mutexes.
When the input ends, `Serve` waits for its workers and `main` calls `CloseAll`.
Started as a standalone MCP server, the same binary reads JSON lines instead
(`mcp/stdio.go`), again with one goroutine per line.

| Component | State | Operations | Hard behaviour | What makes it correct |
| --- | --- | --- | --- | --- |
| Connection table (`service.go`, `client.go`) | `conns`: id -> entry (profile, secrets, admin client, status) under `Service.mu`; each entry has its own mutex | `Connect`, `Disconnect`, `CloseAll`, `lookup`, `profileOf`, `withAdmin`, `consumeClient` | `Disconnect` is several critical sections; every user looks the id up again at each use | nothing built from a replaced or removed entry stays in use |
| Consume client pool (`consume_pool.go`) | `consumePool`: connection+shape -> entry (client, inUse, resetFailed, lastUsedAt) under `consumePoolMu`; the holder writes an entry without the lock | acquire, put, release with TTL sweep, evict, close for a connection, close all | unlocked release; put closes what it replaces; disconnect in the middle of a consume | one user per client, no closed client offered, no client lost |
| One-shot consume and export (`messages.go`) | positions of a client, the page so far, the group's offsets | parameter checks, start positions, scan with limits and time window, commit, answer | records removed or appended between pages; limit, window and errors at the same time; an answer to the commit that is lost | a page is an atomic read; paging does not repeat; what is reported committed is committed |
| Stream registry (`stream.go`) | `sessions` under `StreamRegistry.mu`; per session a context, a client, lastActivity | `StartStream`, `Stop`, `StopAll`, `StopAllForConnection`, `EvictIdle`, `Close` | limit check, client creation and registration are three steps; five kinds of callers unlink and close | one owner per client; stopped sessions stop; the limit |
| Run loop, flush, ring (`stream.go`) | batch, retry delay, ring, totals, paused | poll, match, batch, flush, back-off, pause, resume | a stop at any place; errors while a batch waits; events sent outside the lock | no match lost or doubled; the ring shows the latest messages; the loop ends |
| Two-phase writes (`mcp/server.go`, `mcp/confirm.go`, `policy.go`, `topics.go`, `groups.go`) | token table with expiry | preview/issue, consume, two policy gates, admin call, audit | tokens reused, expired, presented concurrently; reconnect between gate and call; lost answers; restart | one write per token, of what was previewed; every outcome audited |
| MCP settings (`mcp/settings.go`) | settings in memory, in the running stores and in a file | get, set, load, save | three places updated in three steps; restart | what is reported is what is in effect |
| MCP cursors (`mcp/cursor.go`) | sessions with TTL and LRU order | put, next, prune, resize | eviction between two pages; pages too large for the response | pages are gap-free; who reads is not evicted |
| MCP intents (`mcp/intent.go`, `mcp/server.go`) | intent table | create, report, get, wait | late, repeated and lost reports; eviction during a wait | a wait ends, with its own intent's report if there is one |
| Standalone stdio server, app bridge (`mcp/stdio.go`, `mcp/appbridge.go`) | pool of inline connections, running lines | read, answer, register, evict, forward, drain | connects and disconnects outside the lock; the application comes and goes; end of input with calls running | the pool is what is connected; every line is answered |
| Shared admin client, topics, groups, ACLs (`client.go`, `topics.go`, `groups.go`, `acls.go`) | client and status of an entry | build, use and close a client; one or more admin requests per call | an entry taken out of the table while a call waits for its mutex; lists read one after the other | no client on an entry nobody will close; the lag is not understated |
| Presets and store (`service.go`, `store/store.go`) | `presets.json`, `mcp-settings.json`, `audit.jsonl` | load, atomic save, append | read-modify-write without a lock; one temporary name; a crash during a save | no update lost, no torn file |
| Schema registries (`schema.go`, `glue.go`) | a cache per session; the registry itself is elsewhere | select, register, delete, level, encode, decode, diff | other programs change the registry between two requests; lost answers | the version answered is the schema registered; a record is decoded as it was written |
| Lifecycle parameters, authentication, TLS, ZooKeeper, test (`types.go`, `props.go`, `client.go`, `kerberos.go`, `oauth.go`, `zk.go`, `diag.go`) | none | paste, normalise, validate, build options, test | some twenty settings whose requirements depend on each other, checked in two places | what is accepted can be dialled; the test sees what the connection will see |
| Digest (`mcp/digest.go`) | none | group, histogram, limits | bounds | equals its reference definition |
| Frontend, scripts | Vue state | panels | - | outside this development |

How the parts interact: consumes and streams read the connection table and
build clients from it; `Connect`, `Disconnect` and `CloseAll` reach into the
stream registry and the pool; MCP tools call the same service methods as the
host; the service reports audit records and stream events through callbacks
into one emitter.

## 2. The modules

| Module | Models | Used by |
| --- | --- | --- |
| `ConsumePool` | one-shot consumes, the pool, the part of the connection table they read | `MCConsumePool`, `ConsumePoolProofs` |
| `ConsumeScan` | the inside of one consume or export, over partitions that change | `MCConsumeScan`, `ConsumeScanProofs` |
| `PagedRead` | abstract specification: a page is an atomic read | `ConsumeScan` implements it |
| `StreamRegistry` | life of streaming sessions, the calls that stop them | run directly, `StreamRegistryProofs` |
| `RingBuffer` | the ring and its paging as functions | `StreamSession` |
| `StreamSession` | one session's run loop, flush, pause, stop | run directly, `StreamSessionProofs` |
| `ConfirmedWrite` | two-phase writes, tokens, policy, audit, token life time settings | `MCConfirmedWrite`, `ConfirmedWriteProofs` |
| `McpStores` | cursors, intents, settings | `MCMcpStores`, `McpServerProofs` |
| `StdioServer` | the standalone MCP server, inline connections, app bridge | run directly, `McpServerProofs` |
| `SchemaRegistry` | schema methods of both registries, produce and decode with a schema | `MCSchemaRegistry`, `SchemaRegistryProofs` |
| `AdminOps` | admin calls, shared client, connection entries, presets and their file | `MCAdminOps`, `ConnectionProofs` |
| `ConnectionSetup` | parameters to client options, connection/test, as functions | `MCRules`, `ConnectionProofs` |
| `MessageRules` | digest aggregates and schema diff, as functions | `MCRules`, `ConnectionProofs` |
| `*Proofs` | theorems | TLAPS |

The `MC` modules add symmetry sets and the inputs to enumerate. Operators whose
comment begins with *Mutant* are altered forms of the definition that follows
them; `PROJECT.json` names, for every checked property, the mutant that breaks it.

A step of a model is what the code does inside one critical section, or between
two of them. Where the code touches shared fields without a lock
(`consumePoolRelease`, the reads of an intent), every access is a step of its own
and the steps come in any order.

### ConsumePool

A consume is a process `r` with a program counter: `start` (acquire), `reset` /
`resetting`, `create`, `put`, `ping`, `scan`, then `release` or `close`, with
`abandon` for the release after a failed reset. A request creates at most one
client and at most one entry, so both carry the request's name. `pool[k]` is the
map, `entry` holds the fields, `cli` tells whether a client exists and is open.
A configuration is a generation number: `conns[c]` is the current one. `Disconnect` is two steps
(pool, then table); `disconnecting` counts the calls between them. A nil
dereference (`panic`) ends the process, as it does in Go.

### ConsumeScan and PagedRead

One caller makes one request after the other and may feed `nextPartitionOffsets`
into the next; producers append and retention removes records at any time. A
record is `<<partition, offset>>`; filters and decoding are a predicate on it
(`Hits`), and a time stamp is the offset of the first record not older. The steps
are those of `consumeMessages`: checks, start positions (per strategy, for a new
client or for one reset from the pool, with the replacement of positions that
have left the log), a poll that returns up to a batch and possibly an error, one
step per record, the end of the window, the commit and the answer. The pool is
reduced to the set of shapes with an idle client. `from` and `seen` are histories.
`ReadsPages` maps the answer of an idle call to the page of `PagedRead` and every
other state to "no page": all the steps of a scan become one atomic read.

### StreamRegistry

A `StartStream` request and its session share a name. `Lookup`, `Admit`,
`Create`, `Insert` are its critical sections. Everything that stops sessions is
a process (`Calls`, `Evictor`, `Main`) that unlinks a set of sessions in one step
(`victims`) and then cancels and closes them one by one. `LoopRefuses` is the run
loop that returns because of an invalid filter or decoder and leaves its session
registered. `idle` counts ticks since `lastActivityUnixMs`.

### StreamSession and RingBuffer

The loop's places are `select`, `poll`, `backoff`, `iter`, `match`, `full`,
`push`, `defer`, `done`. `flush` is two steps: the locked part (`FlushTo`) and the
event (`Push`). A poll returns any number of records up to the batch size, with
or without an error; records that come with an error are skipped, as in the code.
`seen` and `appended` are histories. What a record contains is abstracted to
whether it matches; `partitionOffsets` is left out.

### ConfirmedWrite

A tool call is a process: `gate` (the tool's policy check), `confirm` (issue or
consume a token), `execute` (the service's gates), `admin` (second lookup),
`running`, and a final place. A token has the name of the call it was issued to.
`Apply` is the cluster applying the write; `Succeed` and `Fail` are the answer,
independent of it where the network may lose it. Deletes also go through the
confirm-by-name guard; `Duplicates` are those that name a topic twice, which it
always turns down. The hash of the arguments is taken to be injective.

### McpStores

Cursor sessions keep rows, an offset, a time of last use and a place in the LRU
order; every operation of the store prunes first. Rows are numbers. A page that is
too large for the response is sent without its rows, although the session's
offset has advanced. An intent is reported, expires or is evicted while its tool
polls for it; reads of an intent happen outside the store's lock.
`mcp/settings/set` writes memory, then the running stores, then the file, each a
step, two requests in any order; `Restart` reads the file back.

### StdioServer

A line is a process that works through the checks of `handleLine` and answers, or,
for a tool call, finds its connection: from the pool of inline connections (probe,
evict, `Disconnect` outside the lock, `Connect` outside the lock), from the table,
or through the bridge to a running application (probe, wait with deadline, call).
The application starts and ends at any time. After the end of input the server
waits for its lines up to a limit and closes. Inline parameters are identified
with the hash that is their connection id.

### SchemaRegistry

One subject in two registries, `confluent` and `glue`, with versions, deletions and
a compatibility level, changed by the calls and by other programs between any two
requests. The explicit registry, the connection's switch and what is configured
select the registry as in `schemaBackendFor`. Registration is post and read-back in
Confluent, probe, create or add a version, and wait in Glue. Produce encodes with a
schema and appends a record; a consume decodes records with the cache of its
session, by wire id or by subject. Every request may be applied and its answer
lost.

### AdminOps

Connection entries are numbered; a call keeps the entry it looked up although
`Connect` or `Disconnect` may have replaced and closed it before the call gets the
entry's mutex. `withAdmin` is lookup, lock, build, use, unlock. The calls are
grouped by their requests: those of one request share an action; `partitions`,
`reset`, `clear` and `lag` have their own steps, with targets, partial acceptance
and the three lists a lag is computed from, each of whose partitions may come with an
error, or in the list of ends not at all. Presets are load, change and save over
a temporary file and a rename, with two calls overlapping and any step of a save
failing.

### ConnectionSetup, MessageRules

Functions. A connection form is a record of the settings with a few values and
the set of the free texts that are present; `Accepted` is the outcome of paste,
normalisation and validation, the options of the client say how it dials, logs in
and verifies, and `Service.Test` is a second way to build it. `resolveSchemaProvider`
finds the registry of a connection, by its switch or from what is filled in, and
`RegistryErrors` what its first use complains of. `MessageRules` has the time
histogram and the top groups of a digest, and `schemaTextDiff` with its LCS table
as a recursive function over its cells. The two loops behind the table, the walk that
makes the operations and the merging of them into hunks, are functions of the number
of turns (`DiffTurn`, `HunkTurn`); a loop that has ended takes turns that do nothing.

## 3. The runs

| Run | Instance | Shows |
| --- | --- | --- |
| `pool` | two consumes, two shapes, a pool with room for one, a tick, a connect, a disconnect, shutdown | `PoolEntriesUsable`, `ExclusiveUse`, `NoClientLeak`, `BusySurvivesHousekeeping`, and `ConsumeEnds` under fairness |
| `streams` | two starts, a limit of one, one stopping call, evictor, shutdown, a reconnect | `OneOwner`, `StaleOnlyIfRaced`, and `StoppedLoopEnds`, `ZombieEvicted` under fairness |
| `session` | five records, four matching, batches of two, a ring of three | `MatchedKept`, `PushesInOrder`, `BatchReachesRing`, `StopEndsLoop` |
| `confirm` | three calls (a preview and two confirmations of it, or two previews), two policies in a row, a settings change, a restart | `OneWritePerToken`, `ConfirmsThePreview`, `ForbiddenOnlyAfterReconnect`, `EveryOutcomeAudited` |
| `scan` | two partitions of up to two records, one removed; two requests out of seven kinds (every strategy, export, resume, commit) | `ReadsPages` (refinement of `PagedRead`), `ResumeNeverRepeats`, `CommitCoversPage`, `CallEnds` |
| `stores` | two setters, two cursors, three uses, two intents with room for one, two ticks, a restart | `ResumedReadMissesNothing`, `SettingsInStep`, `EvictsLeastRecent`, `WaitEnds` |
| `stdio` | three lines of every kind, two inline connections (one refused) with room for one, a saved one, an application that comes or goes once | `PoolMatchesTable`, `DrainAnswersAll`, `LineWorkedOff` |
| `schema` | two calls, two schemas, three configurations, two versions, two records, a reconnect | `VersionHoldsSchema`, `DecodedAsWritten`, `OneSchemaPerSession`, `ChangesAudited` |
| `admin` | two calls of every kind, one partition, two entries, one preset; the file is judged in every state, which is what a crash there would leave | `LeakOnlyIfRaced`, `LagNotUnderstated`, `PresetFileExact` |
| `rules` | all inputs of bounded size as initial states: forms and pastes one group of settings at a time, texts of up to four lines, time stamps up to 9 in three buckets | `AcceptedComplete`, `TestFaithful`, `PasteAccepted`, `DiffIsMinimalPatch`, `DigestCountsAll` |
| `pool_nil_client`, `scan_resume` | - | expect a violation, see section 4 |

Why the bounds are enough. *Pool:* every conflict over
an entry is between its user and one other request or a disconnect: a put of the
same key, an eviction by a put of the other key, a sweep, a second acquire. One
tick tells idle from expired (`IdleTTL = 0`). More requests, reconnects and
overlapping disconnects are covered by the proofs, which hold for any number.
*Streams:* the second start fills the limit, and a stop, the evictor and
shutdown race for the same session; `MaxGen = 2` is a connect and a reconnect.
*Session:* the ring wraps with the fourth match and a batch fills with the second;
the retry delay passes its cap after two errors. *Confirm:* a double confirmation
needs three calls; a token with the default life time expires at the only tick.
*Scan:* resuming, reuse of a pooled client and a removed position all need exactly
two requests; two records per partition make a page that ends inside a partition.
*Stores:* a third use after two sessions decides who is evicted; an intent table
of one makes a second intent evict the one waited for. *Stdio:* a pool of one makes
every second inline id evict; three lines give two crossing registrations and a
waiting call. *Schema:* one registration between another's post and read-back is
the race there is. *Admin:* a lookup, a reconnect and a second lookup need two
entries. The `CHECK_DEADLOCK FALSE` runs are those whose requests may all be done;
the others have a final stuttering step.

Fairness. Goroutines are scheduled, and everything they wait for has a time
limit in the code: the reset, `Ping` and the scan of a consume; 200 ms for a
poll. So the next step of a request or loop that has begun is weakly fair; no
request has to be issued, no poll has to succeed, no client has to pause or
resume. `FairSpec` of `StreamSession` adds strong fairness for the ticker and for
the cancelled context: Go's `select` chooses uniformly among ready cases, so a
case that is ready again and again is taken. In `StreamRegistry` the ticker of the
eviction loop and the clock are weakly fair. In `ConsumeScan` the steps of the scan
and the end of its window are. In `McpStores` the clock is weakly fair, and a
waiting tool's poll strongly so: it shares the store's mutex with reports, and
Go's mutex does not starve a waiter. In `StdioServer` a line's step, the end of the
drain and the close are weakly fair; the application need not do anything.

## 4. Where code and documents disagree

Two have a run that expects the violation, and a finding in `PROJECT.json` with
the quotation.

* `pool_nil_client`: a disconnect between acquire and reset makes the holder
  dereference a nil client.
* `scan_resume`: the shape under which clients are pooled leaves
  `partitionOffsets` out (`consumeReusePolicy`, `consumeClientSignature`): a request
  that resumes with the default strategy is served by a pooled client that was
  reset to the start or the end, and does not start at its offsets.

Seen while modelling, without a run of their own.

Pool:

* A consume that finds its entry occupied makes a client and *pools* it, closing
  the busy one; the comment (`consume_pool.go:18`) says it stays out of the pool.
* `Connect` does not clear the pool, whose key leaves the configuration out.
* `Disconnect` clears the pool before the table (`service.go:191`): a consume that
  has its client by then pools it afterwards; it is closed by its TTL or at exit.
* Only TTL-expired entries are closed on release (`consume_pool.go:189`): a pool
  over its limit does not converge to it when it goes idle, as
  `consume_pool.go:152` says.

Scan:

* Matches beyond the limit in a batch are counted and dropped, and the next
  offsets are past them; with `commit` they are committed although not returned.
* A commit after the window is over uses the expired context and always fails.
* `hasMore` is true in every successful answer, and a partition without records
  in a page is missing from `nextPartitionOffsets`.
* Explicit partitions and a group id are said to exclude each other
  (`messages.go:621`); the check is left to the Kafka client, which cannot be made
  then.

Streams:

* The session limit is checked and used in two critical sections: two starts can
  pass it together.
* A session registered after `Disconnect` or `Connect` listed the sessions runs on;
  `StaleOnlyIfRaced` says that this is the only window.
* `flush` sends after releasing the lock (`stream.go:632`): one event may follow a
  pause that has returned.

Writes and settings:

* The gate of a write and `withAdmin` look the connection up separately
  (`topics.go:191`, `client.go:448`): a write may reach a connection that became
  read-only in between. `ForbiddenOnlyAfterReconnect` says that this is the only
  way.
* The MCP tools' own gate (`mcp/server.go:836`) refuses without an audit record,
  while the protocol document lists policy refusals among the audited events.
* After a restart `settings/get` reports the saved life time of tokens while the
  store uses the default; `LoadSettings` drops the cursor settings.
* Overlapping `settings/set` requests can leave memory, stores and file different.

Stores and stdio server:

* When the response limit drops the rows of a page the session's offset has
  already advanced; the answer says that rows were left out.
* A second report changes a finished intent, and a reader of an intent outside the
  lock may see half of a report.
* Crossed registrations of inline connections leave the pool and the table
  different; `PoolMatchesTable` says that nothing else does.
* `log.Fatal` after a read error skips `CloseAll`.

Schema registries:

* An old schema registered again in Confluent, or a registration in between, is
  answered with another schema's version number.
* A failed read-back of Glue's level is reported as `NONE`, and the level is ignored
  for a schema that exists.
* A subject in the request overrides the wire id of a record.

Admin calls:

* `deleted` of records/clear is always 0 on success; topics that the cluster
  refuses to delete are audited as a success; adding partitions to topics with several targets
  stops at the first request that fails, with the earlier ones applied.
* The lag of a partition without a commit counts records that were deleted.
* A partition whose end offset came with an error, or is missing in the list, has the
  lag 0 (`groups.go:378`), and `totalLag` is too small with it; in the second case the
  row has no error. `LagNotUnderstated` says that no other row is too small.
* `adminClientLocked` closes the old client first; its comment says a failure leaves
  it alone.
* Concurrent preset changes lose updates and share one temporary file.

Connection parameters:

* A ZooKeeper source with a runtime endpoint takes the TLS server name from the
  dormant bootstrap list (`client.go:139`).
* Pasted keys are said to be case-insensitive; `basic.auth.credentials.source` and
  `sasl.jaas.config` are looked up exactly. Empty is said to mean "off" for
  the endpoint check; empty values are skipped.
* The form of a principal and Glue's authentication mode are accepted at connect
  time and fail at first use.
* A connection without a value for `schema_registry` gets the registry its settings
  suggest (`types.go:207`, `glue.go:111`), but its combinations are not checked
  (`types.go:340` has no such case): two registries, Glue's static mode without keys
  and a registry URL without a scheme come up at first use. `AcceptedIsComplete` has
  them as its only exception (`Unswitched`). A request may name its registry; the
  property covers each one that the connection has.

Digest and diff:

* The width of a histogram's buckets is rounded up, so that buckets past the last
  time stamp may appear, which the comment excludes.
* A hunk that only adds names the line of the new text.

## 5. The proofs

Eight modules of theorems, for any sets and any bounds, from the named assumptions
of the modules (special values are not members of the sets, limits are natural
numbers). Every inductive invariant of a specification below was first checked by TLC
as an invariant of its component's run; what the loops of a function keep (the ring,
the eviction, the digest, the diff) was tried on the results the runs compute.

`ConsumePoolProofs`: `[]TypeOK`, `[]ExclusiveUse`, `[]PoolEntriesUsable`,
`[]NoClientLeak` and `BusySurvivesHousekeeping`. None of the invariants is inductive
alone; `PoolInv` adds what ties a request's place to its entry. `HolderMarkedInv`
says that the entry of a request that may still touch its client is marked
occupied: acquire then cannot hand it out twice. The unlocked writes of a release
are covered because a request counts as using its entry until *its own* write of
`inUse`, and only that write clears the flag. `NewbornInv` says that an entry is
unknown to everybody until its maker has put it, so a put cannot resurrect one;
`ShapeInv` and `PooledKeyInv` say which places a request can be in and that it works
on an entry of its own key; `StoppedInv` says what `CloseAll` leaves behind. The
proof has one lemma per group of actions, combined in `PoolNext`.

`ConsumeScanProofs`: `ReadsPages`, that `ConsumeScan` implements `PagedRead`;
`CommitCoversPage`; and `ResumeNeverRepeats` under `ResumesExactly`, the hypothesis
that callers resume with strategy `offset`. The run `scan_resume` shows that it
cannot be dropped: with any other strategy the code starts over. `ScanInv` adds that the
client's position lies between its start and the end of the log with everything in
between scanned (`PosInv`, `SeenInv`: this is where records removed and appended
during the scan matter), that the offsets handed out are those after the last record
scanned (`NextInv`), and that the counters are the cardinalities of the sets of
records scanned and matched (`CountInv`), which is what `PagedRead` says of a page.
The refinement maps every step of the loop but the answer to a stutter. `ResumeInv`
adds that everything served lies before the offsets a call is resumed from.

`StreamSessionProofs`: first the ring. A new one represents the empty history
(`RingEmpty`), an append keeps it representing the longer one
(`RingAppendKeepsLatest`), so does a whole batch (`RingBatchKeepsLatest`, by induction
on the message at which it would first fail), and a page is the stretch of the latest
messages it names (`RingPageIsStretch`). Then the loop: `[]MatchedKept` and
`[]PushesInOrder`. `SessionInv` adds that what is left of a poll are records after
those scanned (`FetchInv`), what the loop's places say of batch and counters
(`LoopInv`), and that an event that waits to be sent carries what the ring was given
last and nothing an earlier event carried (`EventInv`): flushes write the ring under
the lock and push after it.

`StreamRegistryProofs`: `[]TypeOK`, `[]OneOwner`, `[]StaleOnlyIfRaced`.
`RegistryInv` adds that a live session is owned by the registry or by one stopping
call (`OwnedOnce`), that unlinked sessions are in nobody else's list
(`VictimsUnlinked`), that a live loop has its client, and that a start which raced
a reconnect or a disconnect is marked as such from the moment of the race
(`RacedMarked`, `StaleMarked`).

`ConfirmedWriteProofs`: `[]TypeOK`, `[]OneWritePerToken`, `[]ConfirmsThePreview`,
`[]ForbiddenOnlyAfterReconnect`, `[]EveryOutcomeAudited`. `ConfirmInv` adds how far a
call's history goes at each place (`Progress`), that a used token is in no table
and was issued for the same arguments (`TokenUse`), and what the gate saw
(`GateUse`).

`ConnectionProofs`, on `AdminOps`: `[]TypeOK`, that a call in its request has an open client
(`AdminClientOpen`), `[]LeakOnlyIfRaced`, `[]LagNotUnderstated` and
`[]PresetFileExact`. `AdminInv` adds that at most the holder of an entry's mutex works
on it (`HolderInv`). `LagInv` relates the committed offsets a call has read and the
ends it will read to the backlog between the two: committed offsets are read first and
ends only grow; a row that falls short has no listed end. `PresetInv` says what a call
that changes the presets has read, what it has written to the temporary file and that,
unless calls crossed, it is the only one (`Undisturbed`); a temporary file that a failed
call left behind is never the file itself.
On `ConnectionSetup`: `SetupComplete`, `SetupTested` and `SetupPasted` state the three
rules for every form, pasted text, target and machine, where the run varies one group
of settings at a time. The texts range over any set that has those the code compares
with (`Words`); a profile that went through `NormalizeProfile` has only known values
(`Normal`), and each source of errors is ruled out by the check it answers to
(`NoSeedError`, `NoTLSError`, `NoLoginError`, `NoRegistryError`, the last with a case for
each value of the switch and for its absence). The invariants of the
run, `[]AcceptedComplete`, `[]TestFaithful` and `[]PasteAccepted`, follow, since the
inputs it enumerates are among these (`GivenInv`). On `MessageRules`: `DigestBuckets` and
`DigestTopGroups`, and from them `[]DigestCountsAll`. The buckets rest on `Stretch`, that
a quotient numbers the stretch of the bucket's width its dividend lies in; the last
bucket takes every larger quotient as well, which is why its end is not its start plus
the width. That the top groups are as many as asked for is a count: the number of
groups before a group (`Earlier`) is a bijection from the groups to the first numbers.

For the schema diff `DiffExact` says, for every two texts, that the hunks applied to the
old one give the new one and that the lines kept are a longest common subsequence;
`[]DiffIsMinimalPatch` follows. The table is filled from cells with fewer lines left,
the measure of every induction about it (`LcsTable`, `CellInduction`), and no common
subsequence of the rests of the texts is longer than its cell says (`LcsBound`). The
walk has its invariant, `WalkAt`: the operations lead from the first lines to the
current ones (`Edits` names the lines before and after each), their equal lines stand
at increasing positions of both texts (`Matched`), and their number plus the current
cell is the first cell, where the walk's choice has to agree with the table's
(`WalkTurn`). At the end the first cell is therefore both reached and the upper bound.
The merging has another, `MergeAt`: the hunks so far, applied, make the new text up to the
current operation, but for lines of the old text still to be copied (`PatchAt`). It
needs that along a run of removes only the old text moves on and along a run of adds
only the new one (`RunLines`), and that a hunk is placed right whether it names a line of
the old text or, when it only adds, of the new one (`HunkMade`, `PatchHunk`).

`SchemaRegistryProofs`: `[]VersionHoldsSchema`, `[]DecodedAsWritten`,
`[]OneSchemaPerSession`, `[]ChangesAudited`. `SchemaInv` has, for every call, what its
place says of answer, audit and change (`OutcomeInv`) and of its job (`JobInv`), that
until the read-back the schema posted is the latest one unless something moved
(`VersionInv`), and that a session's cache holds every schema under its own id
(`CacheInv`). It rests on types that say a schema never changes under its id.

`McpServerProofs`, on `StdioServer`: `[]DrainAnswersAll` and `[]PoolMatchesTable`. `AnswerInv` counts
what was and will be written for a line. `PoolInv` says that, unless registrations
crossed, one is under way at most, and what the table has beyond the pool is what it
still has to disconnect (`TurnInv`). The eviction loop is a recursive function
(`Evicted`); that it ends with room in the pool is an induction on the number of ids
it has taken. On `McpStores`: `[]ResumedReadMissesNothing`, `[]SettingsInStep` and
`EvictsLeastRecent`. The heart is that both order lists are sorted at all times, the
cursors' by when each was used last and the intents' by their numbers (`CursorInv`,
`IntentInv`). Four lemmas say that what the code does to a list keeps it sorted and
which ids leave: an append (`SortedAppend`), cutting off the front (`NewestLeaves`),
removing one id where it stands (`WithoutLeaves`) and pruning (`KeptLeaves`). A sorted list
has no duplicates, and what is cut off its front is older than what stays, which is
the eviction property. `RowInv` adds the cursors' records, `SetterInv` how far a
settings request that overlaps no other has come.

The inductions over data (eviction, batch, pruning, the table and the loops of the diff)
use that a non-empty set of natural numbers has a least element, which the library
proves from well-foundedness. Where the property is about a number of turns it is put
as a set of naturals that has 0 and, with a number, the next (`AllNaturals`).

Only model-checked: all liveness, which is out of the prover's reach, as is `ENABLED`.
Every invariant and every action property of a passing run is stated by a theorem.

## 6. Not modelled

* Encodings: Avro, JSON Schema and Protobuf, compression, key and header formats.
* Parsing of texts: the syntax of properties, PEM, `krb5.conf`, ZooKeeper payloads,
  JSON requests and framing.
* The contents of filters and field filters: a predicate on a record. Sampling and
  field statistics of a digest.
* The UI snapshot (one value that is overwritten), read-only schema calls,
  `audit.jsonl` (an append per record) and `prefs.json` (saved as presets are).
* Result rows of admin calls, and batches of produce: one request per call.
* The frontend and the scripts.

franz-go, the Kafka cluster, the registries and the DBX application appear only
through what the code can observe of them: a client is open or closed, a poll
returns some records or an error, a request is applied or not and answered or not.
Their definitions are marked external in `PROJECT.json`.
