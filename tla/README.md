# A verification project for the account service and its requests

TLA+ models of the parts of this service whose correctness depends on the order
of events: what is replicated between processes, reserved by concurrent
requests, retried, released and reported back, and what a client is given
meanwhile. TLC checks the models on small
instances; TLAPS proves their safety for every value of their constants.
`PROJECT.json` lists components, runs, mutants, the map from definitions to
source lines, hazards, findings and theorems. Source paths below are relative
to `src/`.

## 1. The system

The service answers OpenAI- and Anthropic-style requests by calling an upstream
with one of many *accounts*. Several worker processes (Granian) serve requests;
each is one asyncio event loop. They share the account repository and the
configuration and nothing else.

| Component | State | Operations | Hard behaviours | What makes it correct |
|---|---|---|---|---|
| Account repository (`app/control/account/backends/`) | account rows, a global revision | upsert, patch, delete, replace_pool, snapshot, scan by revision, list | writers in every process; one SQLite transaction per call, several calls on Redis | a row's revision says when it changed; deletion stays visible to scans |
| Account table and replication (`app/dataplane/account/table.py`, `sync.py`, loop in `app/main.py`) | columns by slot, buckets by (pool, mode), the table's revision | bootstrap, scan, apply a page | revision and rows are read apart; pages; writers between the steps; restarts | no update is lost or undone, the index equals the columns, the table converges |
| Account directory (`app/dataplane/account/__init__.py`, `selector.py`, `feedback.py`) | the table plus inflight, cooldown, quota, health | reserve, reserve_any, release, feedback, latency sync | requests interleave with sync pages, 401s, strategy changes and time | load counts are true, caps hold, only servable accounts are handed out |
| Request lifecycle (`app/products/**`) | a lease, the tokens already tried, retries left | reserve, call, release, feedback, retry | retry against failing accounts, streams dropped by clients | a request ends and gives back what it holds |
| Refresh service, scheduler, runtime (`app/control/account/refresh.py`, `scheduler.py`, `runtime.py`) | locks, throttle times, the coalescer's buffer, who leads | scheduled refresh, on-demand refresh, record failure, reconcile | read, await upstream, write back; cancellation; one leader per host | no disable is undone, counted failures are written, one loop runs |
| Latency probe (`app/probe/`) and its replication | probe columns, a timestamp watermark | probe a batch, pull since the watermark | equal timestamps, late commits | every measurement arrives |
| Proxy directory and clearance (`app/control/proxy/`) | egress nodes, clearance bundles, events of running fetches | acquire, feedback, load, refresh | single-flight fetch against reload and refresh, failure of the fetch | one fetch per key; nobody waits for an event that is never set; a failing node is left |
| Reverse protocol and transports (`app/dataplane/reverse/`) | one parser or connection per call | build, send, parse | partial frames, cancelled streams | wire formats |
| Text endpoints (`app/products/openai`, `anthropic`) with the stream adapters they read from | a lease, an adapter, a tool sieve, the events written | relay a stream, retry, settle the account, record the outcome in the background | markers split across chunks, errors in band, retries after text, clients that leave | text is neither lost nor changed, the end mark ends, every attempt is settled once |
| Image endpoints, the Imagine WebSocket and the web UI's socket (`images.py`, `imagine_ws.py`, `webui/imagine.py`) | slots of a round, percentages, leases | generate, edit, run and stop a session | late and repeated frames, moderation, several rounds, failing siblings | as many images as wanted, each once; percentages are honest; accounts return |
| Video jobs and streams (`video.py`) | job records, a progress queue, an account | create, poll, generate segments, download, save | tasks outlive requests; a save stops the process; expiry | a stream shows what was reported, a request ends, the account returns |
| Media cache (`app/platform/storage/media_cache.py`) | files, an SQLite index, size limits | save, list, delete, reconcile | several processes; crash between file and index; changed limits | the index matches the files after reconciliation, the limit holds |
| Admin API (`app/products/web/admin/`) and batch tasks (`app/platform/runtime/task.py`) | task registry, subscriber queues | add, edit, delete tokens; run, cancel, follow a batch | check-then-act over the repository; bounded queues | an edit keeps the account, a result stands, every follower's stream ends |
| Configuration (`app/platform/config/`), startup migration | a snapshot by version, a TOML file or table | load, update, migrate | truncating write, reload in the middle of requests | a reader sees an old or a new snapshot |

Interactions: an admin request, the refresh service and the failure coalescer
write the repository; the sync loop of every worker carries the writes into its
directory; requests reserve from the directory, report feedback to it and, for
failures, to the repository through the refresh service; a transport takes a
proxy lease and reports feedback on it; images and videos are saved to the media
cache, which the processes share; the configuration decides strategy,
caps and retry limits while requests run.

## 2. Plan

Order: the account plane first, because every request goes through it and a
lost update or a leaked lease is invisible to a unit test; then the requests
themselves; then what the processes share besides accounts.

| Module | Status | Abstract specification | Theorems |
|---|---|---|---|
| `AccountTypes`, `AccountStore` | done | - | - |
| `AccountTable`, `AccountSync` | done | `AccountMirror` | type, index, no lost update, refinement |
| `AccountDirectory` | done | - | type, index, load count, cap, retries, servable grants |
| `ProxyClearance` (single-flight, reload, feedback, refresh) | done | - | type, no waiter without a fetch, single flight where the code keeps it |
| `FailureCoalescer` | done | - | type, conservation of counted failures |
| `AccountRefresh` (refresh against concurrent writers, on-demand lock and throttle) | done | - | type, exclusion, spacing of the probes |
| `ToolSieve`, `GrokStream`, `ClientStream`, `RequestRelay` | done | - | accounts of the attempts, end mark, text, order of the summary, blocks |
| `MediaCache`, `VideoJobs` | done | - | type, accounts, complete streams, kept saves, index and directory, limit |
| `ImagineStream`, `ImageRequest` | done | - | reservations, images, percentages |
| `BatchTask`, `AdminService` over `AccountStore` | done | - | type, final result, cancellation, edits |
| Redis and SQL variants of `AccountStore` | open | `AccountMirror` | - |
| Directory composed with the repository (401, disable, resurrect) | open | - | - |
| Configuration and runtime reconcile, latency replication | open | - | - |

## 3. The modules and the code

**`AccountTypes`** - pools, modes, statuses, the record of a row.

**`AccountStore`** - `LocalAccountRepository`. `revision` is
`account_meta.revision`, `rows` the accounts table. Each mutating method is one
SQLite transaction and so one action: `UpsertAccounts`, `PatchAccounts`,
`DeleteAccounts`, `ReplacePool` (one transaction, two revisions). A row keeps
pool, status, the set of modes with a stored quota window, the soft-delete flag
and the revision. The oddities of the SQL are kept: an upsert that meets an
existing row makes it active and undeleted but keeps its quota columns, console
excepted; a patch neither reads nor clears the soft-delete flag; a call that
changes no row still bumps the revision. The patches are the kinds the callers build:
counters, status changes, a refresh that stores a pool and its windows, and the
copy that editing a token makes.

**`AccountTable`** - the columns a page changes, `_record_to_slot_args` with the
quota normalisation it applies, `_update_slot`/`_append_slot`, and the bucket
maintenance of `_remove_from_indexes` and `_add_to_indexes`. A slot index is
given to one token once, so slots are named by tokens.

**`AccountSync`** - every worker's bootstrap and sync loop over `AccountStore`.
`BootRead`/`BootLoad` are the two reads of `runtime_snapshot`, `ReadRevision` and
`ReadRows` the two statements of `scan_changes`, `ApplyPage` the loop body of
`apply_changes`, which has no await. `ScanFails` is the exception the loop logs.
`Crash` loses the process with its table. `_sync_lock` serialises scans, so a
worker has one scan at a time. `seen` is a history variable: the revision of the
row a slot was built from.

**`AccountMirror`** - the abstract specification of replication: versions that
only grow, copies that are never ahead and never move back.

**`AccountDirectory`** - one worker's directory under requests. The bodies under
`_lock` have no await, so the lock never makes anyone wait; a reservation, and
the release with feedback at the end of an attempt, are single steps. `SelectChat`/`RetrySelect` are
`reserve_account` before and after the on-demand refresh; `Reserve` tries modes
and pools in the code's order and renews the quota windows that `_quota_select`
renews on its way, also for the pools where it finds nobody. `SelectImage`, `StartStream`, `DropStream`
are the image handler that reserves before it returns its stream. `Sync` applies
any page the loop could bring. The eligible set is exact; which of its members
wins (score, health, tags, latency) is a free choice.

**`ProxyClearance`** - `ProxyDirectory` of one worker with its callers and the
`ProxyClearanceScheduler`. The bodies under the directory's lock have no await,
so a call runs in one step up to the two places where it suspends: `event.wait()`
and the FlareSolverr call. `GetOrBuild` has the four ways through
`_get_or_build_bundle` (a valid bundle, someone's event, a provider that answers
at once, the start of a fetch); `Acquire`, `Retry` and the scheduler's
`WarmNext` all go through it. `FetchDone` is the end of the fetch with its
`finally`, which removes whatever event the key has by then; `Cancel` is the
same for a request whose client leaves. `BeginRefresh`, `RefreshNext` and `Swap`
are `refresh_clearance_safe`, which takes no event. Every caller asks
`get_proxy_runtime()`, which reloads the configuration, and acquires without
suspending between, so `Acquire` starts with the load. The providers read the configuration snapshot and not the loaded one,
and so do the actions. The cursor counts modulo `CursorMod`, a common multiple
of the pools' lengths. No caller passes `resource`, and `invalidate_clearance`
has no caller: neither is an action. A missing `flaresolverr_url` is a fetch
that fails at once.

**`FailureCoalescer`** - `_FailureCoalescer` of one worker. `Enqueue` is
`enqueue`, `TakeBatch`, `ReadQuota` and `WriteBatch`/`FailWrite` the parts of
`_flush` between its awaits, run by the task or by `stop()`. `Stop` is the
cancellation and has the outcomes asyncio gives it: the task asleep, the batch
lost with it, or a write that its thread finishes alone (`"orphan"`). `Clear` is
a patch with `clear_failures`, which sets the counter to zero; `OtherWorker` is
a flush elsewhere. A buffer entry is the set of the failures merged into it, so
`fails` can be compared with what was written. A crash loses the buffer
and nothing promises otherwise; it is not an action. Its specification is
`CoalescerSpec`, and with fairness `CoalescerFairSpec`. The quota window that a
rate limit resets, and the copy of a counter by editing a token, are left out.

**`AccountRefresh`** - `AccountRefreshService` of one worker. A caller is a
coroutine inside one operation; `job` is what it holds over its awaits: the
operation, the accounts still to probe, and the rows as it read them. `StartCall`,
`StartToken`, `StartDemand` and `StartList` are the entries with their early
returns, `Read` and `List` the reads of the repository, `TakeLock` the grant of
`_od_lock` with the second look at the throttle. `EndProbe` is `_refresh_one` from
the answers to the patch, which runs on the captured row, `EndCall` the same for
`refresh_call_async`, `EndRejected` the branch for invalid credentials,
`ClearFailures` the second patch of a revival. `WriteFails` is a patch that
raises: `asyncio.gather` in `run_batch` leaves at once and the remaining probes go
on as orphans, outside the lock; the chunks of a scheduled refresh that had not
begun never begin. `Cancel` is a streaming request that is given up while it waits
in `refresh_on_demand`. `Edit` and `Elapse` are writes of others and reset times
that pass. A coroutine that finds the lock free takes it in a step of its own, so
the model has more interleavings than the code. The semaphore of `run_batch` and
the pauses between chunks are slow answers; an import is a scheduled refresh
without the filter on recent use, and that filter is a free choice of accounts.
No caller passes `triggered_by_token`. `server_blocked` is only returned; in
`AccountDirectory` it is a free choice. `probed` and `bulkProbed` are history
variables: when the last probe of each throttle began.

**`ToolSieve`** - the sieve and the parser behind it. A text is a sequence of
pieces cut where the code tells texts apart: plain words, the `<` that may begin a
tag, the rest of an opening or closing tag, a call of a declared or an undeclared
tool, a call in another format. A chunk may end inside a tag, so `Sieve` withholds
a trailing `<` and captures from an opening tag on; `FlushSieve` is the end of the
stream.

**`GrokStream`** - `StreamAdapter` with `ReasoningAggregator`, and
`ConsoleStreamAdapter`. A frame is a thought, text with citation marks, an image,
a source, a stop or an error in band. The heuristics that classify a line of
thought are inputs (section, track, level, language); what is modelled is what the
aggregator holds back until a language is settled, drops, merges and orders, and
where citations are placed in the text. The text of a line is its contents; the
two titles the aggregator writes itself are texts no line has.

**`ClientStream`** - the events each endpoint writes for what the adapter brings:
chunks of chat completions, items of responses, content blocks of messages, their
indices, the final event and the end mark. What a loop of the code gathers (frames
to events, lines to thoughts, chunks of a text) is a local recursive function over
the prefix done so far.

**`RequestRelay`** - one request through all its attempts. `Reserve` is the
exclusion of the accounts tried (the selection itself is in `AccountDirectory`),
`Open` the first events written, `Connect` and `Refused` the answer to the call,
`Read` one frame through the adapter, `Relay` one of the events that came of it
through sieve and client (the loop over `adapter.feed(data)`, where a client can leave
at each; events behind the one that ends the stream are dropped), `EndOfStream` and
`BreaksOff` its ends, `FlushSieve`, `ResolveImage`, `Complete` and `Confirm` what follows the loop,
`Compose` the body of a reply that is not streamed, `Disconnect` a client that goes
away at an event, `Settle` the `finally` with
release and feedback, which is also where a retry begins, and `RunSync` the
background task it leaves. Release and feedback wait for locks that are never
contended, so `Settle` is one step. The six endpoints are one module because they
are one loop with differences: when an attempt counts as a success, whether a
sieve is used, what is flushed at the end, what a retry keeps.

**`MediaCache`** - one media type's directory (`disk`) and index (`rows`) with the
guard. An operation is cut where a crash can tell: file written, row in the
transaction (`tx`), files removed one by one (`victims`), commit. A crash loses the
transaction and the guard and keeps the files.

**`VideoJobs`** - workers, requests and an administrator over `MediaCache`. A job
goes through reservation, post, segments, download and save in its background
task; a stream's generation feeds a queue that `Show` empties. `stage` is where the
coroutine stands, `load` the worker's in-flight count of the account. A job saves on
the event loop, so while it waits for the guard its worker does nothing else
(`Blocked`); a stream saves in a thread. `LoadConfig` is a worker taking notice of a
changed limit, `StartReconcile` and `Ready` the reconcile at startup, `Crash` loses
requests, queues and counts of a worker.

**`ImagineStream`** - `stream_images`, `_stream_round` and `_probe_ws_closed`: the server
starts slots, sends previews, completes or moderates them in any order, falls
silent or closes; the generator stands still at every yield. **`ImageRequest`** - its
consumers, of four kinds: a generation over the WebSocket, a batch of single
images with an account and retries each, an edit with its two attempts, and the web
UI's socket whose client starts and stops runs.

**`BatchTask`** - a batch with its semaphore, cancellation, final event and expiry,
and the event streams over bounded queues, with the snapshot, the ping and the
closing of the generator. **`AdminService`** - the handlers over `AccountStore`, one
action per repository call, interleaved with each other and with the batch's items;
`struck` marks an edit whose new token someone else removed. While an item runs, its
handler may patch the item's row (`HandlerPatches`, `HandlerWrites`): tags only, a
status of active or expired, or the pool and the windows a refresh fetched (`Fetched`);
a handler never writes the column of deletion. `HandlerEnds` is its return or its failure.
Between the check and the upsert of an import, and between the calls of an edit,
anything may be written.

**`MCAccountSync`, `MCAccountDirectory`, `MCProxyClearance`,
`MCFailureCoalescer`, `MCAccountRefresh`, `MCRequestRelay`, `MCVideoJobs`,
`MCImageRequest`, `MCAdminService`** give the constants values for TLC;
the `*Proofs` modules hold the theorems.

## 4. Runs

| Run | Question | Result |
|---|---|---|
| `sync` | Does replication lose, undo or misplace an update when a page holds all accounts? | holds |
| `sync_paged` | Does the table converge when one revision wrote more rows than a page holds? | violated, finding |
| `directory_capped` | Load count, cap, index, retries and grants under random and fast selection, with a lost image stream | holds |
| `directory_fair` | All strategies with quota windows, on-demand refresh and lost streams: does every request end? | holds |
| `clearance` | With reloads, failures and cancellations: does every waiter have a fetch to wait for, does a node that stays have one fetch per host, does every acquisition end? | holds |
| `refresh` | Any two operations of the refresh service with a fault, a cancellation and an edit: are on-demand probes exclusive and spaced, does every operation end and free the lock? | holds |
| `failures` | Is a failed call counted exactly once, through flushes, failing writes, resets and shutdown, and is the buffer written? | holds |
| `relay` | Six endpoints against every upstream script of the bound, with refusals, breaks, errors in band, retries and clients that leave: is the client's stream faithful and ended, is every attempt settled once? | holds (576,916 states) |
| `relay_retry` | Is a retry on another account invisible to the client? | violated, finding |
| `media` | A job, a stream and an administrator in two processes, with crashes and changing limits: do index and directory agree, does the limit hold, do saves survive, do accounts return and requests end? | holds (221,382 states) |
| `images` | Four kinds of image request with late, repeated and moderated frames, failing siblings and clients that leave: are images delivered once and in number, is every account returned? | holds (476,425 states) |
| `admin` | Two administrators and a batch whose handlers patch rows, call by call, with a crash and a full queue: does a renamed account survive, does a result stand, does every stream end? | holds (911,621 states) |

What the properties say. *IndexExact*: the buckets selection reads equal the
ones computed from the columns, whoever changed them. *SyncedUpToRevision*: what
a row says at a revision the table claims to have reached, the table says too.
*SeenIsShown* makes the history variable mean contents, so that the refinement
*MirrorsRepository* is about accounts and not about numbers. *Convergence*: once
writes stop the table agrees with the repository for ever. *InflightConserved*:
the load counter equals the holders plus the leases lost with streams that never
ran. It finds a release that is doubled or that hits a row someone moved; a lost
lease it counts and does not forbid, because the code has one: an account is reserved
before its stream's generator runs (`images.py:325`). Both directory runs lose one,
and no property says that none is lost. *NeverTheSameAccount* is the exclusion of the
accounts tried before; that a request ends when its attempts run out is *RequestsEnd*.
*InflightCapped*,
*NeverTheSameAccount*, *GrantsAreServable*, *RequestsEnd* are described at their definitions.

*WaitersHaveFetcher* and
*OneFetchPerKey* relate the stages of all coroutines to the events;
*FailuresConserved* puts each
failure in one place (buffer, a flush, counter, reset, dropped) and makes the
counter the number of those it counts. *OneFetchPerKey* is about nodes that every configuration keeps, because a
reload that drops a node and a later one that brings it back leave the first
fetch running without an event, and about acquisitions: the scheduled refresh takes
no event. *AcquiresEnd* is their liveness.

*TokenProbesSpaced* and *BulkProbesSpaced* compare a probe's beginning with the
beginning of the one before: requests that pass the first look at the throttle
together and wait for the lock must not probe one after the other. What is
excepted is in the code: an operation that raises or is cancelled leaves the time
as it was. *OneOnDemand* says that single and bulk refreshes share one lock and
that nothing which goes wrong in one lets two in; *OperationsEnd* is its liveness.

*TextFaithful* compares what a stream's client was given with what the model
said, through the buffers of sieve and adapter: a prefix at any time, with images and
sources only behind all of it, at the end all
but what belongs to tool calls, citations at the positions of their marks.
*EndMark*: the end mark follows the final event, nothing follows it, no attempt
that has written it is retried, and a stream is a success for its account only if
it was written. *AttemptsAccounted* relates all attempts of a request to loads,
feedback and background tasks. *PlainBlocksNest* is about the blocks of
thoughts, text and calls in the four formats that number them. Excepted is what the code
is observed to do otherwise (section 6): calls found while a text block is open, which
the flush of messages alone closes first; thoughts that follow text, as in summary
mode; and a reply of thoughts only in the format of responses. *SummaryInOrder*
is about the reordering of thoughts in summary mode: a section's title once and before
its lines, and no scope behind evidence or findings, except for lines flushed late. *RequestEnds* is their
liveness. *RetryIsTransparent* is what the docstring of a chat promises.

*IndexMatchesDisk* is about quiet states: no operation runs, the workers have
started, and nothing was saved under another limit since the last reconcile. It
needs every order of file and index operations to be recoverable. *DiskBounded* is
about the directory and not about the index. *SaveKept*: whoever evicts, what a
save was called for is there when the save returns. *AccountsReturned* ties the
count to the stages, in every worker and after every failure. *StreamComplete*:
the progress queue is empty when a stream delivers its video.

*ImagesDelivered* counts and compares the images a client got, over rounds,
reconnections and attempts. *HonestPercent*: 100 % is not shown before as many
images as wanted were reported complete. *ReservationsReturned* compares each
account's count with its holders, siblings of a failed task included.

*FinalIsFinal*: when the result is published every item is recorded or skipped, and
a stream that has ended by itself has shown the counts that stand.
*NothingStartsCancelled* is about the items that wait for the semaphore when the
batch is cancelled. *EditKeepsAccount* relates the two rows of an edit over its
four calls, whatever other requests write between them. *StreamsEnd*: a stream ends
although the queue may have lost the final event.

Bounds. Two accounts are what a page order, an index move or a retry to another
account needs. Three revisions allow create, change, delete (or add, delete,
re-add) of an account, and `replace_pool` takes two of them in one step. One worker is enough for
replication, because a worker only reads the repository and its writers are
every interleaving of `Write`. One crash reaches a restart at every point. In
the run `sync`, `expired` stands for both statuses that are not active: the
table treats them alike. `directory_capped` has a cap of one and two requests, so the
boundary is met at once, and one lost stream; it sets quota windows to zero because random and
fast do not read them. `directory_fair` has one account for two requests, so they starve each other, a
window of one unit, one retry and one lost stream. `clearance` has two
requests and the scheduler, so that one can fetch, one wait and one be
cancelled or refresh; two nodes and two changes among four configurations, so
that a node is dropped and comes back, the mode changes under a fetch and the
cursor wraps; and three acquisitions, so that one request comes back.
`refresh` has two operations by two callers on two accounts, with one fault, one
edit and a clock of three values around an interval of one: a second request can
pass the first look, wait for the lock and find the interval over or not. Two
callers are enough for the lock, because a third that waits takes it in the same
step as the second. Windows have the size zero there, since no property of that run
but the type reads them. `failures` has three failures on two accounts, so that one is in a flush, one in
the buffer and one counted or dropped, and one write fails (`MaxWriteFaults`).
`relay` has two accounts and one retry, so that an attempt can fail, be retried and
fail again; three frames an attempt cut a tag in every way and leave room for a frame
before and after; each request has the frames that its options tell apart, and two
votes and two held lines stand for the code's three and four. `relay_retry` is one
chat without tools. `media` has a job of two segments on the worker that may
crash and a stream on the other, three files of which one was left behind by an
earlier service, limits none and two (files of sizes 1, 2 and 1, so that a save must
evict), one operation of the administrator, one crash and one queued progress value.
`images` wants two of three slots in at most two rounds, so a slot can be late or moderated
and replaced; two accounts with one request each, two tasks, one retry, three
messages of the web UI's client. `admin` has two accounts and two requests, of which
one edits, toggles or saves and the other deletes or replaces a pool, five revisions, a batch of
both accounts one at a time, and one follower with a queue of one, which loses an
event as soon as two are published. In `relay` deadlock is checked: only an ended
request stutters. Counters are
bounded by guards (`MaxRevision`, `MaxRestarts`, `MaxLost`), never by a
constraint, so liveness is checked on complete graphs. The runs say
`CHECK_DEADLOCK FALSE` where the bounded system may really stop: when no write
and no crash is left; the directory can always take a step, but its runs share the setting.

Fairness. `AccountSync`: a worker boots and its loop goes round for ever
(`_sync_loop` catches every exception but cancellation), hence weak fairness;
strong fairness of `ReadRows` says that the database does not fail for ever.
Writes and crashes have none. `AccountDirectory`: asyncio runs every ready task,
an upstream call ends by answer, error or timeout, and a returned stream is
iterated or dropped. Clients, sync pages, strategy changes and time have none, so no
request's end depends on them. `ProxyClearance`: a FlareSolverr call has a
timeout and the loop resumes a coroutine whose event is set. Acquisitions are
bounded there: without a bound newcomers could fetch, fail and be replaced for
ever ahead of a waiter, since the event does not queue its waiters.
`AccountRefresh`: the event loop goes on with some operation while one can; the
repository answers and a request to the usage API has a timeout
(`xai_usage.py:132`). `FailureCoalescer`: the task wakes at each interval (`_run` catches what a flush
raises) and a repository call returns. `RequestRelay`: upstream answers, ends or
breaks off (the transports have timeouts), the handler goes on, background tasks
run; an event read is relayed before the next frame (`EventRelayed`); the upstream
need not send anything and clients need not leave. `VideoJobs`:
as long as a task, a thread or a worker can proceed one of them does, upstream
calls end, and the SSE loop that empties a queue is a task of its own;
crashes and the administrator have none, and `RequestsEnd` excuses a job that
expired or whose worker died. `ImageRequest`: calls to the upstream end in an
answer, an error or a timeout; `BatchesEnd` says nothing of generations over the
WebSocket, which may go on for ever (section 6). `BatchTask`: items that hold a slot
end, waiting items get one, a stream's generator is resumed by an event or by its
15 s timeout; the administrator's requests have none.

## 5. Proofs

`AccountSyncProofs` proves `ReplicationInvariant`: type correctness, the index
equal to the slots, and the relations that make the scan sound: a table's
revision and a scan's revision never exceed the repository's, a row's revision
never exceeds it, a page read holds rows no newer than the repository and no
older than what the slots were built from, and a slot built from a row's
current revision shows that row. None of the properties is inductive alone; `SyncedUpToRevision` in
particular needs to know what is in flight between `ReadRevision` and
`ApplyPage`. It needs one assumption more, `UnpagedScan` (a page can hold all
accounts); `sync_paged` shows what happens without it.
`ImplementsMirror` proves the refinement, step by step, for any number of
accounts, workers, writes, crashes and any page size.

`AccountDirectoryProofs` proves `DirectoryInvariant`: types, a lease exactly in
the stages that hold one, a held lease only for a slot that exists, the exact
index, the load count as the cardinality of the holders, and that a lease is
never on an excluded account. From it: `InflightAlwaysConserved`,
`RetriesMoveOn`, `GrantsAlwaysServable`, and `CapHolds` under the assumption
that the quota strategy is not configured: that strategy reads no in-flight count
(`selector.py:137`). The lemmas about pages and buckets come first in `AccountSyncProofs`; those
needed here are stated here again, over this module's variables.

`ProxyClearanceProofs` proves `ClearanceInvariant`: types, every waiter's
fetcher fetches the waiter's key, every event belongs to a coroutine that
fetches its key, and, the converse that makes single flight inductive, a fetch
of a key whose node every configuration keeps has the key's event. The
changes that steps make (a reload, a move, a join, a start, an end) are
lemmas about values, and each action is one or two of them.
`NobodyIsForgotten` and `FetchesAreSingle` follow.

`AccountRefreshProofs` has the proofs of two modules. Of `FailureCoalescer` it
proves `CoalescerInvariant`: types, that a flusher
holds a batch only inside a flush, `InOnePlace`, and the counters as
cardinalities. That no batch is overwritten by the next is what the second part
is for. `EveryFailureCounted` follows, for any number of failures, accounts and
failing writes.

Of `AccountRefresh` it proves `RefreshInvariant`: types, `JobOK` (which stages an
operation goes through, and that it has read the rows it will write), `HolderOK`
(an on-demand job lists or probes exactly while it holds the lock), and
`TokenTimes`/`BulkTimes` (a probe that has begun is either under way or no later
than the stored time). `OnDemandIsExclusive` is the second part. Spacing follows
because a job begins to probe when the lock was free, so no earlier probe is under
way and the second look at the throttle speaks of all of them; for the bulk refresh
this needs `ListDue` too: between the look and the probes nobody sets the time.

`VideoJobsProofs` proves `AccountsCorrect`: each worker's count equals the
cardinality of its requests in holding stages, for any requests, workers, failures
and crashes; a stage change moves a request into or out of that set exactly when the
count changes. `StreamCorrect` needs `StreamInv`: what is shown and what waits in
the queue together cover what was reported, and a stream that has its content has an
empty queue. `SaveCorrect` needs `SavingInv`: inside its save a
request holds the guard, and its file is there and not a victim; a crash, an
administrator or another save cannot be inside the guard at that time.
`TypeCorrect` contains that no in-flight count is negative, which follows from
`AccountsCorrect`, and that no scaled percentage exceeds 100.

`IndexCorrect` and `BoundCorrect` follow from one invariant, `DiskInv`: either
something excuses the cache (`Unsettled`: no limit, a save under another limit, or a
worker that is still to reconcile), or `CacheSound` holds. That says of a free guard
that index and directory have the same files and that these are within the limit
(`Within`), and of a taken one that the transaction is the directory without the
victims, so that the commit after the last victim restores the first. `StampInv`, that
no two files have the same time, makes the file an eviction spares unique; `GuardInv`
and `AdminInv` say under which limit a reconcile runs. A crash inside the guard leaves
a worker that must reconcile, which is why `Unsettled` mentions the stages of the
workers. What an eviction leaves is a minimum over sets of files: the lemmas about
`Usage` and the files kept are proved from cardinalities, since the size of a set of
files is the number of its counted bytes.

`ImageRequestProofs` proves `ReservationsCorrect`, `ImagesCorrect` and
`PercentCorrect`. `AccountInv` relates each account's count to its users, who they are
to the stages, and an ended response to the stages of its tasks: the failure of a task cancels its
siblings, and the response ends only when each of them has been through its `finally`.
`StreamInv` is about one connection: ids of slots and of pending final events
are distinct, and an id is not both to be completed and completed.
`DeliveredInv` adds what the client has: nothing delivered is pending or live, and a
generation that is still running has delivered as many images as it has collected,
which is what makes a second round continue the count. `PercentInv` relates the
percentages to the set of images reported complete, for every combination of readings.

`RequestRelayProofs` proves the five properties of `relay`, for every number of
frames, pieces, retries and accounts. The invariants are stated in this order and each
uses those before it:
- `StreamTypes`, the sets the values of adapter, sieve and client stay in;
- `BookInv`: an account is held exactly within an attempt, an account that ended is
  excluded, and only ended ones have background tasks (`BookCorrect`);
- `OutInv`: in which stages the stream has no end mark, and in which it has one, last
  and after a final event (`EndMarkCorrect`); the chat endpoint differs, because it
  leaves the loop as soon as it has found calls;
- `TextInv`: the model's text is what was written, then what the sieve holds back,
  then what waits to be relayed (`Carried`). `Holds` says what the sieve can hold:
  nothing, a `<`, or a tag that has begun, and never after a text that could end in
  one. `TextCorrect` follows, with the positions of the citations;
- `SummaryInv`: the thoughts shown follow each other, their sections are known to
  the aggregator, and no line that waits is a title (`SummaryCorrect`);
- `BlocksInv`: the indices used so far were opened once, filled and closed while open,
  and those still open are the ones the client's flags tell (`NestedAt`). It needs
  `ThoughtsFirst`, that no message begins while thoughts may come, which in turn is a
  fact about the adapter: it turns every thought away once its text has begun
  (`BlocksCorrect`). The sieve holds nothing while thoughts may come, so calls are
  found only after them; their blocks then follow each other from the next free index,
  by induction on the number of calls.

The model's loops are local recursive functions, and what they return for every
input is not a matter of one leaf. `Recursion` says that steps over a set can be run
one after the other, so a function with the equations of the loop exists, and `Upwards`
that what holds at 0 and is kept by each step holds at N; both are proved from the least element of a set of naturals, with the
property given as a set of naturals because no prover can instantiate an operator.
`FlushPendingRuns`, `AppendedRuns` and their like then give each fold one lemma, cited
by all the invariants.

`AdminServiceProofs` proves `TypeCorrect`, `FinalCorrect`, `CancelledCorrect` and
`EditCorrect`. The inductive invariant adds to the types `FinalKnown` (what a stream
has shown, or may take from its queue as final, is the result) and `NewIsLive` (an
edit that is past its upsert has the new token in the repository unless it was
struck, and that it is not the old one). `EditKeepsAccount` then follows step by step: only the edit's own delete
removes the old token on its behalf, and that comes last.

Assumptions on constants are the named ASSUMEs of the modules: tokens and
requests are finite sets, bounds are natural numbers, the null values are not
records. Three say more about inputs: the scenarios of `relay` are requests the
endpoints accept, and a console request has no sieve; the times of two files left
behind by an earlier service differ (the code orders by nanoseconds and then by name);
images are a finite set and a batch has as many tasks as images are wanted.

Every safety property of a passing run is a theorem. Only model-checked: liveness
(`Convergence`, `RequestsEnd` of both modules, `AcquiresEnd`, `EventuallyWritten`,
`OperationsEnd`, `RequestEnds`, `BatchesEnd`, `StreamsEnd`), which rests on fairness
and so on ENABLED. `sync_paged` and `relay_retry` are counterexamples and have nothing
to prove. The type invariants of the
modules with theorems are proved and not repeated as properties of the runs.
The quota renewal is proved only to keep its type, and of the parser of tool calls only
what the sieve releases is proved, not which calls it recognises.

## 6. Findings

1. A scan cut at `batch_limit` loses the rest of the change
   (`app/dataplane/account/sync.py:150`, run `sync_paged`).
2. A chat stream that fails after text was sent is retried and sends its beginning
   again (`app/products/openai/chat.py:690`, run `relay_retry`).

Observations made while modelling. They are in the models where a module covers
the code, and no run is about them.

Accounts and proxy:
- the quota strategy does not look at the in-flight count, so `max_inflight` does
  not bound it (`selector.py:137`);
- the scheduled clearance refresh takes no event and can fetch beside a request
  (`control/proxy/__init__.py:373`);
- a failure advances the pool's cursor whichever node failed, so two reports on one
  node of a pool of two return to it (`control/proxy/__init__.py:215`);
- a revival reactivates an account that was disabled while its quota was fetched
  (`control/account/refresh.py:533`);
- `stop()` cancels a flush whose batch has left the buffer and does not put it back
  (`refresh.py:856`);
- a 401 is undone in a worker's table by a later page with the row unchanged
  (`feedback.py:91`);
- `table.size` drifts below the number of live slots when an account is deleted and
  added again (`sync.py:122`, `sync.py:144`); it is only reported.

Text endpoints:
- messages: when calls arrive while a text block is open, the tool block starts at
  the text block's index (`anthropic/messages.py:430`); the flush path closes the
  text first;
- responses: the items of calls begin at 0 or 1 (`responses.py:392`), which is the
  message's index when text came before; a reply of thoughts only never closes its
  reasoning item; both formats drop the text that the sieve released together with
  calls;
- the sieve recognises opening tags in any case (`_tool_sieve.py:37`), but looks for one
  that is cut between chunks in lower case only (`_tool_sieve.py:143`): a cut
  `<TOOL_CALLS>` is passed on as text. The model has lower-case tags only;
- a trailing `<` that the sieve withholds is lost when the stream ends there;
- in summary mode a pending line can be flushed after text;
- a client that leaves on the end mark makes its account's attempt count as a
  server error.

Images and videos:
- consumers leave the generator at its error event, so the proxy feedback behind
  that yield (`imagine_ws.py:356`) does not run;
- a WebSocket that fails to connect reports an error without its status, so an
  account with bad credentials is not marked (`images.py:342`, `images.py:417`,
  against the comment at `images.py:391`);
- after a timeout or a close more than `n` final images can be yielded; a prompt
  that is always moderated goes round for ever; the probe between rounds drops the
  frame it reads (`imagine_ws.py:86`);
- stopping a web UI run before its `try` is reached ends the socket's handler
  (`webui/imagine.py:79`, `103`);
- a run cancelled while it waits for the lock of a reservation ends alone; the model
  has no step of its own for it, its account not being reserved yet;
- the preparation of an edit releases on `Exception` only, not on cancellation
  (`images.py:1162`);
- a client that leaves an edit or batch stream does not stop the collecting;
- a job's save runs on the event loop (`video.py:901`); its account is a success
  though the save may fail; its file may be evicted later; jobs are lost in a crash
  and expire counted from their creation;
- a worker that has not seen a new limit saves without a row, until the next
  reconcile.

Administration:
- imports check and then upsert (`web/admin/tokens.py:257`), so an account disabled
  or edited in between is made active;
- an edit works from the record it read first; its new token is active between
  upsert and patch even if the old one was disabled; editing a deleted token
  brings it back under the new name;
- a full queue drops events, the final one too; the stream's ping delivers it up to
  15 s later.

## 7. Not modelled

- **SQL and Redis backends**: the same promises over isolation levels, scripts and
  pipelines; three hazards are listed at their lines.
- **Refresh scheduler, leadership and reconcile; latency replication and probes**:
  a lock file and timers around operations that `AccountRefresh` models; latency
  only orders accounts.
- **Configuration backends, startup migration**: reading and rewriting files.
  `ProxyClearance`, `AccountDirectory` and `VideoJobs` take changes of the
  configuration as steps.
- **Dataplane proxy runtime, request building, gRPC-web, uploads, usage queries**:
  pure functions and single calls; their outcomes are inputs.
- **Listings, configuration pages, the web UI's chat page, authentication, logging,
  static pages**.
- In modelled components: request and response payloads; wording; scores, health
  and tags beyond their effect on eligibility; usage counters; a row whose columns cannot
  be parsed; saturation of 16-bit columns, which is outside every reachable load; a
  failing `flock`, an `unlink` that fails on an existing file; the loss of a batch in
  a crash (only the repository survives one, and the batch's followers are gone
  with it); the quota probe after an import, which is `AccountRefresh`'s; tags; the
  chunks of a large import, one call here; a save that names a token in two pools;
  console images.

asyncio's atomicity between awaits is taken from the language.
