# A TLA+ development of cicache

cicache is a caching HTTP(S) proxy for CI jobs. `cicache start` spawns a daemon
that intercepts the job's downloads, answers what it has and stores what it has
not in the GitHub Actions cache; `cicache stop` drains the uploads, prints a
summary and cleans up. This directory models the parts of it that are hard to
test: the store with its concurrent requests, uploads and flush, the protocol
with the cache service, what many jobs hand on to each other, the proxy with
its caching policy, the counters, the pack format, and the commands that share
a state directory.

`PROJECT.json` lists components, runs, mutants, the lines each definition
models, findings, hazards and theorems. This file explains them.

## 1. Inventory

| component | state it keeps | operations | what makes it correct |
|---|---|---|---|
| Object store, `store.rs` | object directory; sets `index`, `remote_misses`, `queued`, `packed` with two dirty flags; sender slot, channel, semaphore | `load_index`, `load_pack`, `get`, `put`, `upload_loop`, `flush`, `save_index`, `save_pack` | one upload per key; a drain that misses nothing and ends; a manifest that is complete and backed; a pack of whole entries |
| Cache-service client, `gha.rs` | the `exhausted` latch | `put` (reserve, upload, finalize), `get`, `fetch`, `get_scoped`, `put_scoped` | a 429 silences the client for the rest of the job; refusals are told from failures; documents of a scope build on each other |
| Proxy, `proxy.rs` | listener, per-connection tasks, shutdown channel | `serve`, `dispatch`, `control`, `connect`, `intercept`, `handle`, `fetch_and_store`, `forward` | the response of the URL that was asked for; only eligible responses are stored; each request is counted once |
| Caching policy, `policy.rs` | none | `request_eligible`, `response_storable`, `is_bypassed`, `key` | the table of README.md; one key per resource |
| Commands, `main.rs` | `state.json`, `summary.json`, `~/.curlrc`, the keychain, the job's environment | `start`, `run`, `stop` | the job is pointed at a ready daemon whose CA it trusts; what is added can be taken out; no step hangs |
| Statistics, `stats.rs` | counters, request log | `record*`, `summary`, `render` | what is reported happened |
| Pack container, `pack.rs` | none | `encode`, `decode` | a ceiling; room that is used; what survives a truncation |
| Entry format, `entry.rs` | none | `new`, `encode`, `decode` | end-to-end headers survive; damage is noticed |
| Certificate authority, `ca.rs` | key pair, the CA's files, per-host configurations | `generate`, `write_files`, `server_config` | the files belong to the daemon in use |
| Actions and workflows | none | installation | none modelled |

How they interact. A connection task of the proxy asks the policy, calls
`Store::get`, decodes the entry, and on a miss fetches upstream and calls
`Store::put`, which writes a local file and hands large objects to the upload
task through a channel and small ones to the pack. The upload task spawns one
`GhaCache::put` per object under a semaphore. Each answer is recorded in the
counters. The shutdown endpoint (called by `stop`) ends `serve`; `run` then
calls `flush` while open connections keep running, writes `summary.json` and
exits. `start` and `stop` see the daemon only through files and that one call;
jobs see each other only through the service.

What is hard: everything between two awaits of a task may be interleaved with
other tasks; hyper drops a handler when its client goes away; the service can
refuse, rate limit, lose an answer or evict; other jobs write to the same
service; local writes are not atomic; the commands wait with deadlines for a
daemon that has none. `PROJECT.json` lists each such hazard at its line.

## 2. Modules

| module | what it is |
|---|---|
| `GhaCache` | `GhaCache::put` as a call of three awaits, the 429 latch, and the service as the client can observe it |
| `Store` | one daemon's store: requests, upload queue, flush, and the outside world; composes `GhaCache` |
| `Drain` | abstract specification of the upload queue and of the manifest's content |
| `StoreInv`, `StoreProofs` | the inductive invariant of `Store`, its proof and what follows |
| `TeardownProofs` | the second part of that invariant: the files behind the pack, and the counters |
| `StoreRefines` | proof that `Store` implements `Drain` |
| `Jobs`, `JobsProofs` | many jobs, their scopes, manifests and packs over one service |
| `Policy` | the caching policy as operators |
| `Proxy`, `ProxyProofs` | connections, tunnels, requests and their answers; uses `Policy` |
| `Stats`, `StatsProofs` | counters updated and read one by one |
| `Pack`, `PackProofs` | the container of small objects, encoded, cut off, decoded |
| `Lifecycle`, `LifecycleProofs` | `start`, `run`, `stop` over a state directory that outlives them |
| `MC*` | instances for TLC |

### GhaCache

`service` holds the entry of each key: absent, reserved by this job (`"ours"`)
or by another (`"theirs"`), or finalized with somebody's bytes. `call[k]` is the
progress of this job's `put()` for `k`: spawned, waiting for the answer to
create, to the blob upload or to finalize, then `"true"`, `"false"` or `"err"`
for `Ok(true)`, `Ok(false)` and `Err`. `PutBegin` is the early return of an
exhausted client; `CreateReply`, `BlobReply` and `FinalizeReply` are the three
answers; `RateLimited` is a 429 and `ReplyLost` any other failure, with or
without the effect on the service. `ServiceStep` is what other jobs and
eviction do.

Two assumptions about the service, which is external: it says "409",
"already_exists" or `ok = false` to a create only for a key that is held, and a
reservation is not taken away from a job that is working on it.

### Store

One action per stretch of code between two awaits.

| code | actions |
|---|---|
| `load_index`, `load_pack` | `LoadIndex`, `LoadPack` |
| `Store::get` | `Read`, `Lookup`, `GetReply`, `OpenBack`, `WriteBack` |
| `handle`, `fetch_and_store` | `Decode`, `FetchReply` |
| `Store::put` | `FetchReply` (the claim), `OpenPut`, `WritePut`, `Enqueue`, `Send` |
| hyper dropping a handler | `Disconnect` |
| `upload_loop` | `Spawn`, `Upload` with `Settle` |
| `flush` | `Shutdown`, `Drained` |
| `save_index` | `SaveIndex`, `IndexPut` |
| `save_pack`, `pack::encode` | `SavePack`, `ReadPack`, `Encode`, `PackPut` |
| `stop` giving up | `StopRemoves` |
| other jobs | `ServiceMoves`, `OtherManifest` |

File contents are abstracted to what `Entry::decode` and the pack tell apart:
absent, empty, broken, the entry another job encoded, the entry this job
encoded. `put()` measures the entry it has just written, so a key may be small in
one job and large in another: `Small` and `Large` are the sides of the threshold a
key can fall on in this one, and may overlap (`EnqueueSmall`, `EnqueueLarge`).
`Listable` and `Packable` bound what earlier and other jobs have put into manifest
and pack. `tokio::fs::write` opens with truncation and then writes, so it is two
steps; a second writer in between may leave the tail of the longer entry
(`Overlay`). With `DiskMayFail` a write may fail at either step (`Torn`). A
file operation that has begun runs to its end on a thread of its own, so a
dropped handler never leaves one half done: `Disconnect` is possible where the
handler waits for the service, for the upstream, or for a file operation that
is complete. `manifest` and `pack` are the newest scoped entries that
`get_scoped` finds. `loaded` and `damaged`, and `reserved` and `finalized` of
`GhaCache`, are history variables that no action reads.

The file written by `load_pack` is one step, because nothing else runs before
the listener serves. Each request task handles one request; two tasks on one
key are two connections, or two requests of a connection.

### Jobs

A job reads the newest manifest and pack of its scope (`Load`), works (`Work`),
files what it gained (`File`) and ends (`Exit`). What `Store` does between is one
step: other jobs cannot see the order in which a job learns of keys. `filed` is
the sequence of documents in the order they were finalized. `Matches` is the
prefix search of `scoped_prefix`: a scope is the sequence of its dash-separated
parts, and a scope of more parts is found by the lookup of a shorter one. A
document is not filed when the client is exhausted, the call fails, or the key,
stamped in seconds, is taken. History fields of a document (`read`, `blind`)
record what its job had read.

### Policy and Proxy

`Policy` has an operator for each function of `policy.rs`. Host names and paths
are sequences of tokens with dots as tokens of their own, so that suffixes and
the character before a suffix mean what they mean in the code. `Key` stands for
the digest of the normalised URL; digests are taken to be collision free. A URL
that leaves out its port has a key of its own kind (`NoPort`), so that one that
names port 0 does not share it. A URL's host is a name, or an address in one
pair of brackets, as the `url` crate writes them (`WellFormedHost`).

| code | actions of `Proxy` |
|---|---|
| `dispatch`, `absolute_url` | `Take`, part of `Connect` and `Handle`; `Respond` |
| `connect`, `tunnel` | `Connect`, `Upgrade` |
| `intercept`, `Ca::server_config` | `Intercept` |
| `handle` | `Handle`, `Lookup` |
| `forward` | `Forward` |
| `fetch_and_store` | `Fetch`, `Put`, `Stored` |
| `sanitize`, `Entry::new`, `replay`, `build`, `stream_response` | `Sanitize`, `Entry`, `Replay`, `Build`, `Relay`, `Buffered` |
| hyper dropping a handler | `Disconnect` |

A body is where it comes from: the resource asked for and the response it was
part of. The store is reduced to what it promises: the first entry put under a
key may be found again, or not. Control endpoints and replies to malformed
requests touch no state of this module. Redirects are the origin's business: the
answer belongs to the URL that was asked for.

### Stats

The counters are independent atomics with relaxed ordering, so each update and
each load is a step of its own, and those of one call come in any order.
`Record` begins a call of `record()`, `Bump` is one `fetch_add`, `Summarise`
begins a `summary()` and `Load` is one of its loads. `Proxy` takes `record()` as
one step; what that leaves out is exactly what `Stats` adds.

### Pack

`EncodeRecord` is one round of the encoder's loop, `Deliver` cuts the container
off at any byte, `DecodeMagic`, `DecodeRecord` and `DecodeEnds` are the decoder.
Bytes are represented by the record they belong to and by their number. Keys
are hexadecimal digests and always UTF-8, so the check for that never fails on a
container that `encode` wrote.

### Lifecycle

`at` is where the running step (start or stop) is, `daemon[d]` what each
spawned daemon does. `state.json` and `summary.json` are absent, partly
written, or name the daemon that wrote them, since `std::fs::write` creates a
file before it fills it. `MayBeLate` lets booting and flushing outlast the 20 s
of `start` and the `--timeout-secs` of `stop`; without it a wait ends only when
the file is there or nobody is left to write it. Steps of a job run one after
the other, so start and stop never overlap each other.

| code | actions |
|---|---|
| `start`, `wait_for_state` | `StartSpawns`, `StartSees`, `StartTimesOut` |
| `write_curlrc`, `clear_curlrc` | `StartConfigures`, `StopClears` |
| `install_system_trust`, `remove_system_trust`, `run_bounded` | `TrustBegins`, `TrustSkipped`, `TrustEnds`, `TrustTimesOut` |
| `export_environment` | `StartExports` |
| `run` | `Mint`, `Boot`, `Announce`, `Fail`, `FlushEnds`, `Report` |
| `control`, Ctrl-C | `StopPosts`, `Interrupt` |
| `stop` | `StopReads`, `StopPosts`, `StopSees`, `StopGivesUp`, `StopPrints`, `StopClears`, `StopSweeps` |

`bundle` is the daemon whose CA the files in the directory hold; `Mint` writes
both files in one step, since nobody reads them before the daemon is announced.
A mint that fails between the two is a daemon that fails. `curlrc` is the set of
kinds of lines in `~/.curlrc`: the user's, a `cacert` line among them, and the two
that start adds. `std::fs::write` truncates first, so a write that fails leaves any
beginning of the new contents (`Written`, with the lines in `LineOrder`). `child`
says whether a step waits for `security(1)`, and whether that has outlived its
kill: run_bounded ignores the result of kill() and then waits without a limit.
`DiskMayFail` lets writes, reads and removals of these files fail.

The environment assumption: the shutdown request is a loopback call and reaches
a daemon that serves. What `Store` does during a flush is one phase here.

## 3. Runs

Passing runs:

| run | instance | checks |
|---|---|---|
| `store_safety` | one key that may be small, large, listed and packed, two requests, failing disk, fairness | types, `PackIntact`, `WarnsUnlessDeclined`, `ClaimNotLost`, `FlushTerminates` |
| `store_uploads` | two large keys, two requests, one permit | `UploadedOnce`, `FlushDrains`, `PermitsConserved`, `ManifestComplete`, `ManifestBacked`, refinement of `Drain` |
| `jobs` | three jobs of two scopes, two at a time | types, `ListedIsHeld`, `EntriesKept` |
| `proxy` | two connections, three requests, twelve kinds of request, eight of response | `ReplayedAsReceived`, `FollowsTableOneHeader`, `CountedOnce` |
| `stats` | two tasks, three records, a summary | `CountersAgree`, `SummaryAccounts` |
| `pack` | up to three objects, six limits, every cut | `Ceiling`, `NoRoomWasted`, `YieldsIntact` |
| `lifecycle` | two daemons, timeouts, failing disk, fairness | types, `EnvironmentReady`, `SummaryIsFinal`, `NoneForgotten`, `TrustsItsDaemon`, `CurlrcRecoverable`, `StepsEndOrWait` |

What they show:

- `UploadedOnce`: the claim in `queued` is enough to keep two racing requests
  for one URL from uploading it twice.
- `ClaimNotLost`: the claim is never withdrawn, and no failing local write
  makes an object disappear between the claim and the uploader. A client that
  goes away during `put()` does: the claim stays and nobody uploads.
- `FlushDrains`: a `put()` that cloned the sender before `flush()` emptied the
  slot is waited for, and nothing starts an upload afterwards.
- `PermitsConserved`: a failed upload gives its permit back.
- `ManifestComplete`: every key the uploads confirmed is in the manifest, and
  a manifest that is not written because it is not dirty would add nothing.
- `ManifestBacked`, `ListedIsHeld`: an exhausted client answers `Ok(false)` for
  keys that nobody stored, which `upload_loop` lists as held by others. The
  properties say why this is harmless, in one job and through any chain of jobs:
  the same flag stops the manifest from being filed.
- `EntriesKept`: what jobs that run one after the other hand on. A job that has
  read its scope's newest document files all of it again. Nothing is said of a
  document filed after the job had read (`concurrent_kept` below), of a job that
  could not read, of one that found another scope's document instead, and of a pack
  that is full.
- `PackIntact`: `save_pack` reads files while requests write them. An object
  enters `packed` only after its file is complete, and the claim keeps another
  put() from writing it again. The exception is a key that the manifest listed
  when the job began, because its entry was a large one then: there get() may be
  writing what it downloaded to the file of an object that put() has packed, and
  the mixture goes into the pack. It is the race of `local_copy_readable`.
- `WarnsUnlessDeclined`: README.md's promise that `stop`
  warns after a run that cached nothing, that is, of which no object and no pack
  ever became readable. It is kept unless put_scoped() answered `Ok(false)` for the pack, which a client that met a 429
  does and a refused finalization does; the violation run below shows that.
- `ReplayedAsReceived`: nothing is served under a URL that it was not received
  for, through whichever tunnel, with its status and with those of its end-to-end
  headers that are text; entry.rs:44-49 drops the others.
- `FollowsTableOneHeader`: the code agrees with the table of README.md:66-73, stated
  independently of the code's functions, in both directions, for requests of any
  kind and for responses with one `Cache-Control` header at most.
- `CountedOnce`, `CountersAgree`: `record()` runs once on each of the paths of
  a handler, failing ones included, and its updates add up.
- `SummaryAccounts`: a summary is no snapshot, and how far it may be off.
- `Ceiling`, `NoRoomWasted`, `YieldsIntact`: the limit includes the framing, an
  object that is too large does not shut out the ones after it, and a cut
  costs exactly the records it touches.
- `FlushTerminates`, `StepsEndOrWait`: the flush does not hang, and start and stop
  hang on nothing but a `security(1)` that could not be killed.
- `EnvironmentReady`, `SummaryIsFinal`: what start exports is ready, what stop
  prints is final.
- `NoneForgotten`: as long as no start has given up, a daemon that serves is the one
  that `state.json` names. A stop that ends, in whichever way, leaves either the file
  or a daemon that has been told to flush.
- `TrustsItsDaemon`: all daemons of a directory write the same CA files, and
  still the job trusts the daemon it talks to, unless an earlier start gave up
  on one that boots later.
- `CurlrcRecoverable`: what start adds stays marked wherever a write breaks off,
  because the marker is written before the line it marks and both are removed in one
  rewrite.

Violation runs, one per finding in `PROJECT.json`:

| run | what TLC shows |
|---|---|
| `warns_if_nothing_cached` | a pack that was declined is counted as packed, and the warning of README.md:55-56 is not printed |
| `local_copy_readable` | get() and put() mix two entries in one file, and the claim prevents the repair |
| `concurrent_kept` | of two overlapping jobs of a scope the one that files last drops what the other added (README.md:111-112, store.rs:196-197) |
| `stored_only_if_table` | a no-store in the second `Cache-Control` header is not seen (README.md:61-62, 71) |
| `stop_drains` | a second cycle in one state directory finds the first cycle's summary (main.rs:39) |

Deviations that the models show or the reading found, without a run of their own:

- `store.rs:282` says that the manifest never advertises what failed to upload;
  `gha.rs:249` returns `Ok(false)` for a refused finalization, which is listed.
- `main.rs:103-105` says that jobs keep separate state. A scope whose text
  followed by a dash begins another scope's finds that one's documents (`Matches`).
- README.md:150-151 says that bypassed hosts are forwarded blind; `proxy.rs:179`
  decides by the port alone, and a bypassed host on 443 is decrypted (`Upgrade`).
- `main.rs:368-372` says that run_bounded bounds the command; kill() may fail, its
  result is ignored, and wait() has no limit (`TrustTimesOut`).
- `main.rs:427` says that clear_curlrc leaves anything else alone; it removes every
  line that begins with `cacert = `, the user's included (`ClearCurlrc`).
- `main.rs:566-569` finds nothing to stop when the daemon writes its `state.json`
  after start gave up on it; that daemon stays.
- README.md:110 and `gha.rs:158-159` call a document's key unique; it is stamped in
  seconds (`gha.rs:167`), and the second of two jobs of a scope and a run that end
  in the same second is declined (`File`).
- `proxy.rs:333` says that forwarded bodies are streamed in both directions; the
  request's body is read whole (`proxy.rs:239`). A response without a declared
  length is buffered past `max_size`.
- write_curlrc takes a file it cannot read for an empty one, and overwrites it
  (`main.rs:412`).
- `main.rs:354` warns when the certificate may remain, but not when
  `security(1)` ends with an error.
- A `put()` that reaches the sender slot after `flush()` emptied it is reported
  as stored (`stats.rs:55`) and dropped (`Enqueue` with `tx = "closed"`).
- `PackPut` counts the objects read, not the ones `pack::encode` kept
  (`stats.rs:25`).
- A summary taken while requests are counted may show more stored than missed.
- `StopPrints` on a summary that exists but has no content yet ends with an
  error before the cleanup.

### Bounds

Two requests are enough for every race of two tasks on a key, and a third
request on the same key finds the claim or the file in a state that one of the
two already produced. Two large keys and one permit make an object wait in the
channel while another is uploaded; the proofs cover every other number. In
`store_safety` the key may fall on either side of the threshold and be listed or
packed by earlier jobs in any way; in `store_uploads` keys are large and none is
packed, since the questions are about the queue. The proofs assume neither, and cover
a daemon without a cache service, of which there is no run. In
`Jobs`, three jobs of which two overlap give one that reads before, and one that
reads after, the other files; one scope is a prefix of the other, and the pack
has room for one object of two. In `Proxy`, three requests on two connections
(`MaxRequests`, which does not count CONNECT) let one store, one race it and
one replay; hosts are a bypassed one, a subdomain, a neighbour that ends alike,
a bracketed address and one with known artifacts, sizes lie at, below and above
both limits. In `Stats`, three records (`MaxRecords`) let one precede, one
overlap and one follow the beginning of a summary. `Pack` has limits with no
room, an exact fit, and room for all. Two daemons cover one that start gave up
on, or one left by an earlier cycle, next to the current one; the proofs cover
any number. Counters in `Store` need no cap: each request counts at most once.
Channel length is bounded by the number of keys, because each key is claimed
once. Requests, connections and tasks are symmetric everywhere; keys only where
all are of one size. Symmetry is used in no run with a liveness property.

### Deadlock

Deadlock is checked in all runs. `Exited` and the `Finished` actions let a
system that has ended stutter; `Lifecycle` always admits another stop.

### Fairness

`Store`: the client is built with a 120 s timeout, so a call to the service
ends (`WF(Upload(k))`, `WF(Flush)`); the upload loop is polled when it has work
(`WF(Spawn)`); and there is no await between cloning the sender and using it
(`WF(Send(r))`). Upstream fetches have no timeout and get no fairness:
`FlushTerminates` holds even when they never end. `Lifecycle`: the commands are
sequential and their waits have deadlines, and a daemon that boots or flushes
goes on. Nothing is assumed of `security(1)`, neither that it ends nor that it can
be killed: `TrustEnds` is outside the fair actions, and the deadline of
`run_bounded` either ends the step or leaves it waiting. Serving
daemons have no obligation to stop. The shutdown call of `stop` has no timeout
of its own; that it ends rests on the loopback listener, which is either served,
or gone with the call refused.

## 4. Proofs

For all sets of keys, requests, jobs, scopes, tasks and daemons, any concurrency
and any limit.

| theorem | statement |
|---|---|
| `StoreProofs!TypeCorrect` | `Spec => []TypeOK` |
| `StoreProofs!SingleUpload` | `Spec => []UploadedOnce` |
| `StoreProofs!NoClaimLost` | `Spec => []ClaimNotLost` |
| `StoreProofs!PermitsKept` | `Spec => []PermitsConserved` |
| `StoreProofs!DrainComplete` | `Spec => []FlushDrains` |
| `StoreProofs!ManifestMissesNothing` | `Spec => []ManifestComplete` |
| `StoreProofs!ManifestHonest` | `Spec => []ManifestBacked` |
| `StoreRefines!Refinement` | with a service, `Spec => ImplementsDrain` |
| `TeardownProofs!PackSafe`, `WarnsSafe` | `Spec => []PackIntact`, `Spec => []WarnsUnlessDeclined` |
| `TeardownProofs!WarnsWithoutService` | without a service, `Spec => []WarnsIfNothingCached` |
| `ProxyProofs!ReplaySafe`, `TableSafe`, `EveryRequestCountedOnce` | `ReplayedAsReceived`, `FollowsTableOneHeader`, `CountedOnce` |
| `JobsProofs!TypeCorrect`, `ManifestsHonest`, `NothingElseDropped` | `TypeOK`, `ListedIsHeld`, `EntriesKept` |
| `StatsProofs!CountersSafe`, `SummarySafe` | `CountersAgree`, `SummaryAccounts` |
| `PackProofs!CeilingSafe`, `SkipsOnlyWhatIsTooLarge`, `DecodesWhatIsIntact` | `Ceiling`, `NoRoomWasted`, `YieldsIntact` |
| `LifecycleProofs!TypeCorrect`, `EnvironmentSafe`, `SummarySafe`, `NoneForgottenSafe`, `TrustSafe`, `CurlrcSafe` | the invariants of `Lifecycle` |

`StoreProofs` proves `Spec => []IInv` with `IInv` of `StoreInv`, from
`StoreAssumption` and `ScopedAssumption`. The properties alone are not
inductive:

- `UploadedOnce` needs `Claims`: a claimed key has exactly one owner, the
  request putting it (or one that was dropped on the way), the channel, or an
  upload call.
- `PermitsConserved` needs that a spawned key had no call before, again from
  `Claims`, and `IsFiniteSet(Keys)` for the cardinalities.
- `ManifestComplete` needs `IndexRecords`: `index` is what was loaded plus what
  was confirmed, and it is not dirty only if it adds nothing.
- `ManifestBacked` needs `Backing`: an index key is backed by the service or
  the client is exhausted, and a client that is exhausted never gets a put of
  the manifest past its first step.
- `Quiet` says that nothing moves before the listener serves and that the
  manifest's entry is untouched before `save_index`.

The proof that a step preserves each part goes through frame lemmas
(`OutsideQueue`, `RequestShape`, `IndexIdleShape`) that say in a line what most
actions leave alone, so only the few that matter are treated one by one.

The refinement assumes `HaveGha`: without a service the channel is emptied into
nothing, and an accepted upload never settles.

`TeardownProofs` adds `TeardownInv` of `StoreInv`:

- `PackIntact` needs `PackedFiles`: the file of a packed key decodes, because a
  request that may still write it holds the claim and has not packed it yet, and
  one that might come to write it finds the claim taken. That is said of the keys
  in `Trusted`, those whose file nobody damaged and that the manifest did not list,
  and needs `Downloads` (get() writes back only what the index lists, and a packed
  key that was not listed does not get there, its one put() having packed it),
  `OldPack` (until flush() ends the pack in the scope is an earlier job's), and
  `Claims` for there being one putter. `PackedBodies` carries the statement from the
  files to the bodies save_pack() has read.
- The warning needs `Reports`: an upload is counted as stored only when its entry
  became readable, and a pack is counted as packed only when its put() did not fail;
  and `NoService`, that without a service nothing is ever asked of it, so nothing is
  declined.

`ProxyProofs`: `CountedOnce` is inductive once each connection's task is known to
hold a request where it needs one. `ReplayedAsReceived` and `FollowsTableOneHeader`
need `Entries`: every entry was received for a URL with its key and was storable
then; `KeyDetermines` shows that two URLs of one key are one resource. The table
is stated without the code's functions, so its proof is that the functions
compute it: `MatchesCovered` for `host_matches` with its index arithmetic
(through `SuffixElements`, on `IsSuffix` of the library), `EligibleRows`,
`ArtifactRows` and, for one header, `StorableRows`. It assumes of requests and responses only
their types and `WellFormedHost`.

`JobsProofs`: `ListedIsHeld` needs `KnownIsHeld`, that a client which is not
exhausted knows only keys that are held. `EntriesKept` needs `Reading`, that a
job knows what the newest document it could find listed, and `ReadBefore`. The
core is `FiledKeeps`: the newest document found is either the last of the job's
own scope, and then its entries are in the new one, or it is a foreign one
filed after it.

`StatsProofs`: `CountersAgree` needs `OneResult`, that a record has one outcome
to count; the numbers of tasks half way are cardinalities that each step
changes by one. `SummaryAccounts` needs `Snapshot`: there are values, those of
the counters when the summary began, that include every record complete then
and that every loaded value is at least.

`PackProofs`: `NoRoomWasted` needs the same statement for the objects looked at
so far; it survives because the container only grows. `YieldsIntact` speaks of
the offsets at which records end, a recursive sum over records, which would take
an induction over sequences. `DecodeInv` avoids it: it says of every function
that satisfies the recurrence that its offsets are increasing and end where the
container ends, and each step of the encoder extends such a function by one
(`OffsetsAppend`). The induction over records is the induction over steps.

`LifecycleProofs` uses `IInv` of `Lifecycle`: files and history variables name
only daemons that got far enough, a daemon that reports has drained, and the
daemon that stop addresses takes no new connections once it was told.
`TrustsItsDaemon` and `NoneForgotten` need `OneStarts`: while no start has given up,
at most one daemon is starting, a start waits for it, `state.json` does not name
another one meanwhile and names the daemon that the running step addresses, and the
CA files are those of that daemon. `CurlrcRecoverable` is inductive by
`WrittenRecoverable`: no beginning of the lines has the added one without its
marker.

Model-checked only: the liveness properties `FlushTerminates` and `StepsEndOrWait`,
since the prover handles neither fairness nor `ENABLED`. Every invariant and
every action property of a passing run is also proved.

## 5. Not modelled

- Certificates and TLS: cryptography. Minting a leaf is a step that may fail;
  two connections that mint one for the same host at once both get a valid one,
  and clients cannot tell which was kept.
- The text of errors, the JSON of entries and of the service's messages, the
  request log and rendering.
- Containers and entries with corrupted bytes, other than as content that does
  not decode: what the lengths in them say is arbitrary.
- Content negotiation: no part of the code takes it into account.
- Memory use, byte counts and times.
- A crash of the daemon without any cleanup is `Fail` in `Lifecycle`; nothing
  is recovered afterwards, since no code does.
- Command-line parsing, the actions and the workflows.

## 6. Plan

Done: all modules above.

Next:

1. A refinement of the reduced store in `Proxy` by `Store`, so that what `Proxy`
   assumes of a cache is what `Store` provides.
2. The same for the one-step jobs of `Jobs`: a job's `Load`, `Work` and `File`
   as what a `Store` does from `LoadIndex` to the end of its flush.
