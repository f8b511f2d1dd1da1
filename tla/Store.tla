------------------------------- MODULE Store -------------------------------
(***************************************************************************)
(* One job's daemon: the two-level object store of src/store.rs, driven by *)
(* the cacheable requests of Proxy::handle and Proxy::fetch_and_store      *)
(* (src/proxy.rs), its upload task, and the flush that ends the job.       *)
(*                                                                         *)
(* A step of the model runs from one await of the code to the next.        *)
(* Requests, upload tasks and the flush are tokio tasks on several         *)
(* threads, so their steps interleave freely.                              *)
(***************************************************************************)
EXTENDS GhaCache, Sequences, FiniteSets

CONSTANTS
    Small, Large,  \* keys whose entry may turn out smaller than
                   \* StoreConfig.pack_threshold in this job, or not smaller
    Listable,      \* keys other jobs may have entries for, so that a manifest
                   \* may list them, and
    Packable,      \* keys a pack of an earlier job may hold: bounds on the
                   \* outside world that do not depend on sizes in this job
    Requests,      \* request tasks, each handling one eligible GET
    Concurrency,   \* permits of the semaphore: StoreConfig.concurrency.max(1)
    PackLimit,     \* StoreConfig.pack_limit, counted in objects
    HaveGha,       \* GhaCache::from_env() found a service
    DiskMayFail    \* writes to the object directory may fail

ASSUME StoreAssumption ==
    /\ Small \cup Large = Keys
    /\ Listable \subseteq Keys /\ Packable \subseteq Keys
    /\ Concurrency \in Nat \ {0}
    /\ PackLimit \in Nat
    /\ HaveGha \in BOOLEAN
    /\ DiskMayFail \in BOOLEAN
    /\ IsFiniteSet(Keys)

VARIABLES
    \* the object directory and the sets of struct Store
    file, remote_misses, queued, index, index_dirty, packed, pack_dirty,
    \* the upload queue: the sender slot, the channel, the semaphore
    tx, channel, permits,
    \* request tasks: program counter, key asked for, bytes in hand
    pc, req, got,
    \* run()/flush(): where it is, and the bodies it is about to file
    phase, listed, packTodo, objects, encoded,
    \* newest manifest and pack that get_scoped finds for the scope
    manifest, pack,
    \* counters of stats.rs that the teardown reports
    stored, entries_stored, uploads_failed, packed_count,
    \* history: the manifest as loaded; keys whose file a failing write may
    \* have damaged or `cicache stop` has removed under the daemon
    loaded, damaged

diskVars  == <<file, damaged>>
setVars   == <<remote_misses, queued, index, index_dirty, packed, pack_dirty>>
queueVars == <<tx, channel, permits>>
reqVars   == <<pc, req, got>>
flushVars == <<phase, listed, packTodo, objects, encoded>>
scopeVars == <<manifest, pack>>
statVars  == <<stored, entries_stored, uploads_failed, packed_count>>
vars == <<ghaVars, diskVars, setVars, queueVars, reqVars, flushVars,
          scopeVars, statVars, loaded>>

(***************************************************************************)
(* What a file of the object directory holds.  "empty" is a file that was  *)
(* opened and truncated but not written yet; "broken" is any other         *)
(* byte string that Entry::decode refuses.  The entry another job encoded  *)
(* ("remote") and the one this job encodes ("fresh") differ, in stored_at  *)
(* at least.                                                               *)
(***************************************************************************)
Intact == {"remote", "fresh"}
Content == {"absent", "empty", "broken"} \cup Intact

\* Entry::decode checks magic, lengths and digest.
Decodes(c) == c \in Intact

\* write(2) of a whole entry at offset 0 of what is in the file by then:
\* nothing to see when the file was unlinked meanwhile, and over another
\* entry the tail of the longer one survives.
Overlay(old, new) ==
    IF old = "absent" THEN {"absent"}
    ELSE IF old \in {"empty", new} THEN {new} ELSE {new, "broken"}

\* A write that fails half way leaves a prefix of what it should have written.
Torn(old) == IF old = "absent" THEN {"absent"} ELSE {old, "broken"}

Phase == {"load_index", "load_pack", "serving", "drain", "save_index",
          "index_put", "save_pack", "read_pack", "pack_put", "done"}
Answered == {"hit", "stored", "miss", "error"}
Dropped == {"gone", "dropped"}
Pc == {"idle", "lookup", "rpc", "open_back", "write_back", "fetch",
       "open_put", "write_put", "enqueue", "send"} \cup Answered \cup Dropped

\* A connection outlives the listener, so requests keep arriving during flush.
Serving == phase \notin {"load_index", "load_pack", "done"}
Uploading == {k \in Keys : InFlight(k)}
Confirmed == {k \in Keys : call[k] \in PutOk}

Init ==
    /\ GhaInit
    /\ \A k \in Entries \ Listable : service[k] = "absent"
    /\ file = [k \in Keys |-> "absent"]
    /\ remote_misses = {} /\ queued = {} /\ index = {} /\ packed = {}
    /\ index_dirty = FALSE /\ pack_dirty = FALSE
    /\ tx = "open" /\ channel = <<>> /\ permits = Concurrency
    /\ pc = [r \in Requests |-> "idle"]
    /\ req \in [Requests -> Keys]
    /\ got = [r \in Requests |-> "absent"]
    /\ phase = "load_index"
    /\ listed = {} /\ packTodo = {} /\ encoded = {}
    /\ objects = [k \in Keys |-> "absent"]
    /\ manifest \in SUBSET Listable
    /\ pack \in {p \in [Keys -> {"absent", "remote", "broken"}] :
                     \A k \in Keys \ Packable : p[k] = "absent"}
    /\ stored = 0 /\ entries_stored = 0 /\ uploads_failed = 0 /\ packed_count = 0
    /\ loaded = {} /\ damaged = {}

-----------------------------------------------------------------------------
(***************************************************************************)
(* Startup: load_index and load_pack, one call each before any traffic.    *)
(***************************************************************************)

\* fetch() of a scoped entry that yields nothing: no service, an exhausted
\* client, a failed call, or the call that is answered with a 429.
FetchFails == UNCHANGED exhausted \/ (HaveGha /\ ~exhausted /\ exhausted' = TRUE)

LoadIndex ==
    /\ phase = "load_index"
    /\ phase' = "load_pack"
    /\ \/ /\ HaveGha
          /\ index' = manifest /\ loaded' = manifest
          /\ UNCHANGED exhausted
       \/ FetchFails /\ UNCHANGED <<index, loaded>>
    /\ UNCHANGED <<service, call, histVars, diskVars, remote_misses, queued, index_dirty,
                   packed, pack_dirty, queueVars, reqVars, listed, packTodo,
                   objects, encoded, scopeVars, statVars>>

\* Each object is written to its file and counted as packed if that worked.
LoadPack ==
    /\ phase = "load_pack"
    /\ phase' = "serving"
    /\ \/ /\ HaveGha /\ ~exhausted
          /\ LET inside == {k \in Keys : pack[k] # "absent"} IN
             \E bad \in IF DiskMayFail THEN SUBSET inside ELSE {{}} :
                 /\ packed' = inside \ bad
                 /\ \E left \in [bad -> {"absent", "empty", "broken"}] :
                        file' = [k \in Keys |-> IF k \in bad THEN left[k] ELSE pack[k]]
          /\ UNCHANGED exhausted
       \/ FetchFails /\ UNCHANGED <<packed, file>>
    /\ UNCHANGED <<service, call, histVars, damaged, remote_misses, queued, index,
                   index_dirty, pack_dirty, queueVars, reqVars, listed, packTodo,
                   objects, encoded, scopeVars, statVars, loaded>>

-----------------------------------------------------------------------------
(***************************************************************************)
(* A cacheable request: Store::get, Entry::decode, and on a miss the       *)
(* upstream fetch and Store::put.                                          *)
(***************************************************************************)

Goto(r, l) == pc' = [pc EXCEPT ![r] = l]

\* Proxy::handle on the bytes that get() returned.
Decode(r, c) ==
    /\ got' = [got EXCEPT ![r] = c]
    /\ Goto(r, IF Decodes(c) THEN "hit" ELSE "fetch")

\* get() reads the local file, whatever is in it at that moment.
Read(r) ==
    LET c == file[req[r]] IN
    /\ Serving
    /\ pc[r] = "idle"
    /\ IF c = "absent" THEN Goto(r, "lookup") /\ UNCHANGED got ELSE Decode(r, c)
    /\ UNCHANGED <<ghaVars, diskVars, setVars, queueVars, req, flushVars,
                   scopeVars, statVars, loaded>>

\* No local file: only a key in the index and not known to be absent is asked for.
Lookup(r) ==
    LET k == req[r]
        asks == HaveGha /\ k \in index /\ k \notin remote_misses
    IN
    /\ pc[r] = "lookup"
    /\ Goto(r, IF asks /\ ~exhausted THEN "rpc" ELSE "fetch")
    /\ remote_misses' = IF asks /\ exhausted THEN remote_misses \cup {k}
                                             ELSE remote_misses
    /\ UNCHANGED <<ghaVars, diskVars, queued, index, index_dirty, packed,
                   pack_dirty, queueVars, req, got, flushVars, scopeVars,
                   statVars, loaded>>

\* The answer to gha.get(): the entry (possibly damaged in the blob store),
\* no entry, an error, or a 429.
GetReply(r) ==
    LET k == req[r]
        miss == Goto(r, "fetch") /\ remote_misses' = remote_misses \cup {k}
                /\ UNCHANGED got
    IN
    /\ pc[r] = "rpc"
    /\ \/ /\ service[k] \in Readable
          /\ \E c \in {service[k], "broken"} : got' = [got EXCEPT ![r] = c]
          /\ Goto(r, "open_back")
          /\ UNCHANGED <<remote_misses, exhausted>>
       \/ miss /\ UNCHANGED exhausted
       \/ miss /\ exhausted' = TRUE
    /\ UNCHANGED <<service, call, histVars, diskVars, queued, index, index_dirty, packed,
                   pack_dirty, queueVars, req, flushVars, scopeVars, statVars,
                   loaded>>

\* get() copies what it downloaded to the local file; errors are ignored.
OpenBack(r) ==
    /\ pc[r] = "open_back"
    /\ \/ /\ file' = [file EXCEPT ![req[r]] = "empty"]
          /\ Goto(r, "write_back")
          /\ UNCHANGED got
       \/ DiskMayFail /\ Decode(r, got[r]) /\ UNCHANGED file
    /\ UNCHANGED <<ghaVars, damaged, setVars, queueVars, req, flushVars,
                   scopeVars, statVars, loaded>>

WriteBack(r) ==
    LET k == req[r] IN
    /\ pc[r] = "write_back"
    /\ \/ /\ \E c \in Overlay(file[k], got[r]) : file' = [file EXCEPT ![k] = c]
          /\ UNCHANGED damaged
       \/ /\ DiskMayFail
          /\ damaged' = damaged \cup {k}
          /\ \E c \in Torn(file[k]) : file' = [file EXCEPT ![k] = c]
    /\ Decode(r, got[r])
    /\ UNCHANGED <<ghaVars, setVars, queueVars, req, flushVars, scopeVars,
                   statVars, loaded>>

\* Mutant of FetchReply: put() no longer looks whether the key is claimed.
FetchReplyUnclaimed(r) ==
    /\ pc[r] = "fetch"
    /\ queued' = queued \cup {req[r]}
    /\ Goto(r, "open_put")
    /\ UNCHANGED <<ghaVars, diskVars, remote_misses, index, index_dirty, packed,
                   pack_dirty, queueVars, req, got, flushVars, scopeVars,
                   statVars, loaded>>

\* fetch_and_store: upstream fails, answers with something response_storable
\* refuses, or with something to store, for which put() starts by claiming
\* the key.  A key already claimed is reported as stored at once.
FetchReply(r) ==
    LET k == req[r] IN
    /\ pc[r] = "fetch"
    /\ \/ Goto(r, "error") /\ UNCHANGED <<queued, stored>>
       \/ Goto(r, "miss") /\ UNCHANGED <<queued, stored>>
       \/ /\ k \in queued
          /\ Goto(r, "stored") /\ stored' = stored + 1
          /\ UNCHANGED queued
       \/ /\ k \notin queued
          /\ queued' = queued \cup {k}
          /\ Goto(r, "open_put")
          /\ UNCHANGED stored
    /\ UNCHANGED <<ghaVars, diskVars, remote_misses, index, index_dirty, packed,
                   pack_dirty, queueVars, req, got, flushVars, scopeVars,
                   entries_stored, uploads_failed, packed_count, loaded>>

\* Mutant of OpenPut: the key joins the pack before its file is written.
OpenPutPacksFirst(r) ==
    /\ pc[r] = "open_put"
    /\ file' = [file EXCEPT ![req[r]] = "empty"]
    /\ packed' = packed \cup ({req[r]} \cap Small)
    /\ pack_dirty' = (pack_dirty \/ req[r] \in Small)
    /\ Goto(r, "write_put")
    /\ UNCHANGED <<ghaVars, damaged, remote_misses, queued, index, index_dirty,
                   queueVars, req, got, flushVars, scopeVars, statVars, loaded>>

\* Mutant of OpenPut: put() gives up when the local file cannot be written.
OpenPutGivesUp(r) ==
    /\ pc[r] = "open_put"
    /\ \/ file' = [file EXCEPT ![req[r]] = "empty"] /\ Goto(r, "write_put")
       \/ DiskMayFail /\ Goto(r, "stored") /\ UNCHANGED file
    /\ UNCHANGED <<ghaVars, damaged, setVars, queueVars, req, got, flushVars,
                   scopeVars, statVars, loaded>>

OpenPut(r) ==
    /\ pc[r] = "open_put"
    /\ \/ /\ file' = [file EXCEPT ![req[r]] = "empty"]
          /\ Goto(r, "write_put")
          /\ UNCHANGED damaged
       \/ /\ DiskMayFail
          /\ damaged' = damaged \cup {req[r]}
          /\ Goto(r, "enqueue")
          /\ UNCHANGED file
    /\ UNCHANGED <<ghaVars, setVars, queueVars, req, got, flushVars, scopeVars,
                   statVars, loaded>>

WritePut(r) ==
    LET k == req[r] IN
    /\ pc[r] = "write_put"
    /\ \/ /\ \E c \in Overlay(file[k], "fresh") : file' = [file EXCEPT ![k] = c]
          /\ UNCHANGED damaged
       \/ /\ DiskMayFail
          /\ damaged' = damaged \cup {k}
          /\ \E c \in Torn(file[k]) : file' = [file EXCEPT ![k] = c]
    /\ Goto(r, "enqueue")
    /\ UNCHANGED <<ghaVars, setVars, queueVars, req, got, flushVars, scopeVars,
                   statVars, loaded>>

\* Below the threshold an object joins the pack.
EnqueueSmall(r) ==
    LET k == req[r] IN
    /\ k \in Small
    /\ packed' = packed \cup {k}
    /\ pack_dirty' = (pack_dirty \/ k \notin packed)
    /\ Goto(r, "stored") /\ stored' = stored + 1

\* For a larger one the sender is cloned out of its slot, which flush() may
\* have emptied.
EnqueueLarge(r) ==
    /\ req[r] \in Large
    /\ IF tx = "open"
       THEN Goto(r, "send") /\ UNCHANGED stored
       ELSE Goto(r, "stored") /\ stored' = stored + 1
    /\ UNCHANGED <<packed, pack_dirty>>

\* put() measures the entry it has just written, so a key may fall on either
\* side of the threshold whatever an earlier job did with it.
Enqueue(r) ==
    /\ pc[r] = "enqueue"
    /\ EnqueueSmall(r) \/ EnqueueLarge(r)
    /\ UNCHANGED <<ghaVars, diskVars, remote_misses, queued, index, index_dirty,
                   queueVars, req, got, flushVars, scopeVars, entries_stored,
                   uploads_failed, packed_count, loaded>>

Send(r) ==
    /\ pc[r] = "send"
    /\ channel' = Append(channel, req[r])
    /\ Goto(r, "stored") /\ stored' = stored + 1
    /\ UNCHANGED <<ghaVars, diskVars, setVars, tx, permits, req, got, flushVars,
                   scopeVars, entries_stored, uploads_failed, packed_count, loaded>>

\* The client goes away, and hyper drops the handler where it awaits.  A write
\* to disk that has begun goes on without it, so a handler dropped during
\* put()'s write is one that never gets to the queue.
Disconnect(r) ==
    /\ pc[r] \in {"lookup", "rpc", "fetch", "enqueue"}
    /\ Goto(r, IF pc[r] = "enqueue" THEN "dropped" ELSE "gone")
    /\ UNCHANGED <<ghaVars, diskVars, setVars, queueVars, req, got, flushVars,
                   scopeVars, statVars, loaded>>

-----------------------------------------------------------------------------
(***************************************************************************)
(* upload_loop and its tasks.                                              *)
(***************************************************************************)

\* The loop takes the next message once it has a permit for it and spawns a
\* task; without a service the message is dropped.
Spawn ==
    /\ channel # <<>>
    /\ permits > 0
    /\ channel' = Tail(channel)
    /\ IF HaveGha
       THEN /\ call' = [call EXCEPT ![Head(channel)] = "spawned"]
            /\ permits' = permits - 1
       ELSE UNCHANGED <<call, permits>>
    /\ UNCHANGED <<service, exhausted, histVars, diskVars, setVars, tx, reqVars, flushVars,
                   scopeVars, statVars, loaded>>

\* Mutants of Settle: the permit is released twice; it is kept by a failed
\* upload; only keys this job stored itself are listed; every key is.
SettleTwice(k, result) ==
    /\ permits' = permits + 2
    /\ index' = index \cup {k} /\ index_dirty' = TRUE
    /\ UNCHANGED <<entries_stored, uploads_failed>>

SettleKeeps(k, result) ==
    /\ permits' = IF result = "err" THEN permits ELSE permits + 1
    /\ UNCHANGED <<index, index_dirty, entries_stored, uploads_failed>>

SettleOwnOnly(k, result) ==
    /\ permits' = permits + 1
    /\ index' = IF result = "true" THEN index \cup {k} ELSE index
    /\ index_dirty' = (index_dirty \/ index' # index)
    /\ UNCHANGED <<entries_stored, uploads_failed>>

SettleAny(k, result) ==
    /\ permits' = permits + 1
    /\ index' = index \cup {k}
    /\ index_dirty' = (index_dirty \/ k \notin index)
    /\ UNCHANGED <<entries_stored, uploads_failed>>

\* What the task does with put()'s result before it drops its permit.
Settle(k, result) ==
    /\ permits' = permits + 1
    /\ IF result \in PutOk
       THEN index' = index \cup {k} /\ index_dirty' = (index_dirty \/ k \notin index)
       ELSE UNCHANGED <<index, index_dirty>>
    /\ entries_stored' = entries_stored + (IF result = "true" THEN 1 ELSE 0)
    /\ uploads_failed' = uploads_failed + (IF result = "err" THEN 1 ELSE 0)

Upload(k) ==
    /\ \E to \in PutStage :
           /\ PutStep(k, to)
           /\ IF to \in PutResult
              THEN Settle(k, to)
              ELSE UNCHANGED <<permits, index, index_dirty, entries_stored,
                               uploads_failed>>
    /\ UNCHANGED <<diskVars, remote_misses, queued, packed, pack_dirty, tx,
                   channel, reqVars, flushVars, scopeVars, stored, packed_count,
                   loaded>>

-----------------------------------------------------------------------------
(***************************************************************************)
(* Shutdown: run() leaves its select and calls Store::flush.               *)
(***************************************************************************)

\* Mutant of Shutdown: a sender stays behind in its slot.
ShutdownKeepsSender ==
    /\ phase = "serving"
    /\ phase' = "drain"
    /\ UNCHANGED <<ghaVars, diskVars, setVars, queueVars, reqVars, listed,
                   packTodo, objects, encoded, scopeVars, statVars, loaded>>

\* flush() empties the sender slot.
Shutdown ==
    /\ phase = "serving"
    /\ phase' = "drain"
    /\ tx' = "closed"
    /\ UNCHANGED <<ghaVars, diskVars, setVars, channel, permits, reqVars, listed,
                   packTodo, objects, encoded, scopeVars, statVars, loaded>>

\* The receiver sees the end of the channel when every sender is gone, and
\* the loop then joins its tasks.
UploaderDone ==
    /\ tx = "closed"
    /\ \A r \in Requests : pc[r] # "send"
    /\ channel = <<>>
    /\ Uploading = {}

\* Mutant of Drained: upload_loop returns without joining its tasks.
DrainedNoJoin ==
    /\ phase = "drain"
    /\ tx = "closed" /\ channel = <<>>
    /\ \A r \in Requests : pc[r] # "send"
    /\ phase' = "save_index"
    /\ UNCHANGED <<ghaVars, diskVars, setVars, queueVars, reqVars, listed,
                   packTodo, objects, encoded, scopeVars, statVars, loaded>>

Drained ==
    /\ phase = "drain"
    /\ UploaderDone
    /\ phase' = "save_index"
    /\ UNCHANGED <<ghaVars, diskVars, setVars, queueVars, reqVars, listed,
                   packTodo, objects, encoded, scopeVars, statVars, loaded>>

SaveIndex ==
    /\ phase = "save_index"
    /\ IF HaveGha /\ index_dirty
       THEN /\ listed' = index
            /\ call' = [call EXCEPT !["index"] = "spawned"]
            /\ phase' = "index_put"
       ELSE phase' = "save_pack" /\ UNCHANGED <<listed, call>>
    /\ UNCHANGED <<service, exhausted, histVars, diskVars, setVars, queueVars, reqVars,
                   packTodo, objects, encoded, scopeVars, statVars, loaded>>

\* put_scoped(.., "index", ..): once finalized it is the newest manifest.
IndexPut ==
    /\ phase = "index_put"
    /\ \E to \in PutStage :
           /\ PutStep("index", to)
           /\ phase' = IF to \in PutResult THEN "save_pack" ELSE phase
    /\ manifest' = IF service'["index"] # service["index"]
                      /\ service'["index"] = "fresh" THEN listed ELSE manifest
    /\ UNCHANGED <<diskVars, setVars, queueVars, reqVars, listed, packTodo,
                   objects, encoded, pack, statVars, loaded>>

SavePack ==
    /\ phase = "save_pack"
    /\ IF HaveGha /\ pack_dirty
       THEN packTodo' = packed /\ phase' = "read_pack"
       ELSE phase' = "done" /\ UNCHANGED packTodo
    /\ UNCHANGED <<ghaVars, diskVars, setVars, queueVars, reqVars, listed,
                   objects, encoded, scopeVars, statVars, loaded>>

\* The packed files are read one by one; one that cannot be read is skipped.
\* Keys are read in the order of their digests, which may be any order.
ReadPack(k) ==
    /\ phase = "read_pack"
    /\ k \in packTodo
    /\ packTodo' = packTodo \ {k}
    /\ objects' = [objects EXCEPT ![k] = file[k]]
    /\ UNCHANGED <<ghaVars, diskVars, setVars, queueVars, reqVars, phase, listed,
                   encoded, scopeVars, statVars, loaded>>

InPack == {k \in Keys : objects[k] # "absent"}

\* pack::encode keeps what fits below the ceiling.
Encode ==
    /\ phase = "read_pack"
    /\ packTodo = {}
    /\ IF InPack = {}
       THEN phase' = "done" /\ UNCHANGED <<encoded, call>>
       ELSE /\ \E S \in SUBSET InPack :
                   /\ IF Cardinality(InPack) <= PackLimit
                      THEN S = InPack
                      ELSE Cardinality(S) = PackLimit
                   /\ encoded' = S
            /\ call' = [call EXCEPT !["pack"] = "spawned"]
            /\ phase' = "pack_put"
    /\ UNCHANGED <<service, exhausted, histVars, diskVars, setVars, queueVars, reqVars,
                   listed, packTodo, objects, scopeVars, statVars, loaded>>

\* Mutant of PackPut: the packed objects are counted whatever the result.
PackPutCountsErrors ==
    /\ phase = "pack_put"
    /\ \E to \in PutStage :
           /\ PutStep("pack", to)
           /\ phase' = IF to \in PutResult THEN "done" ELSE phase
           /\ packed_count' = IF to \in PutResult THEN Cardinality(InPack)
                                                  ELSE packed_count
    /\ UNCHANGED <<diskVars, setVars, queueVars, reqVars, listed, packTodo,
                   objects, encoded, scopeVars, stored, entries_stored,
                   uploads_failed, loaded>>

\* put_scoped(.., "pack", ..): record_packed on Ok(_), true or false.
PackPut ==
    /\ phase = "pack_put"
    /\ \E to \in PutStage :
           /\ PutStep("pack", to)
           /\ phase' = IF to \in PutResult THEN "done" ELSE phase
           /\ packed_count' = IF to \in PutOk THEN Cardinality(InPack)
                                              ELSE packed_count
    /\ pack' = IF service'["pack"] # service["pack"] /\ service'["pack"] = "fresh"
               THEN [k \in Keys |-> IF k \in encoded THEN objects[k] ELSE "absent"]
               ELSE pack
    /\ UNCHANGED <<diskVars, setVars, queueVars, reqVars, listed, packTodo,
                   objects, encoded, manifest, stored, entries_stored,
                   uploads_failed, loaded>>

-----------------------------------------------------------------------------
(***************************************************************************)
(* The rest of the world.                                                  *)
(***************************************************************************)

\* `cicache stop` gives up waiting and removes the object directory, file by
\* file, under a daemon that is still flushing.
StopRemoves(k) ==
    /\ phase \notin {"load_index", "load_pack", "serving", "done"}
    /\ file[k] # "absent"
    /\ file' = [file EXCEPT ![k] = "absent"]
    /\ damaged' = damaged \cup {k}
    /\ UNCHANGED <<ghaVars, setVars, queueVars, reqVars, flushVars, scopeVars,
                   statVars, loaded>>

ServiceMoves(k) ==
    /\ phase # "done"
    /\ ServiceStep(k)
    /\ UNCHANGED <<diskVars, setVars, queueVars, reqVars, flushVars, scopeVars,
                   statVars, loaded>>

\* A concurrent job of the same scope files its manifest with a new key in it.
OtherManifest(k) ==
    /\ phase # "done"
    /\ service[k] = "remote"
    /\ k \notin manifest
    /\ manifest' = manifest \cup {k}
    /\ UNCHANGED <<ghaVars, diskVars, setVars, queueVars, reqVars, flushVars, pack,
                   statVars, loaded>>

\* The process has exited.
Exited == phase = "done" /\ UNCHANGED <<vars>>

Request(r) ==
    \/ Read(r) \/ Lookup(r) \/ GetReply(r) \/ OpenBack(r) \/ WriteBack(r)
    \/ FetchReply(r) \/ OpenPut(r) \/ WritePut(r) \/ Enqueue(r) \/ Send(r)
    \/ Disconnect(r)

Flush ==
    \/ Drained \/ SaveIndex \/ IndexPut \/ SavePack
    \/ (\E k \in Keys : ReadPack(k)) \/ Encode \/ PackPut

Next ==
    \/ LoadIndex \/ LoadPack
    \/ (phase # "done" /\ \E r \in Requests : Request(r))
    \/ Spawn \/ (\E k \in Keys : Upload(k))
    \/ Shutdown \/ Flush
    \/ \E k \in Keys : StopRemoves(k)
    \/ \E k \in Listable : ServiceMoves(k) \/ OtherManifest(k)
    \/ Exited

(***************************************************************************)
(* Fairness.  Every cache-service call ends within its 120 s client        *)
(* timeout, a clone of the sender is used without an await in between, and *)
(* the runtime keeps polling tasks that are ready.  Upstream fetches have  *)
(* no timeout and get no fairness.                                         *)
(***************************************************************************)
Fairness ==
    /\ WF_vars(Spawn) /\ WF_vars(Flush)
    /\ \A k \in Keys : WF_vars(Upload(k))
    /\ \A r \in Requests : WF_vars(Send(r))

Spec == Init /\ [][Next]_vars
FairSpec == Spec /\ Fairness

-----------------------------------------------------------------------------
(***************************************************************************)
(* Properties.                                                             *)
(***************************************************************************)

Waiting == {channel[i] : i \in DOMAIN channel}
PastDrain == {"save_index", "index_put", "save_pack", "read_pack", "pack_put",
              "done"}

\* What each variable holds.
Typed ==
    /\ GhaTypeOK
    /\ file \in [Keys -> Content]
    /\ remote_misses \subseteq Keys /\ queued \subseteq Keys
    /\ index \subseteq Keys /\ packed \subseteq Keys
    /\ index_dirty \in BOOLEAN /\ pack_dirty \in BOOLEAN
    /\ tx \in {"open", "closed"}
    /\ channel \in Seq(Keys)
    /\ permits \in Nat
    /\ pc \in [Requests -> Pc]
    /\ req \in [Requests -> Keys]
    /\ got \in [Requests -> Content]
    /\ phase \in Phase
    /\ listed \subseteq Keys /\ packTodo \subseteq Keys /\ encoded \subseteq Keys
    /\ objects \in [Keys -> Content]
    /\ manifest \subseteq Keys /\ pack \in [Keys -> Content]
    /\ stored \in Nat /\ entries_stored \in Nat
    /\ uploads_failed \in Nat /\ packed_count \in Nat
    /\ loaded \subseteq Keys /\ damaged \subseteq Keys

\* Every variable keeps its type; in particular the semaphore never holds
\* more permits than upload_loop created.
TypeOK == Typed /\ permits <= Concurrency

\* "Keys already queued for upload, so a URL fetched twice is only stored
\* once" (store.rs, Store.queued): however requests for one URL interleave,
\* its key is never in the channel twice nor again after its upload started.
UploadedOnce ==
    /\ \A i, j \in DOMAIN channel : channel[i] = channel[j] => i = j
    /\ \A i \in DOMAIN channel : call[channel[i]] = "none"

\* put() at work on a key it has claimed.
Putting == {"open_put", "write_put", "enqueue", "send"}

\* A claim on a key is never given up, so it must not be lost either: while
\* the queue is open, a claimed object that has not joined the pack is being
\* written by its put(), or in the channel, or with an upload task, even when
\* its file cannot be written.  The one way to lose it is a client that
\* disconnects while put() writes.
ClaimNotLost ==
    (HaveGha /\ tx = "open") =>
        \A k \in queued \ (Small \cap packed) :
            \/ \E r \in Requests : req[r] = k /\ pc[r] \in Putting \cup {"dropped"}
            \/ k \in Waiting
            \/ call[k] # "none"

\* Once flush() has awaited the uploader, no sender, message or upload is
\* left, and a request still in flight cannot start another one while the
\* manifest and the pack are being written.
FlushDrains == phase \in PastDrain => UploaderDone

\* Every upload holds one permit and gives it back whatever its result, so
\* at most `concurrency` of them run and none is lost to a failure.
PermitsConserved == permits + Cardinality(Uploading) = Concurrency

\* The manifest that flush() writes, or decides not to write because it is
\* not dirty, misses no key that an upload of this job confirmed.
ManifestComplete ==
    (HaveGha /\ phase \in PastDrain \ {"save_index"}) =>
        Confirmed \subseteq (IF call["index"] = "none" THEN loaded ELSE listed)

\* An exhausted client answers Ok(false) for keys nobody stored, and the
\* uploader lists them as held; none of these reaches a manifest that the
\* service accepts.
ManifestBacked ==
    service["index"] = "fresh" => listed \subseteq (loaded \cup reserved)

\* The pack holds no half-written object: save_pack() reads files while
\* requests still write theirs, and yet whatever it packs is an entry that
\* decodes, unless the disk failed, `cicache stop` had given up waiting and
\* removed the file, or the pack came damaged to begin with.  It says nothing
\* of a key that the manifest listed when the job began: there get() may be
\* writing what it downloaded to the file of an object that put() has packed
\* (its entry was larger in an earlier job), and save_pack() packs the mixture.
PackIntact ==
    phase = "pack_put" =>
        \A k \in encoded \ loaded :
            Decodes(objects[k]) \/ k \in damaged \/ pack[k] = "broken"

\* What `cicache stop` prints a warning for (main.rs, stop).
Warned ==
    \/ stored > 0 /\ entries_stored = 0 /\ packed_count = 0
    \/ uploads_failed > 0

\* README: "`cicache stop` says so again if a run cached nothing": a run that
\* stored responses of which no object and no pack ever became readable.
WarnsIfNothingCached ==
    (phase = "done" /\ stored > 0 /\ finalized \subseteq {"index"}) => Warned

\* It does say so, except when put_scoped() answers Ok(false) for the pack,
\* which save_pack() counts as packed: whatever else upload_loop and save_pack
\* count is readable at the service, or was until it was evicted.
WarnsUnlessDeclined == call["pack"] = "false" \/ WarnsIfNothingCached

\* Teardown ends: after the shutdown request the daemon gets to the end of
\* flush(), whatever the service answers and wherever requests are stuck.
FlushTerminates == (phase = "drain") ~> (phase = "done")

\* The store implements the promise of module Drain: uploads are accepted
\* once, all settle before publication, and the manifest is exactly what
\* was read plus what was confirmed.
D == INSTANCE Drain WITH
        base <- loaded,
        accepted <- Waiting \cup {k \in Keys : call[k] # "none"},
        settled <- {k \in Keys : call[k] \in PutResult},
        confirmed <- Confirmed,
        drained <- phase \in PastDrain,
        published <- listed
ImplementsDrain == D!DrainSpec

-----------------------------------------------------------------------------
(***************************************************************************)
(* A claim of the README that the code does not keep, next to              *)
(* WarnsIfNothingCached.                                                   *)
(***************************************************************************)

\* README: "Reads go to a local directory first, so a URL fetched twice in
\* one job costs one round trip."  A key that put() has stored, and whose
\* file nobody is writing, can be read back.
LocalCopyReadable ==
    \A k \in queued \ damaged :
        \/ \E r \in Requests :
               req[r] = k /\ pc[r] \in {"write_back", "open_put", "write_put"}
        \/ phase # "serving"
        \/ Decodes(file[k])
=============================================================================
