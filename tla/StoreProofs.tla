---------------------------- MODULE StoreProofs ----------------------------
(***************************************************************************)
(* Theorems about module Store, for any sets of keys and requests, any     *)
(* concurrency and any service behaviour.                                  *)
(***************************************************************************)
EXTENDS StoreInv, FiniteSetTheorems, TLAPS

-----------------------------------------------------------------------------
(***************************************************************************)
(* Types.                                                                  *)
(***************************************************************************)

LEMMA InitTyped == Init => Typed
<1> SUFFICES ASSUME Init PROVE Typed
  OBVIOUS
<1>1. GhaTypeOK
  BY DEF Init, GhaInit, GhaTypeOK, EntryState, Readable, PutStage
<1>2. /\ file \in [Keys -> Content]
      /\ objects \in [Keys -> Content]
      /\ pack \in [Keys -> Content]
      /\ got \in [Requests -> Content]
  BY DEF Init, Content, Intact
<1>3. pc \in [Requests -> Pc] /\ phase \in Phase
  BY DEF Init, Pc, Phase
<1>4. manifest \subseteq Keys
  BY StoreAssumption DEF Init
<1>5. channel \in Seq(Keys) /\ permits \in Nat
  BY StoreAssumption DEF Init
<1> QED
  BY <1>1, <1>2, <1>3, <1>4, <1>5 DEF Init, Typed

LEMMA TypedPut ==
    ASSUME Typed, NEW k \in Entries, NEW to \in PutStage, PutStep(k, to)
    PROVE  GhaTypeOK'
BY DEF Typed, GhaTypeOK, PutStep, PutBegin, CreateReply, BlobReply, FinalizeReply,
       RateLimited, ReplyLost, Noted, EntryState, Readable

LEMMA TypedNext == Typed /\ [Next]_vars => Typed'
<1> SUFFICES ASSUME Typed, [Next]_vars PROVE Typed'
  OBVIOUS
<1> USE DEF vars, ghaVars, diskVars, setVars, queueVars, reqVars, flushVars,
            scopeVars, statVars, histVars
<1>1. CASE LoadIndex
  BY <1>1 DEF LoadIndex, FetchFails, Typed, GhaTypeOK, Phase
<1>2. CASE LoadPack
  BY <1>2 DEF LoadPack, FetchFails, Typed, GhaTypeOK, Phase, Content, Intact
<1>3. ASSUME NEW r \in Requests, Request(r) PROVE Typed'
  <2>1. CASE Read(r)
    BY <2>1 DEF Read, Decode, Goto, Typed, GhaTypeOK, Pc, Answered
  <2>2. CASE Lookup(r)
    BY <2>2 DEF Lookup, Goto, Typed, GhaTypeOK, Pc
  <2>3. CASE GetReply(r)
    BY <2>3 DEF GetReply, Goto, Typed, GhaTypeOK, Pc, Content, Intact, Readable
  <2>4. CASE OpenBack(r)
    BY <2>4 DEF OpenBack, Decode, Goto, Typed, GhaTypeOK, Pc, Answered, Content
  <2>5. CASE WriteBack(r)
    BY <2>5 DEF WriteBack, Overlay, Torn, Decode, Goto, Typed, GhaTypeOK, Pc,
                Answered, Content
  <2>6. CASE FetchReply(r)
    BY <2>6 DEF FetchReply, Goto, Typed, GhaTypeOK, Pc, Answered
  <2>7. CASE OpenPut(r)
    BY <2>7 DEF OpenPut, Goto, Typed, GhaTypeOK, Pc, Content
  <2>8. CASE WritePut(r)
    BY <2>8 DEF WritePut, Overlay, Torn, Goto, Typed, GhaTypeOK, Pc, Content, Intact
  <2>9. CASE Enqueue(r)
    <3>1. pack_dirty' \in BOOLEAN
      <4>1. CASE EnqueueSmall(r)
        BY <4>1, Zenon DEF EnqueueSmall
      <4>2. CASE EnqueueLarge(r)
        BY <4>2, Zenon DEF EnqueueLarge, Typed
      <4> QED
        BY <2>9, <4>1, <4>2 DEF Enqueue
    <3>2. packed' \subseteq Keys /\ stored' \in Nat /\ pc' \in [Requests -> Pc]
      BY <2>9 DEF Enqueue, EnqueueSmall, EnqueueLarge, Goto, Typed, Pc, Answered
    <3> QED
      BY <2>9, <3>1, <3>2 DEF Enqueue, Typed, GhaTypeOK
  <2>10. CASE Send(r)
    BY <2>10 DEF Send, Goto, Typed, GhaTypeOK, Pc, Answered
  <2>11. CASE Disconnect(r)
    BY <2>11 DEF Disconnect, Goto, Typed, GhaTypeOK, Pc, Dropped
  <2> QED
    BY <1>3, <2>1, <2>2, <2>3, <2>4, <2>5, <2>6, <2>7, <2>8, <2>9, <2>10, <2>11
    DEF Request
<1>4. CASE Spawn
  <2>1. GhaTypeOK'
    BY <1>4 DEF Spawn, Typed, GhaTypeOK, PutStage, PutInFlight
  <2>2. channel' \in Seq(Keys) /\ permits' \in Nat
    BY <1>4 DEF Spawn, Typed
  <2> QED
    BY <1>4, <2>1, <2>2 DEF Spawn, Typed
<1>5. ASSUME NEW k \in Keys, Upload(k) PROVE Typed'
  <2>1. PICK to \in PutStage :
            PutStep(k, to) /\ IF to \in PutResult THEN Settle(k, to)
               ELSE UNCHANGED <<permits, index, index_dirty, entries_stored,
                               uploads_failed>>
    BY <1>5 DEF Upload
  <2>2. GhaTypeOK'
    BY <2>1, TypedPut DEF Entries
  <2>3. index_dirty' \in BOOLEAN
    <3>1. CASE to \in PutOk
      BY <2>1, <3>1, Zenon DEF Settle, PutResult
    <3>2. CASE to \notin PutOk
      BY <2>1, <3>2, Zenon DEF Settle, Typed
    <3> QED
      BY <3>1, <3>2
  <2>4. /\ index' \subseteq Keys
        /\ permits' \in Nat /\ entries_stored' \in Nat /\ uploads_failed' \in Nat
    BY <2>1 DEF Settle, Typed
  <2> QED
    BY <1>5, <2>2, <2>3, <2>4 DEF Upload, Typed
<1>6. CASE Shutdown
  BY <1>6 DEF Shutdown, Typed, GhaTypeOK, Phase
<1>7. CASE Flush
  <2>1. CASE Drained
    BY <2>1 DEF Drained, Typed, GhaTypeOK, Phase
  <2>2. CASE SaveIndex
    BY <2>2 DEF SaveIndex, Typed, GhaTypeOK, Phase, PutStage, PutInFlight
  <2>3. CASE IndexPut
    <3>1. GhaTypeOK'
      BY <2>3, TypedPut DEF IndexPut, Entries, Scoped
    <3> QED
      BY <2>3, <3>1 DEF IndexPut, Typed, Phase
  <2>4. CASE SavePack
    BY <2>4 DEF SavePack, Typed, GhaTypeOK, Phase
  <2>5. ASSUME NEW k \in Keys, ReadPack(k) PROVE Typed'
    BY <2>5 DEF ReadPack, Typed, GhaTypeOK
  <2>6. CASE Encode
    BY <2>6 DEF Encode, InPack, Typed, GhaTypeOK, Phase, PutStage, PutInFlight
  <2>7. CASE PackPut
    <3>1. GhaTypeOK'
      BY <2>7, TypedPut DEF PackPut, Entries, Scoped
    <3>2. Cardinality(InPack) \in Nat
      BY StoreAssumption, FS_Subset, FS_CardinalityType DEF InPack
    <3> QED
      BY <2>7, <3>1, <3>2 DEF PackPut, Typed, Phase, Content
  <2> QED
    BY <1>7, <2>1, <2>2, <2>3, <2>4, <2>5, <2>6, <2>7 DEF Flush
<1>8. ASSUME NEW k \in Keys, StopRemoves(k) PROVE Typed'
  BY <1>8 DEF StopRemoves, Typed, GhaTypeOK, Content
<1>9. ASSUME NEW k \in Listable, ServiceMoves(k) PROVE Typed'
  BY <1>9, StoreAssumption
  DEF ServiceMoves, ServiceStep, Noted, Typed, GhaTypeOK, EntryState, Readable, Entries
<1>10. ASSUME NEW k \in Listable, OtherManifest(k) PROVE Typed'
  BY <1>10, StoreAssumption DEF OtherManifest, Typed, GhaTypeOK
<1>11. CASE Exited \/ UNCHANGED vars
  BY <1>11 DEF Exited, Typed, GhaTypeOK
<1> QED
  BY <1>1, <1>2, <1>3, <1>4, <1>5, <1>6, <1>7, <1>8, <1>9, <1>10, <1>11 DEF Next

-----------------------------------------------------------------------------
(***************************************************************************)
(* Ownership of claimed keys.                                              *)
(***************************************************************************)

\* Steps outside put() and the uploader leave the queue's state alone: they
\* change no request, claim or message, and no call for an object.
QueueIdle ==
    /\ UNCHANGED <<pc, req, queued, channel, permits>>
    /\ \A k \in Keys : call'[k] = call[k]

\* A put call only moves its own stage, to one that is never "none".
LEMMA PutStages ==
    ASSUME Typed, NEW k \in Entries, NEW to \in PutStage, PutStep(k, to)
    PROVE  /\ InFlight(k) /\ to # "none"
           /\ call'[k] = to
           /\ \A e \in Entries \ {k} : call'[e] = call[e] /\ service'[e] = service[e]
BY DEF Typed, GhaTypeOK, PutStep, PutBegin, CreateReply, BlobReply, FinalizeReply,
       RateLimited, ReplyLost, InFlight, PutInFlight

LEMMA OutsideQueue ==
    ASSUME Typed,
           \/ LoadIndex \/ LoadPack \/ Shutdown \/ Flush
           \/ \E k \in Keys : StopRemoves(k)
           \/ \E k \in Listable : ServiceMoves(k) \/ OtherManifest(k)
           \/ Exited \/ UNCHANGED vars
    PROVE  QueueIdle /\ (tx' = "open" => tx = "open")
<1> USE DEF QueueIdle, vars, ghaVars, diskVars, setVars, queueVars, reqVars,
            flushVars, scopeVars, statVars, histVars
<1>1. CASE LoadIndex
  BY <1>1 DEF LoadIndex
<1>2. CASE LoadPack
  BY <1>2 DEF LoadPack
<1>3. CASE Shutdown
  BY <1>3 DEF Shutdown
<1>4. CASE Flush
  <2> USE ScopedAssumption DEF Typed, GhaTypeOK, Entries, Scoped
  <2>1. CASE Drained
    BY <2>1 DEF Drained
  <2>2. CASE SaveIndex
    BY <2>2 DEF SaveIndex
  <2>3. CASE IndexPut
    BY <2>3, PutStages DEF IndexPut
  <2>4. CASE SavePack
    BY <2>4 DEF SavePack
  <2>5. ASSUME NEW k \in Keys, ReadPack(k) PROVE QueueIdle /\ UNCHANGED tx
    BY <2>5 DEF ReadPack
  <2>6. CASE Encode
    BY <2>6 DEF Encode
  <2>7. CASE PackPut
    BY <2>7, PutStages DEF PackPut
  <2> QED
    BY <1>4, <2>1, <2>2, <2>3, <2>4, <2>5, <2>6, <2>7 DEF Flush
<1>5. ASSUME NEW k \in Keys, StopRemoves(k) PROVE QueueIdle /\ UNCHANGED tx
  BY <1>5 DEF StopRemoves
<1>6. ASSUME NEW k \in Listable, ServiceMoves(k) PROVE QueueIdle /\ UNCHANGED tx
  BY <1>6 DEF ServiceMoves, ServiceStep
<1>7. ASSUME NEW k \in Listable, OtherManifest(k) PROVE QueueIdle /\ UNCHANGED tx
  BY <1>7 DEF OtherManifest
<1>8. CASE Exited \/ UNCHANGED vars
  BY <1>8 DEF Exited
<1> QED
  BY <1>1, <1>2, <1>3, <1>4, <1>5, <1>6, <1>7, <1>8

\* What a request step does to the queue's state: it stays out of put() or
\* inside it, or it claims, sends, finishes or is dropped.
Stays(r) ==
    /\ pc[r] # "dropped"
    /\ \E l \in Pc :
           /\ pc' = [pc EXCEPT ![r] = l]
           /\ l \in Putting <=> pc[r] \in Putting
           /\ l = "send" => tx = "open"
    /\ UNCHANGED <<req, queued, channel, call>>

ClaimsKey(r) ==
    /\ pc[r] \notin Putting \cup {"dropped"} /\ pc' = [pc EXCEPT ![r] = "open_put"]
    /\ req[r] \notin queued /\ queued' = queued \cup {req[r]}
    /\ UNCHANGED <<req, channel, call>>

Finishes(r) ==
    /\ pc[r] = "enqueue" /\ pc' = [pc EXCEPT ![r] = "stored"]
    /\ req[r] \in Small \cap packed' \/ tx # "open"
    /\ UNCHANGED <<req, queued, channel, call>>

Sends(r) ==
    /\ pc[r] = "send" /\ pc' = [pc EXCEPT ![r] = "stored"]
    /\ channel' = Append(channel, req[r])
    /\ UNCHANGED <<req, queued, call>>

\* The client is gone before the object got to the queue.
Drops(r) ==
    /\ pc[r] = "enqueue" /\ pc' = [pc EXCEPT ![r] = "dropped"]
    /\ UNCHANGED <<req, queued, channel, call>>

LEMMA RequestShape ==
    ASSUME Typed, NEW r \in Requests, Request(r)
    PROVE  /\ UNCHANGED <<tx, permits>>
           /\ Stays(r) \/ ClaimsKey(r) \/ Finishes(r) \/ Sends(r) \/ Drops(r)
<1> USE DEF ghaVars, diskVars, setVars, queueVars, reqVars, flushVars, scopeVars,
            statVars, histVars, Goto, Pc, Answered, Putting
<1>1. CASE Read(r)
  BY <1>1 DEF Read, Decode, Stays
<1>2. CASE Lookup(r)
  <2>1. \E l \in {"rpc", "fetch"} : pc' = [pc EXCEPT ![r] = l]
    BY <1>2, Zenon DEF Lookup
  <2> QED
    BY <1>2, <2>1 DEF Lookup, Stays
<1>3. CASE GetReply(r)
  BY <1>3 DEF GetReply, Stays
<1>4. CASE OpenBack(r)
  BY <1>4 DEF OpenBack, Decode, Stays
<1>5. CASE WriteBack(r)
  <2>1. \E l \in {"hit", "fetch"} : pc' = [pc EXCEPT ![r] = l]
    BY <1>5, Zenon DEF WriteBack, Decode
  <2> QED
    BY <1>5, <2>1 DEF WriteBack, Stays
<1>6. CASE FetchReply(r)
  <2>1. ASSUME NEW l \in {"error", "miss", "stored"}, Goto(r, l), UNCHANGED queued
        PROVE  Stays(r)
    BY <1>6, <2>1 DEF FetchReply, Stays
  <2>2. ASSUME req[r] \notin queued, queued' = queued \cup {req[r]}, Goto(r, "open_put")
        PROVE  ClaimsKey(r)
    BY <1>6, <2>2 DEF FetchReply, ClaimsKey
  <2>3. UNCHANGED <<tx, permits>>
    BY <1>6 DEF FetchReply
  <2> QED
    BY <1>6, <2>1, <2>2, <2>3 DEF FetchReply
<1>7. CASE OpenPut(r)
  BY <1>7 DEF OpenPut, Stays
<1>8. CASE WritePut(r)
  <2>1. /\ pc[r] = "write_put" /\ pc' = [pc EXCEPT ![r] = "enqueue"]
        /\ UNCHANGED <<req, queued, channel, call, tx, permits>>
    BY <1>8 DEF WritePut
  <2>2. \E l \in Pc : /\ pc' = [pc EXCEPT ![r] = l]
                      /\ l \in Putting <=> pc[r] \in Putting
                      /\ l = "send" => tx = "open"
    <3>1. "enqueue" \in Pc /\ "enqueue" \in Putting /\ pc[r] \in Putting
      BY <2>1
    <3> QED
      BY <2>1, <3>1, Zenon
  <2> QED
    BY <2>1, <2>2 DEF Stays
<1>9. CASE Enqueue(r)
  <2>1. CASE EnqueueSmall(r)
    BY <1>9, <2>1 DEF Enqueue, EnqueueSmall, Finishes
  <2>2. CASE EnqueueLarge(r)
    BY <1>9, <2>2 DEF Enqueue, EnqueueLarge, Stays, Finishes
  <2> QED
    BY <1>9, <2>1, <2>2 DEF Enqueue
<1>10. CASE Send(r)
  BY <1>10 DEF Send, Sends
<1>11. CASE Disconnect(r)
  <2>1. CASE pc[r] = "enqueue"
    BY <1>11, <2>1 DEF Disconnect, Drops
  <2>2. CASE pc[r] # "enqueue"
    BY <1>11, <2>2 DEF Disconnect, Dropped, Stays
  <2> QED
    BY <1>11, <2>1, <2>2 DEF Disconnect
<1> QED
  BY <1>1, <1>2, <1>3, <1>4, <1>5, <1>6, <1>7, <1>8, <1>9, <1>10, <1>11 DEF Request

LEMMA ClaimsNext ==
    ASSUME Typed, Claims, UploadedOnce, [Next]_vars
    PROVE  Claims' /\ UploadedOnce'
<1> USE DEF Claims, UploadedOnce, Waiting
<1>1. ASSUME QueueIdle PROVE Claims' /\ UploadedOnce'
  BY <1>1 DEF QueueIdle, Typed
<1>2. ASSUME NEW r \in Requests, Request(r) PROVE Claims' /\ UploadedOnce'
  <2>1. CASE Stays(r)
    BY <2>1 DEF Stays, Typed, Putting
  <2>2. CASE ClaimsKey(r)
    BY <2>2 DEF ClaimsKey, Typed, Putting
  <2>3. CASE Finishes(r)
    BY <2>3 DEF Finishes, Typed, Putting
  <2>4. CASE Sends(r)
    BY <2>4 DEF Sends, Typed, Putting
  <2>5. CASE Drops(r)
    BY <2>5 DEF Drops, Typed, Putting
  <2> QED
    BY <1>2, <2>1, <2>2, <2>3, <2>4, <2>5, RequestShape
<1>3. CASE Spawn
  BY <1>3 DEF Spawn, Typed, GhaTypeOK, Entries, setVars, reqVars
<1>4. ASSUME NEW k \in Keys, Upload(k) PROVE Claims' /\ UploadedOnce'
  <2>1. PICK to \in PutStage : PutStep(k, to)
    BY <1>4 DEF Upload
  <2>2. /\ InFlight(k) /\ call'[k] # "none"
        /\ \A e \in Keys \ {k} : call'[e] = call[e]
    BY <2>1, PutStages DEF Entries
  <2>3. UNCHANGED <<pc, req, queued, channel>>
    BY <1>4 DEF Upload, reqVars
  <2> QED
    BY <2>2, <2>3 DEF Typed, InFlight, PutInFlight
<1> QED
  BY <1>1, <1>2, <1>3, <1>4, OutsideQueue DEF Next

\* Only load_pack() replaces the set of packed keys, all others add to it.
LEMMA PackedGrows ==
    ASSUME [Next]_vars, ~ LoadPack
    PROVE  packed \subseteq packed'
<1> USE DEF vars, setVars
<1>1. ASSUME NEW r \in Requests, Request(r) PROVE packed \subseteq packed'
  BY <1>1 DEF Request, Read, Lookup, GetReply, OpenBack, WriteBack, FetchReply, OpenPut,
              WritePut, Enqueue, EnqueueSmall, EnqueueLarge, Send, Disconnect
<1>2. CASE LoadIndex \/ Spawn \/ Shutdown \/ Flush \/ Exited \/ UNCHANGED vars
  BY <1>2 DEF LoadIndex, Spawn, Shutdown, Flush, Drained, SaveIndex, IndexPut, SavePack,
              ReadPack, Encode, PackPut, Exited
<1>3. CASE \/ \E k \in Keys : Upload(k) \/ StopRemoves(k)
           \/ \E k \in Listable : ServiceMoves(k) \/ OtherManifest(k)
  BY <1>3 DEF Upload, StopRemoves, ServiceMoves, OtherManifest
<1> QED
  BY <1>1, <1>2, <1>3 DEF Next

LEMMA ClaimNotLostNext ==
    ASSUME Typed, Claims, Quiet, ClaimNotLost, [Next]_vars
    PROVE  ClaimNotLost'
<1> SUFFICES ASSUME HaveGha, tx' = "open", NEW k \in Keys, k \in queued',
                    k \notin Small \cap packed'
             PROVE  \/ \E r \in Requests : req'[r] = k /\ pc'[r] \in Putting \cup {"dropped"}
                    \/ k \in Waiting'
                    \/ call'[k] # "none"
  BY TypedNext DEF ClaimNotLost, Typed
<1> DEFINE Owned == \/ \E r \in Requests : req[r] = k /\ pc[r] \in Putting \cup {"dropped"}
                    \/ k \in Waiting
                    \/ call[k] # "none"
<1>0. ASSUME tx = "open", k \in queued PROVE Owned
  <2>1. ~ LoadPack
    BY <1>0 DEF LoadPack, Quiet, Loading
  <2> QED
    BY <1>0, <2>1, PackedGrows DEF ClaimNotLost
<1>1. ASSUME QueueIdle, tx = "open" PROVE Owned'
  BY <1>0, <1>1 DEF QueueIdle, Waiting
<1>2. ASSUME NEW r \in Requests, Request(r) PROVE Owned'
  <2>1. CASE Stays(r)
    BY <1>0, <1>2, <2>1, RequestShape DEF Stays, Waiting, Typed, Putting
  <2>2. CASE ClaimsKey(r)
    BY <1>0, <1>2, <2>2, RequestShape DEF ClaimsKey, Waiting, Typed, Putting
  <2>3. CASE Finishes(r)
    BY <1>0, <1>2, <2>3, RequestShape DEF Finishes, Waiting, Typed, Putting
  <2>4. CASE Sends(r)
    <3>1. k = req[r] => k \in Waiting'
      BY <2>4 DEF Sends, Waiting, Typed
    <3>2. k \in Waiting => k \in Waiting'
      BY <2>4 DEF Sends, Waiting, Typed
    <3> QED
      BY <1>0, <1>2, <2>4, <3>1, <3>2, RequestShape DEF Sends, Typed, Putting
  <2>5. CASE Drops(r)
    BY <1>0, <1>2, <2>5, RequestShape DEF Drops, Waiting, Typed, Putting
  <2> QED
    BY <1>2, <2>1, <2>2, <2>3, <2>4, <2>5, RequestShape
<1>3. CASE Spawn
  <2>1. UNCHANGED <<pc, req, queued, tx>>
    BY <1>3 DEF Spawn, setVars, reqVars
  <2>2. k \in Waiting => k \in Waiting' \/ k = Head(channel)
    <3> SUFFICES ASSUME k \in Waiting, k # Head(channel) PROVE k \in Waiting'
      OBVIOUS
    <3>1. PICK i \in DOMAIN channel : channel[i] = k
      BY DEF Waiting
    <3>2. i \in 2..Len(channel)
      BY <3>1 DEF Typed
    <3>3. i - 1 \in DOMAIN Tail(channel) /\ Tail(channel)[i - 1] = k
      BY <3>1, <3>2 DEF Typed
    <3> QED
      BY <1>3, <3>3 DEF Spawn, Waiting
  <2>3. k = Head(channel) => call'[k] = "spawned"
    BY <1>3 DEF Spawn, Typed, GhaTypeOK, Entries
  <2>4. call[k] # "none" => call'[k] # "none"
    BY <1>3 DEF Spawn, Typed, GhaTypeOK, Entries
  <2> QED
    BY <1>0, <2>1, <2>2, <2>3, <2>4
<1>4. ASSUME NEW e \in Keys, Upload(e) PROVE Owned'
  <2>1. PICK to \in PutStage : PutStep(e, to)
    BY <1>4 DEF Upload
  <2>2. call[k] # "none" => call'[k] # "none"
    BY <2>1, PutStages DEF Entries
  <2>3. UNCHANGED <<pc, req, queued, channel, tx>>
    BY <1>4 DEF Upload, reqVars
  <2> QED
    BY <1>0, <2>2, <2>3 DEF Waiting
<1> QED
  BY <1>1, <1>2, <1>3, <1>4, OutsideQueue DEF Next

-----------------------------------------------------------------------------
(***************************************************************************)
(* The drain.                                                              *)
(***************************************************************************)

LEMMA FlushDrainsNext ==
    ASSUME Typed, FlushDrains, [Next]_vars
    PROVE  FlushDrains'
<1>1. ASSUME UploaderDone PROVE UploaderDone'
  <2> USE <1>1 DEF UploaderDone
  <2>1. ASSUME QueueIdle, tx' = "open" => tx = "open", tx' \in {"open", "closed"}
        PROVE  UploaderDone'
    BY <2>1 DEF QueueIdle, Uploading, InFlight
  <2>2. ASSUME NEW r \in Requests, Request(r) PROVE UploaderDone'
    <3>1. ~ Sends(r)
      BY DEF Sends
    <3>2. UNCHANGED <<call, channel, tx>>
      BY <2>2, <3>1, RequestShape DEF Stays, ClaimsKey, Finishes, Drops
    <3>3. \A s \in Requests : pc'[s] # "send"
      BY <2>2, <3>1, RequestShape DEF Stays, ClaimsKey, Finishes, Drops, Typed
    <3> QED
      BY <3>2, <3>3 DEF Uploading, InFlight
  <2>3. ~ Spawn
    BY DEF Spawn
  <2>4. \A k \in Keys : ~ Upload(k)
    BY PutStages DEF Upload, Entries, Uploading
  <2>5. tx' \in {"open", "closed"}
    BY TypedNext DEF Typed
  <2> QED
    BY <2>1, <2>2, <2>3, <2>4, <2>5, OutsideQueue DEF Next
<1>2. ASSUME phase \notin PastDrain, phase' \in PastDrain PROVE Drained
  <2> USE <1>2 DEF PastDrain, vars, flushVars
  <2>1. ~ LoadIndex /\ ~ LoadPack /\ ~ Shutdown /\ ~ Spawn
    BY DEF LoadIndex, LoadPack, Shutdown, Spawn
  <2>2. \A r \in Requests : ~ Request(r)
    BY DEF Request, Read, Lookup, GetReply, OpenBack, WriteBack, FetchReply, OpenPut,
           WritePut, Enqueue, Send, Disconnect
  <2>3. \A k \in Keys : ~ Upload(k) /\ ~ StopRemoves(k)
    BY DEF Upload, StopRemoves
  <2>4. \A k \in Listable : ~ ServiceMoves(k) /\ ~ OtherManifest(k)
    BY DEF ServiceMoves, OtherManifest
  <2>5. Flush => Drained
    BY DEF Flush, SaveIndex, IndexPut, SavePack, ReadPack, Encode, PackPut
  <2> QED
    BY <2>1, <2>2, <2>3, <2>4, <2>5 DEF Next, Exited
<1> QED
  BY <1>1, <1>2 DEF FlushDrains, Drained

LEMMA PermitsNext ==
    ASSUME Typed, Claims, UploadedOnce, PermitsConserved, [Next]_vars
    PROVE  PermitsConserved'
<1> USE DEF PermitsConserved
<1>1. ASSUME QueueIdle PROVE PermitsConserved'
  <2>1. Uploading' = Uploading
    BY <1>1 DEF QueueIdle, Uploading, InFlight
  <2> QED
    BY <1>1, <2>1 DEF QueueIdle
<1>2. ASSUME UNCHANGED <<call, permits>> PROVE PermitsConserved'
  BY <1>2 DEF Uploading, InFlight
<1>3. IsFiniteSet(Uploading) /\ Cardinality(Uploading) \in Nat
  BY StoreAssumption, FS_Subset, FS_CardinalityType DEF Uploading
<1>4. CASE Spawn /\ HaveGha
  <2> DEFINE k == Head(channel)
  <2>1. k \in Keys /\ call[k] = "none"
    BY <1>4 DEF Spawn, Typed, UploadedOnce
  <2>2. Uploading' = Uploading \cup {k} /\ k \notin Uploading
    BY <1>4, <2>1 DEF Spawn, Uploading, InFlight, PutInFlight, Typed, GhaTypeOK, Entries
  <2>3. Cardinality(Uploading') = Cardinality(Uploading) + 1
    BY <1>3, <2>2, FS_AddElement
  <2> QED
    BY <1>3, <1>4, <2>3, StoreAssumption DEF Spawn, Typed
<1>5. ASSUME NEW k \in Keys, Upload(k) PROVE PermitsConserved'
  <2>1. PICK to \in PutStage :
            PutStep(k, to) /\ IF to \in PutResult THEN Settle(k, to)
               ELSE UNCHANGED <<permits, index, index_dirty, entries_stored,
                               uploads_failed>>
    BY <1>5 DEF Upload
  <2>2. InFlight(k) /\ to # "none" /\ call'[k] = to
        /\ \A e \in Keys \ {k} : call'[e] = call[e]
    BY <2>1, PutStages DEF Entries
  <2>3. CASE to \in PutResult
    <3>1. Uploading' = Uploading \ {k} /\ k \in Uploading
      BY <2>2, <2>3 DEF Uploading, InFlight, PutInFlight, PutResult, PutOk
    <3>2. Cardinality(Uploading') = Cardinality(Uploading) - 1
      BY <1>3, <3>1, FS_RemoveElement
    <3> QED
      BY <1>3, <2>1, <2>3, <3>2, StoreAssumption DEF Settle, Typed
  <2>4. CASE to \notin PutResult
    <3>1. Uploading' = Uploading
      BY <2>2, <2>4 DEF Uploading, InFlight, PutStage
    <3> QED
      BY <2>1, <2>4, <3>1
  <2> QED
    BY <2>3, <2>4
<1>6. ASSUME NEW r \in Requests, Request(r) PROVE UNCHANGED <<call, permits>>
  BY <1>6, RequestShape DEF Stays, ClaimsKey, Finishes, Drops, Sends
<1>7. CASE Spawn /\ ~HaveGha
  BY <1>2, <1>7 DEF Spawn
<1> QED
  BY <1>1, <1>2, <1>4, <1>5, <1>6, <1>7, OutsideQueue DEF Next

-----------------------------------------------------------------------------
(***************************************************************************)
(* The manifest.                                                           *)
(***************************************************************************)

\* The steps that do not touch the manifest's state: the phase stays on its
\* side of save_index(), no object call gets further, and what is reserved
\* or exhausted stays so.
IndexIdle ==
    /\ UNCHANGED <<index, index_dirty, loaded, listed>>
    /\ call'["index"] = call["index"] /\ service'["index"] = service["index"]
    /\ \A k \in Keys :
           call'[k] # call[k] => call[k] = "none" /\ call'[k] = "spawned"
    /\ exhausted => exhausted'
    /\ reserved \subseteq reserved'
    /\ phase \in BeforeIndex <=> phase' \in BeforeIndex
    /\ phase' \in Loading => phase \in Loading
    /\ phase' # "load_index"  \/ phase = "load_index"

LEMMA PutGrows ==
    ASSUME NEW k \in Entries, NEW to \in PutStage, PutStep(k, to)
    PROVE  (exhausted => exhausted') /\ reserved \subseteq reserved'
BY DEF PutStep, PutBegin, CreateReply, BlobReply, FinalizeReply, RateLimited,
       ReplyLost, Noted

LEMMA IndexIdleShape ==
    ASSUME Typed, UploadedOnce, [Next]_vars, ~ LoadIndex, ~ SaveIndex, ~ IndexPut,
           \A k \in Keys : ~ Upload(k)
    PROVE  IndexIdle
<1> USE DEF IndexIdle, vars, ghaVars, diskVars, setVars, queueVars, reqVars,
            flushVars, scopeVars, statVars, histVars, BeforeIndex, Loading
<1>1. CASE LoadPack
  BY <1>1 DEF LoadPack, FetchFails
<1>2. ASSUME NEW r \in Requests, Request(r) PROVE IndexIdle
  BY <1>2 DEF Request, Read, Lookup, GetReply, OpenBack, WriteBack, FetchReply,
              OpenPut, WritePut, Enqueue, Send, Disconnect
<1>3. CASE Spawn
  <2>1. Head(channel) \in Keys /\ call[Head(channel)] = "none"
    BY <1>3 DEF Spawn, Typed, UploadedOnce
  <2> QED
    BY <1>3, <2>1, ScopedAssumption
    DEF Spawn, Typed, GhaTypeOK, Entries, Scoped
<1>4. CASE Shutdown
  BY <1>4 DEF Shutdown
<1>5. CASE Drained
  BY <1>5 DEF Drained
<1>6. CASE SavePack
  BY <1>6 DEF SavePack
<1>7. ASSUME NEW k \in Keys, ReadPack(k) PROVE IndexIdle
  BY <1>7 DEF ReadPack
<1>8. CASE Encode
  BY <1>8, ScopedAssumption DEF Encode, Typed, GhaTypeOK, Entries, Scoped
<1>9. CASE PackPut
  <2>1. PICK to \in PutStage : PutStep("pack", to)
    BY <1>9 DEF PackPut
  <2>2. \A e \in Entries \ {"pack"} : call'[e] = call[e] /\ service'[e] = service[e]
    BY <2>1, PutStages DEF Entries, Scoped
  <2>3. (exhausted => exhausted') /\ reserved \subseteq reserved'
    BY <2>1, PutGrows DEF Entries, Scoped
  <2> QED
    BY <1>9, <2>2, <2>3, ScopedAssumption DEF PackPut, Entries, Scoped
<1>10. ASSUME NEW k \in Keys, StopRemoves(k) PROVE IndexIdle
  BY <1>10 DEF StopRemoves
<1>11. ASSUME NEW k \in Listable, ServiceMoves(k) PROVE IndexIdle
  BY <1>11, ScopedAssumption, StoreAssumption
  DEF ServiceMoves, ServiceStep, Noted, Typed, GhaTypeOK, Entries, Scoped
<1>12. ASSUME NEW k \in Listable, OtherManifest(k) PROVE IndexIdle
  BY <1>12 DEF OtherManifest
<1>13. CASE Exited \/ UNCHANGED vars
  BY <1>13 DEF Exited
<1> QED
  BY <1>1, <1>2, <1>3, <1>4, <1>5, <1>6, <1>7, <1>8, <1>9, <1>10, <1>11, <1>12, <1>13
  DEF Next, Flush

LEMMA QuietNext ==
    ASSUME Typed, Claims, UploadedOnce, Quiet, [Next]_vars
    PROVE  Quiet'
<1> USE DEF Quiet
<1>1. ASSUME phase \in Loading
      PROVE  /\ \A r \in Requests : ~ Request(r)
             /\ ~ Spawn /\ \A k \in Keys : ~ Upload(k)
             /\ ~ SaveIndex /\ ~ IndexPut
  <2>1. ASSUME NEW r \in Requests PROVE ~ Request(r)
    BY <1>1 DEF Request, Read, Lookup, GetReply, OpenBack, WriteBack, FetchReply,
                OpenPut, WritePut, Enqueue, Send, Disconnect, Loading, Serving
  <2>2. ~ Spawn
    <3>1. Waiting = {}
      BY <1>1 DEF Claims
    <3>2. channel # <<>> => Head(channel) \in Waiting
      BY DEF Waiting, Typed
    <3> QED
      BY <3>1, <3>2 DEF Spawn
  <2>3. ASSUME NEW k \in Keys PROVE ~ Upload(k)
    BY <1>1, PutStages DEF Upload, Claims, Entries, InFlight, PutInFlight
  <2>4. ~ SaveIndex /\ ~ IndexPut
    BY <1>1 DEF SaveIndex, IndexPut, Loading
  <2> QED
    BY <2>1, <2>2, <2>3, <2>4
<1>2. CASE LoadIndex
  <2>1. UNCHANGED <<queued, pc, index_dirty, listed, call, service>>
    BY <1>2 DEF LoadIndex, reqVars
  <2> QED
    BY <1>2, <2>1 DEF LoadIndex, Loading, BeforeIndex
<1>3. CASE IndexIdle
  <2>1. ASSUME phase' \in Loading
        PROVE  queued' = {} /\ \A r \in Requests : pc'[r] = "idle"
    <3>1. phase \in Loading
      BY <1>3, <2>1 DEF IndexIdle
    <3>2. QueueIdle
      BY <1>1, <3>1, OutsideQueue DEF Next
    <3> QED
      BY <3>1, <3>2 DEF QueueIdle
  <2> QED
    BY <1>3, <2>1 DEF IndexIdle
<1>4. ASSUME NEW k \in Keys, Upload(k) PROVE Quiet'
  <2>1. phase \notin Loading /\ phase' = phase /\ listed' = listed
    BY <1>1, <1>4 DEF Upload, flushVars
  <2>2. call'["index"] = call["index"] /\ service'["index"] = service["index"]
    BY <1>4, PutStages, ScopedAssumption DEF Upload, Entries, Scoped
  <2> QED
    BY <2>1, <2>2 DEF Loading
<1>5. CASE SaveIndex
  BY <1>5 DEF SaveIndex, Loading, BeforeIndex
<1>6. CASE IndexPut
  BY <1>6 DEF IndexPut, Loading, BeforeIndex
<1> QED
  BY <1>2, <1>3, <1>4, <1>5, <1>6, IndexIdleShape

LEMMA IndexRecordsNext ==
    ASSUME Typed, Claims, UploadedOnce, FlushDrains, Quiet, IndexRecords, [Next]_vars
    PROVE  IndexRecords'
<1> USE DEF IndexRecords
<1>1. CASE LoadIndex
  <2>1. Confirmed' = {}
    BY <1>1 DEF LoadIndex, Confirmed, Quiet, Claims, Loading, PutOk
  <2>2. phase' \in BeforeIndex /\ ~index_dirty /\ index_dirty' = index_dirty
    BY <1>1 DEF LoadIndex, Quiet, Loading, BeforeIndex
  <2>3. index' = loaded'
    BY <1>1 DEF LoadIndex, FetchFails, Quiet
  <2> QED
    BY <2>1, <2>2, <2>3
<1>2. CASE IndexIdle
  <2>1. Confirmed' = Confirmed
    BY <1>2 DEF IndexIdle, Confirmed, PutOk
  <2> QED
    BY <1>2, <2>1 DEF IndexIdle
<1>3. ASSUME NEW k \in Keys, Upload(k) PROVE IndexRecords'
  <2>1. PICK to \in PutStage :
            PutStep(k, to) /\ IF to \in PutResult THEN Settle(k, to)
               ELSE UNCHANGED <<permits, index, index_dirty, entries_stored,
                               uploads_failed>>
    BY <1>3 DEF Upload
  <2>2. /\ InFlight(k) /\ call'[k] = to
        /\ \A e \in Keys \ {k} : call'[e] = call[e]
    BY <2>1, PutStages DEF Entries
  <2>3. phase \in BeforeIndex
    <3>1. phase \notin PastDrain
      BY <2>2 DEF FlushDrains, UploaderDone, Uploading
    <3> QED
      BY <3>1 DEF Typed, Phase, PastDrain, BeforeIndex, Loading
  <2>4. phase' = phase /\ loaded' = loaded
    BY <1>3 DEF Upload, flushVars
  <2>5. CASE to \in PutOk
    <3>1. index' = index \cup {k} /\ index_dirty' = (index_dirty \/ k \notin index)
      BY <2>1, <2>5 DEF Settle, PutResult
    <3>2. index' = loaded' \cup Confirmed'
      BY <2>2, <2>4, <2>5, <3>1 DEF Confirmed, InFlight, PutInFlight, PutOk
    <3>3. ~index_dirty' => index' \subseteq loaded'
      BY <2>4, <3>1
    <3> QED
      BY <2>3, <2>4, <3>1, <3>2, <3>3
  <2>6. CASE to \notin PutOk
    <3>1. UNCHANGED <<index, index_dirty>>
      BY <2>1, <2>6 DEF Settle
    <3>2. Confirmed' = Confirmed
      BY <2>2, <2>6 DEF Confirmed, InFlight, PutInFlight, PutOk
    <3> QED
      BY <2>3, <2>4, <3>1, <3>2
  <2> QED
    BY <2>5, <2>6
<1>4. CASE SaveIndex
  <2>1. UNCHANGED <<index, index_dirty, loaded>> /\ call["index"] = "none"
    BY <1>4 DEF SaveIndex, setVars, Quiet, BeforeIndex
  <2>2. Confirmed' = Confirmed
    BY <1>4, ScopedAssumption
    DEF SaveIndex, Confirmed, Typed, GhaTypeOK, Entries, Scoped
  <2>3. IF HaveGha /\ index_dirty
        THEN listed' = index /\ call'["index"] = "spawned"
        ELSE call'["index"] = "none"
    BY <1>4, <2>1 DEF SaveIndex, Typed, GhaTypeOK, Entries, Scoped
  <2> QED
    BY <2>1, <2>2, <2>3
<1>5. CASE IndexPut
  <2>1. PICK to \in PutStage : PutStep("index", to)
    BY <1>5 DEF IndexPut
  <2>2. /\ InFlight("index") /\ call'["index"] = to /\ to # "none"
        /\ \A e \in Keys : call'[e] = call[e]
    BY <2>1, PutStages, ScopedAssumption DEF Entries, Scoped
  <2>3. UNCHANGED <<index, index_dirty, loaded, listed>>
    BY <1>5 DEF IndexPut, setVars
  <2>4. listed = index
    BY <1>5, <2>2 DEF IndexPut, BeforeIndex, Loading, InFlight, PutInFlight
  <2> QED
    BY <2>2, <2>3, <2>4 DEF Confirmed
<1> QED
  BY <1>1, <1>2, <1>3, <1>4, <1>5, IndexIdleShape

\* Where a put call can get only with the key reserved, or declined by a
\* client that is exhausted.
LEMMA PutBacked ==
    ASSUME Typed, NEW k \in Entries, NEW to \in PutStage, PutStep(k, to),
           call[k] \in {"blob", "finalize"} => k \in reserved
    PROVE  /\ to \in PutOk \cup {"blob", "finalize"} => k \in reserved' \/ exhausted'
           /\ to \in {"blob", "finalize"} => k \in reserved'
           /\ to = "create" => ~exhausted
           /\ to \in {"blob", "finalize"} => call[k] \in {"create", "blob"}
           /\ service'[k] = "fresh" => service[k] = "fresh" \/ call[k] = "finalize"
BY DEF Typed, GhaTypeOK, PutStep, PutBegin, CreateReply, BlobReply, FinalizeReply,
       RateLimited, ReplyLost, Noted, PutOk

LEMMA BackingNext ==
    ASSUME Typed, Claims, UploadedOnce, FlushDrains, Quiet, IndexRecords, Backing, [Next]_vars
    PROVE  Backing'
<1> USE DEF Backing
<1>1. CASE LoadIndex
  <2>1. index' = loaded'
    BY <1>1 DEF LoadIndex, Quiet
  <2>2. UNCHANGED <<call, service, reserved>>
    BY <1>1 DEF LoadIndex, histVars
  <2>3. call["index"] = "none" /\ service["index"] = "absent"
    BY <1>1 DEF LoadIndex, Quiet, BeforeIndex, Loading
  <2> QED
    BY <2>1, <2>2, <2>3
<1>2. CASE IndexIdle
  BY <1>2 DEF IndexIdle
<1>3. ASSUME NEW k \in Keys, Upload(k) PROVE Backing'
  <2>1. PICK to \in PutStage :
            PutStep(k, to) /\ IF to \in PutResult THEN Settle(k, to)
               ELSE UNCHANGED <<permits, index, index_dirty, entries_stored,
                               uploads_failed>>
    BY <1>3 DEF Upload
  <2>2. /\ call'[k] = to
        /\ \A e \in Keys \ {k} : call'[e] = call[e]
        /\ call'["index"] = call["index"] /\ service'["index"] = service["index"]
    BY <2>1, PutStages, ScopedAssumption DEF Entries, Scoped
  <2>3. (exhausted => exhausted') /\ reserved \subseteq reserved'
    BY <2>1, PutGrows DEF Entries
  <2>4. /\ to \in PutOk => k \in reserved' \/ exhausted'
        /\ to \in {"blob", "finalize"} => k \in reserved'
    BY <2>1, PutBacked DEF Entries
  <2>5. UNCHANGED <<loaded, listed>>
    BY <1>3 DEF Upload, flushVars
  <2>6. index' \subseteq index \cup {e \in {k} : to \in PutOk}
    BY <2>1 DEF Settle
  <2> QED
    BY <2>2, <2>3, <2>4, <2>5, <2>6
<1>4. CASE SaveIndex
  <2>1. /\ UNCHANGED <<index, loaded, service, reserved, exhausted>>
        /\ service["index"] = "absent"
    BY <1>4 DEF SaveIndex, setVars, histVars, Quiet, BeforeIndex
  <2>2. /\ call'["index"] \in {"none", "spawned"}
        /\ \A k \in Keys : call'[k] = call[k]
    BY <1>4, ScopedAssumption
    DEF SaveIndex, Quiet, BeforeIndex, Typed, GhaTypeOK, Entries, Scoped
  <2> QED
    BY <2>1, <2>2
<1>5. CASE IndexPut
  <2>1. PICK to \in PutStage : PutStep("index", to)
    BY <1>5 DEF IndexPut
  <2>2. /\ InFlight("index") /\ call'["index"] = to
        /\ \A e \in Keys : call'[e] = call[e]
    BY <2>1, PutStages, ScopedAssumption DEF Entries, Scoped
  <2>3. (exhausted => exhausted') /\ reserved \subseteq reserved'
    BY <2>1, PutGrows DEF Entries, Scoped
  <2>4. /\ to = "create" => ~exhausted
        /\ to \in {"blob", "finalize"} => call["index"] \in {"create", "blob"}
        /\ service'["index"] = "fresh" =>
               service["index"] = "fresh" \/ call["index"] = "finalize"
    BY <2>1 DEF PutStep, PutBegin, CreateReply, BlobReply, FinalizeReply, RateLimited,
                ReplyLost, Typed, GhaTypeOK, Entries, Scoped
  <2>5. UNCHANGED <<index, loaded, listed>>
    BY <1>5 DEF IndexPut, setVars
  <2>6. listed = index
    BY <1>5, <2>2 DEF IndexPut, IndexRecords, BeforeIndex, Loading, InFlight, PutInFlight
  <2> QED
    BY <2>2, <2>3, <2>4, <2>5, <2>6
<1> QED
  BY <1>1, <1>2, <1>3, <1>4, <1>5, IndexIdleShape

-----------------------------------------------------------------------------
(***************************************************************************)
(* The theorems.                                                           *)
(***************************************************************************)

LEMMA InitIInv == Init => IInv
<1> SUFFICES ASSUME Init PROVE IInv
  OBVIOUS
<1>1. Typed
  BY InitTyped
<1>2. /\ \A e \in Entries : call[e] = "none"
      /\ Waiting = {} /\ queued = {} /\ index = {} /\ ~index_dirty /\ listed = {}
      /\ \A r \in Requests : pc[r] = "idle"
  BY DEF Init, GhaInit, Waiting
<1>3. Claims /\ UploadedOnce /\ ClaimNotLost
  BY <1>2 DEF Init, Claims, UploadedOnce, ClaimNotLost, Putting, Waiting, Entries
<1>4. PermitsConserved
  <2>1. Uploading = {}
    BY <1>2 DEF Uploading, InFlight, PutInFlight, Entries
  <2> QED
    BY <2>1, FS_EmptySet, StoreAssumption DEF PermitsConserved, Init
<1>5. FlushDrains
  BY DEF FlushDrains, PastDrain, Init
<1>6. Quiet
  BY <1>2, ScopedAssumption, StoreAssumption DEF Quiet, Init, Entries, Scoped
<1>7. IndexRecords /\ Backing
  BY <1>2, <1>6 DEF Quiet, IndexRecords, Backing, Confirmed, PutOk, Init, Entries, Scoped,
              BeforeIndex, Loading
<1> QED
  BY <1>1, <1>3, <1>4, <1>5, <1>6, <1>7 DEF IInv

\* IInv is an invariant of the store: every step of every actor keeps it.
THEOREM Invariance == Spec => []IInv
<1>1. IInv /\ [Next]_vars => IInv'
  <2> SUFFICES ASSUME IInv, [Next]_vars PROVE IInv'
    OBVIOUS
  <2> USE DEF IInv
  <2>1. Typed'
    BY TypedNext
  <2>2. Claims' /\ UploadedOnce'
    BY ClaimsNext
  <2>3. ClaimNotLost'
    BY ClaimNotLostNext
  <2>4. PermitsConserved'
    BY PermitsNext
  <2>5. FlushDrains'
    BY FlushDrainsNext
  <2>6. Quiet'
    BY QuietNext
  <2>7. IndexRecords'
    BY IndexRecordsNext
  <2>8. Backing'
    BY BackingNext
  <2> QED
    BY <2>1, <2>2, <2>3, <2>4, <2>5, <2>6, <2>7, <2>8
<1> QED
  BY <1>1, InitIInv, PTL DEF Spec

\* Every variable keeps its type and the upload semaphore never holds more
\* permits than `concurrency`, for any number of keys and requests.
THEOREM TypeCorrect == Spec => []TypeOK
<1>1. IInv => TypeOK
  <2> SUFFICES ASSUME IInv PROVE permits <= Concurrency
    BY DEF IInv, TypeOK
  <2>1. Cardinality(Uploading) \in Nat
    BY StoreAssumption, FS_Subset, FS_CardinalityType DEF Uploading
  <2> QED
    BY <2>1, StoreAssumption DEF IInv, Typed, PermitsConserved
<1> QED
  BY <1>1, Invariance, PTL

\* The claim in Store.queued works: however requests interleave, no key is
\* handed to the upload queue twice.
THEOREM SingleUpload == Spec => []UploadedOnce
<1>1. IInv => UploadedOnce
  BY DEF IInv
<1> QED
  BY <1>1, Invariance, PTL

\* While the queue is open no claimed object that is not for the pack is lost on
\* its way to an upload task, disk errors included.
THEOREM NoClaimLost == Spec => []ClaimNotLost
<1>1. IInv => ClaimNotLost
  BY DEF IInv
<1> QED
  BY <1>1, Invariance, PTL

\* Uploads and free permits always add up to `concurrency`.
THEOREM PermitsKept == Spec => []PermitsConserved
<1>1. IInv => PermitsConserved
  BY DEF IInv
<1> QED
  BY <1>1, Invariance, PTL

\* Past the join in flush() no sender, message or upload is left.
THEOREM DrainComplete == Spec => []FlushDrains
<1>1. IInv => FlushDrains
  BY DEF IInv
<1> QED
  BY <1>1, Invariance, PTL

\* The manifest flush() files, or does not bother to file, misses no key that
\* this job confirmed.
THEOREM ManifestMissesNothing == Spec => []ManifestComplete
<1>1. IInv => ManifestComplete
  BY DEF IInv, IndexRecords, ManifestComplete, PastDrain, BeforeIndex, Loading
<1> QED
  BY <1>1, Invariance, PTL

\* A manifest the service accepted lists only keys it held or reserved, or
\* that the manifest it replaces listed already.
THEOREM ManifestHonest == Spec => []ManifestBacked
<1>1. IInv => ManifestBacked
  BY DEF IInv, Backing, ManifestBacked
<1> QED
  BY <1>1, Invariance, PTL
=============================================================================
