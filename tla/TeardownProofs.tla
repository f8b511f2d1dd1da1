--------------------------- MODULE TeardownProofs ---------------------------
(***************************************************************************)
(* Theorems about what the teardown of a job writes and reports: the pack  *)
(* of save_pack() and the warning of `cicache stop`.  They rest on the     *)
(* invariant of StoreProofs and on TeardownInv, which follows the files of *)
(* packed objects, the bodies read from them and the counters.             *)
(***************************************************************************)
EXTENDS StoreProofs

-----------------------------------------------------------------------------
(***************************************************************************)
(* The pack in the scope.                                                  *)
(***************************************************************************)

\* Only the answer that ends save_pack() replaces the pack.
LEMMA PackKept ==
    ASSUME Typed, [Next]_vars
    PROVE  phase' # "done" => phase # "done" /\ pack' = pack
<1> USE DEF vars, ghaVars, diskVars, setVars, queueVars, reqVars, flushVars,
            scopeVars, statVars, histVars
<1>1. CASE LoadIndex \/ LoadPack \/ Spawn \/ Shutdown \/ Exited \/ UNCHANGED vars
  BY <1>1 DEF LoadIndex, LoadPack, Spawn, Shutdown, Exited
<1>2. ASSUME NEW r \in Requests, Request(r) PROVE UNCHANGED <<phase, pack>>
  BY <1>2 DEF Request, Read, Lookup, GetReply, OpenBack, WriteBack, FetchReply,
              OpenPut, WritePut, Enqueue, Send, Disconnect
<1>3. ASSUME NEW k \in Keys, Upload(k) PROVE UNCHANGED <<phase, pack>>
  BY <1>3 DEF Upload
<1>4. CASE Drained \/ SaveIndex \/ IndexPut \/ SavePack \/ Encode
  BY <1>4 DEF Drained, SaveIndex, IndexPut, SavePack, Encode
<1>5. CASE \E k \in Keys : ReadPack(k)
  BY <1>5 DEF ReadPack
<1>6. CASE PackPut
  <2>1. PICK to \in PutStage :
            PutStep("pack", to) /\ phase' = IF to \in PutResult THEN "done" ELSE phase
    BY <1>6 DEF PackPut
  <2>2. to \in PutResult \/ service'["pack"] # "fresh" \/ service' = service
    BY <2>1 DEF PutStep, PutBegin, CreateReply, BlobReply, FinalizeReply, RateLimited,
                ReplyLost, PutResult, PutOk, Typed, GhaTypeOK, Entries, Scoped
  <2> QED
    BY <1>6, <2>1, <2>2 DEF PackPut
<1>7. CASE \/ \E k \in Keys : StopRemoves(k)
           \/ \E k \in Listable : ServiceMoves(k) \/ OtherManifest(k)
  BY <1>7 DEF StopRemoves, ServiceMoves, OtherManifest
<1> QED
  BY <1>1, <1>2, <1>3, <1>4, <1>5, <1>6, <1>7 DEF Next, Flush

LEMMA OldPackNext ==
    ASSUME Typed, OldPack, [Next]_vars
    PROVE  OldPack'
BY PackKept DEF OldPack

-----------------------------------------------------------------------------
(***************************************************************************)
(* The files behind packed objects.                                        *)
(***************************************************************************)

\* Nothing is ever trusted again.
LEMMA TrustShrinks ==
    ASSUME Quiet, [Next]_vars, phase' # "done", pack' = pack
    PROVE  Trusted' \subseteq Trusted
<1> USE DEF vars, ghaVars, diskVars, setVars, queueVars, reqVars, flushVars, scopeVars,
            statVars, histVars
<1>1. damaged \subseteq damaged' /\ loaded \subseteq loaded'
  <2>1. CASE LoadIndex
    BY <2>1 DEF LoadIndex, Quiet
  <2>2. CASE LoadPack \/ Spawn \/ Shutdown \/ Flush \/ Exited \/ UNCHANGED vars
    BY <2>2 DEF LoadPack, Spawn, Shutdown, Flush, Drained, SaveIndex, IndexPut, SavePack,
                ReadPack, Encode, PackPut, Exited
  <2>3. ASSUME NEW r \in Requests, Request(r)
        PROVE  damaged \subseteq damaged' /\ loaded' = loaded
    BY <2>3 DEF Request, Read, Lookup, GetReply, OpenBack, WriteBack, FetchReply,
                OpenPut, WritePut, Enqueue, Send, Disconnect
  <2>4. CASE \/ \E k \in Keys : Upload(k) \/ StopRemoves(k)
             \/ \E k \in Listable : ServiceMoves(k) \/ OtherManifest(k)
    BY <2>4 DEF Upload, StopRemoves, ServiceMoves, OtherManifest
  <2> QED
    BY <2>1, <2>2, <2>3, <2>4 DEF Next
<1> QED
  BY <1>1 DEF Trusted

\* The steps of the other actors: no request moves, the sets stay, and a file
\* is only touched by removing it.
FilesIdle ==
    /\ UNCHANGED <<pc, req, queued, packed>>
    /\ \A k \in Keys : file'[k] = file[k] \/ k \in damaged'

LEMMA FilesIdleShape ==
    ASSUME Typed, [Next]_vars, ~ LoadPack, \A r \in Requests : ~ Request(r)
    PROVE  FilesIdle
<1> USE DEF FilesIdle, vars, ghaVars, diskVars, setVars, queueVars, reqVars,
            flushVars, scopeVars, statVars, histVars
<1>1. CASE LoadIndex \/ Spawn \/ Shutdown \/ Exited \/ UNCHANGED vars
  BY <1>1 DEF LoadIndex, Spawn, Shutdown, Exited
<1>2. ASSUME NEW k \in Keys, Upload(k) PROVE FilesIdle
  BY <1>2 DEF Upload
<1>3. CASE Flush
  BY <1>3 DEF Flush, Drained, SaveIndex, IndexPut, SavePack, ReadPack, Encode, PackPut
<1>4. ASSUME NEW k \in Keys, StopRemoves(k) PROVE FilesIdle
  BY <1>4 DEF StopRemoves, Typed
<1>5. ASSUME NEW k \in Listable, ServiceMoves(k) \/ OtherManifest(k) PROVE FilesIdle
  BY <1>5 DEF ServiceMoves, OtherManifest
<1> QED
  BY <1>1, <1>2, <1>3, <1>4, <1>5 DEF Next

LEMMA DownloadsNext ==
    ASSUME Typed, Claims, UploadedOnce, Quiet, PackedFiles, Downloads, [Next]_vars
    PROVE  Downloads'
<1> SUFFICES ASSUME phase' # "done" PROVE Downloads'
  BY DEF Downloads
<1>1. phase # "done" /\ pack' = pack
  BY PackKept
<1>2. Trusted' \subseteq Trusted
  BY <1>1, TrustShrinks
<1> DEFINE Asks == \A r \in Requests :
               pc[r] \in {"rpc", "open_back", "write_back"} => req[r] \in index
           Apart(k) == /\ k \notin Waiting /\ call[k] = "none"
                       /\ \A r \in Requests : pc[r] = "send" => req[r] # k
<1>3. Asks /\ \A k \in packed \cap Trusted : Apart(k)
  BY <1>1 DEF Downloads
<1> SUFFICES Asks' /\ \A k \in packed' \cap Trusted' : Apart(k)'
  BY DEF Downloads
<1> USE DEF ghaVars, diskVars, setVars, queueVars, reqVars, flushVars, scopeVars,
            statVars, histVars
<1>4. CASE LoadIndex \/ LoadPack
  <2>1. /\ \A r \in Requests : pc'[r] = "idle"
        /\ Waiting' = {} /\ \A k \in Keys : call'[k] = "none"
    BY <1>4 DEF LoadIndex, LoadPack, Quiet, Loading, Claims, Waiting
  <2> QED
    BY <2>1 DEF Trusted
<1>5. ASSUME NEW r \in Requests, Request(r) PROVE Asks'
  <2> USE DEF Goto, Typed
  <2>1. CASE Lookup(r)
    BY <1>3, <2>1 DEF Lookup
  <2>2. CASE GetReply(r) \/ OpenBack(r)
    BY <1>3, <2>2 DEF GetReply, OpenBack, Decode
  <2>3. CASE ~ Lookup(r) /\ ~ GetReply(r) /\ ~ OpenBack(r)
    <3>1. UNCHANGED <<req, index>>
      BY <1>5, <2>3 DEF Request, Read, WriteBack, FetchReply, OpenPut, WritePut,
                        Enqueue, Send, Disconnect
    <3>2. \E l \in Pc \ {"rpc", "open_back", "write_back"} : pc' = [pc EXCEPT ![r] = l]
      BY <1>5, <2>3
      DEF Request, Read, WriteBack, FetchReply, OpenPut, WritePut, Enqueue, EnqueueSmall,
          EnqueueLarge, Send, Disconnect, Decode, Pc, Answered, Dropped
    <3> QED
      BY <1>3, <3>1, <3>2
  <2> QED
    BY <2>1, <2>2, <2>3
<1>6. ASSUME NEW r \in Requests, Request(r), NEW k \in packed' \cap Trusted'
      PROVE  Apart(k)'
  <2> USE DEF Typed
  <2>1. CASE Enqueue(r)
    <3>1. /\ pc[r] = "enqueue" /\ UNCHANGED <<req, channel, call>>
          /\ k # req[r] => k \in packed
      BY <2>1 DEF Enqueue, EnqueueSmall, EnqueueLarge
    <3>2. k \notin Waiting' /\ call'[k] = "none"
      BY <1>2, <1>3, <3>1 DEF Claims, Putting, Waiting
    <3>3. CASE EnqueueSmall(r)
      <4>1. \A s \in Requests : pc'[s] = "send" => pc[s] = "send" /\ s # r
        BY <3>3 DEF EnqueueSmall, Goto
      <4>2. \A s \in Requests : pc[s] = "send" => req[s] # k
        BY <1>2, <1>3, <3>1 DEF Claims, Putting
      <4> QED
        BY <3>1, <3>2, <4>1, <4>2
    <3>4. CASE EnqueueLarge(r)
      <4>1. k \in packed /\ k # req[r]
        BY <1>1, <1>2, <3>1, <3>4 DEF EnqueueLarge, PackedFiles
      <4>2. \A s \in Requests : pc'[s] = "send" => pc[s] = "send" \/ s = r
        BY <3>4 DEF EnqueueLarge, Goto
      <4> QED
        BY <1>2, <1>3, <3>1, <3>2, <4>1, <4>2
    <3> QED
      BY <2>1, <3>3, <3>4 DEF Enqueue
  <2>2. CASE ~ Enqueue(r)
    <3>1. packed' = packed
      BY <1>6, <2>2 DEF Request, Read, Lookup, GetReply, OpenBack, WriteBack, FetchReply,
                        OpenPut, WritePut, Send, Disconnect
    <3>2. UNCHANGED <<req, call>>
      BY <1>6, <2>2 DEF Request, Read, Lookup, GetReply, OpenBack, WriteBack, FetchReply,
                        OpenPut, WritePut, Send, Disconnect
    <3>3. \A s \in Requests : pc'[s] = "send" => pc[s] = "send"
      BY <1>6, <2>2
      DEF Request, Read, Lookup, GetReply, OpenBack, WriteBack, FetchReply, OpenPut,
          WritePut, Send, Disconnect, Decode, Goto, Dropped
    <3>4. channel' = channel \/ Send(r)
      BY <1>6, <2>2 DEF Request, Read, Lookup, GetReply, OpenBack, WriteBack, FetchReply,
                        OpenPut, WritePut, Disconnect
    <3>5. k \notin Waiting'
      BY <1>2, <1>3, <3>1, <3>4 DEF Waiting, Send
    <3> QED
      BY <1>2, <1>3, <3>1, <3>2, <3>3, <3>5
  <2> QED
    BY <2>1, <2>2
<1>7. CASE Spawn
  <2>1. Head(channel) \in Waiting /\ Waiting' \subseteq Waiting
    BY <1>7 DEF Spawn, Waiting, Typed
  <2>2. \A k \in Keys \ {Head(channel)} : call'[k] = call[k]
    BY <1>7 DEF Spawn, Typed, GhaTypeOK, Entries
  <2> QED
    BY <1>2, <1>3, <1>7, <2>1, <2>2 DEF Spawn, Trusted
<1>8. ASSUME NEW k \in Keys, Upload(k)
      PROVE  Asks' /\ \A e \in packed' \cap Trusted' : Apart(e)'
  <2>1. PICK to \in PutStage :
            PutStep(k, to) /\ IF to \in PutResult THEN Settle(k, to)
               ELSE UNCHANGED <<permits, index, index_dirty, entries_stored,
                               uploads_failed>>
    BY <1>8 DEF Upload
  <2>2. InFlight(k) /\ \A e \in Keys \ {k} : call'[e] = call[e]
    BY <2>1, PutStages DEF Entries
  <2>3. call[k] # "none"
    BY <2>2 DEF InFlight, PutInFlight
  <2>4. index \subseteq index'
    BY <2>1 DEF Settle
  <2>5. UNCHANGED <<pc, req, packed, channel>>
    BY <1>8 DEF Upload
  <2> QED
    BY <1>2, <1>3, <2>2, <2>3, <2>4, <2>5 DEF Waiting, Trusted
<1>9. ASSUME \/ Shutdown \/ Flush \/ \E k \in Keys : StopRemoves(k)
             \/ \E k \in Listable : ServiceMoves(k) \/ OtherManifest(k)
             \/ Exited \/ UNCHANGED vars
      PROVE  Asks' /\ \A k \in packed' \cap Trusted' : Apart(k)'
  <2>1. QueueIdle
    BY <1>9, OutsideQueue
  <2>2. UNCHANGED <<packed, index>>
    BY <1>9 DEF Shutdown, Flush, Drained, SaveIndex, IndexPut, SavePack, ReadPack, Encode,
                PackPut, StopRemoves, ServiceMoves, OtherManifest, Exited, vars
  <2> QED
    BY <1>2, <1>3, <2>1, <2>2 DEF QueueIdle, Waiting, Trusted
<1> QED
  BY <1>4, <1>5, <1>6, <1>7, <1>8, <1>9 DEF Next

\* Nobody downloads to the file of a trusted key that is packed or being put.
LEMMA NotDownloaded ==
    ASSUME Typed, Claims, IndexRecords, Downloads, phase # "done",
           NEW r \in Requests, pc[r] \in {"rpc", "open_back", "write_back"},
           req[r] \in Trusted
    PROVE  /\ req[r] \notin packed /\ req[r] \in queued
           /\ \A s \in Requests : pc[s] \in Putting => req[s] # req[r]
<1>1. req[r] \in Confirmed
  BY DEF Downloads, IndexRecords, Trusted
<1>2. call[req[r]] # "none"
  BY <1>1 DEF Confirmed, PutOk
<1> QED
  BY <1>2 DEF Downloads, Claims, Typed

LEMMA PackedFilesNext ==
    ASSUME Typed, Claims, Quiet, IndexRecords, OldPack, Downloads, PackedFiles, [Next]_vars
    PROVE  PackedFiles'
<1> SUFFICES ASSUME phase' # "done" PROVE PackedFiles'
  BY DEF PackedFiles
<1>1. phase # "done" /\ pack' = pack
  BY PackKept
<1>2. Trusted' \subseteq Trusted /\ Trusted' \cap damaged' = {}
  BY <1>1, TrustShrinks DEF Trusted
<1>3. CASE FilesIdle
  <2>1. \A k \in Trusted' : file'[k] = file[k]
    BY <1>2, <1>3 DEF FilesIdle, Trusted
  <2> QED
    BY <1>1, <1>2, <1>3, <2>1 DEF PackedFiles, FilesIdle
<1> USE <1>1 DEF PackedFiles, ghaVars, diskVars, setVars, queueVars, reqVars,
                 flushVars, scopeVars, statVars, histVars
<1>4. CASE LoadPack
  <2>1. \A r \in Requests : pc'[r] = "idle"
    BY <1>4 DEF LoadPack, Quiet, Loading
  <2>2. \A k \in packed' \cap Trusted' : Decodes(file'[k])
    BY <1>2, <1>4 DEF LoadPack, OldPack, Decodes, Intact, Trusted
  <2> QED
    BY <2>1, <2>2
<1>5. ASSUME NEW r \in Requests, Request(r) PROVE PackedFiles'
  <2> USE <1>2 DEF Goto, Typed
  <2>1. CASE Read(r)
    BY <2>1 DEF Read, Decode, Decodes, Intact
  <2>2. CASE Lookup(r)
    BY <2>2 DEF Lookup
  <2>3. CASE GetReply(r)
    BY <2>3, NotDownloaded DEF GetReply
  <2>4. CASE OpenBack(r)
    BY <2>4, NotDownloaded DEF OpenBack, Decode, Decodes, Putting
  <2>5. CASE WriteBack(r)
    BY <2>5, NotDownloaded DEF WriteBack, Decode, Decodes, Putting
  <2>6. CASE FetchReply(r)
    BY <2>6 DEF FetchReply
  <2>7. CASE OpenPut(r)
    BY <2>7 DEF OpenPut, Claims, Putting, Decodes
  <2>8. CASE WritePut(r)
    BY <2>8 DEF WritePut, Claims, Putting, Decodes, Overlay, Intact
  <2>9. CASE Enqueue(r)
    BY <2>9 DEF Enqueue, EnqueueSmall, EnqueueLarge, Claims, Putting, Decodes
  <2>10. CASE Send(r)
    BY <2>10 DEF Send
  <2>11. CASE Disconnect(r)
    BY <2>11 DEF Disconnect
  <2> QED
    BY <1>5, <2>1, <2>2, <2>3, <2>4, <2>5, <2>6, <2>7, <2>8, <2>9, <2>10, <2>11
    DEF Request
<1> QED
  BY <1>3, <1>4, <1>5, FilesIdleShape

-----------------------------------------------------------------------------
(***************************************************************************)
(* What save_pack() reads and encodes.                                     *)
(***************************************************************************)

LEMMA PackedBodiesNext ==
    ASSUME Typed, Quiet, PackedFiles, PackedBodies, [Next]_vars
    PROVE  PackedBodies'
<1> SUFFICES ASSUME phase' # "done" PROVE PackedBodies'
  BY DEF PackedBodies
<1>1. phase # "done" /\ pack' = pack
  BY PackKept
<1> USE <1>1 DEF PackedBodies, InPack, Decodes, ghaVars, diskVars, setVars, queueVars,
                 reqVars, flushVars, scopeVars, statVars, histVars
<1>2. CASE LoadIndex \/ LoadPack
  BY <1>2 DEF LoadIndex, LoadPack, Loading, Quiet
<1>3. ASSUME NEW r \in Requests, Request(r) PROVE PackedBodies'
  <2>1. UNCHANGED <<flushVars, pack, loaded>>
    BY <1>3 DEF Request, Read, Lookup, GetReply, OpenBack, WriteBack, FetchReply,
                OpenPut, WritePut, Enqueue, Send, Disconnect
  <2>2. damaged \subseteq damaged'
    BY <1>3 DEF Request, Read, Lookup, GetReply, OpenBack, WriteBack, FetchReply,
                OpenPut, WritePut, Enqueue, Send, Disconnect
  <2>3. packed \subseteq packed'
    BY <1>3 DEF Request, Read, Lookup, GetReply, OpenBack, WriteBack, FetchReply,
                OpenPut, WritePut, Enqueue, EnqueueSmall, EnqueueLarge, Send, Disconnect
  <2> QED
    BY <2>1, <2>2, <2>3
<1>4. CASE Spawn \/ Shutdown \/ Exited \/ UNCHANGED vars
  BY <1>4 DEF Spawn, Shutdown, Exited, vars, Loading
<1>5. ASSUME NEW k \in Keys, Upload(k) PROVE PackedBodies'
  BY <1>5 DEF Upload
<1>6. CASE Drained \/ SaveIndex \/ IndexPut
  BY <1>6 DEF Drained, SaveIndex, IndexPut, Loading
<1>7. CASE SavePack
  BY <1>7 DEF SavePack, Loading
<1>8. ASSUME NEW k \in Keys, ReadPack(k) PROVE PackedBodies'
  <2>1. Decodes(file[k]) \/ k \in damaged \cup loaded \/ pack[k] = "broken"
    BY <1>8 DEF ReadPack, PackedFiles, Trusted
  <2> QED
    BY <1>8, <2>1 DEF ReadPack, Typed, Loading
<1>9. CASE Encode
  BY <1>9 DEF Encode, Loading
<1>10. CASE PackPut
  BY <1>10 DEF PackPut, Loading
<1>11. ASSUME NEW k \in Keys, StopRemoves(k) PROVE PackedBodies'
  BY <1>11 DEF StopRemoves
<1>12. ASSUME NEW k \in Listable, ServiceMoves(k) \/ OtherManifest(k) PROVE PackedBodies'
  BY <1>12 DEF ServiceMoves, OtherManifest
<1> QED
  BY <1>2, <1>3, <1>4, <1>5, <1>6, <1>7, <1>8, <1>9, <1>10, <1>11, <1>12
  DEF Next, Flush

-----------------------------------------------------------------------------
(***************************************************************************)
(* The counters, and a job without a service.                              *)
(***************************************************************************)

\* A step that files nothing: the counters stay, what has become readable stays
\* recorded, no put call gets further than its start, and none starts for the pack
\* at the end.
CountersIdle ==
    /\ UNCHANGED <<entries_stored, packed_count>>
    /\ finalized \subseteq finalized'
    /\ \A e \in Entries : call'[e] # call[e] => call'[e] = "spawned"
    /\ phase = "done" => call'["pack"] = call["pack"]

LEMMA CountersIdleShape ==
    ASSUME Typed, [Next]_vars, ~ IndexPut, ~ PackPut, \A k \in Keys : ~ Upload(k)
    PROVE  CountersIdle
<1> USE DEF CountersIdle, vars, ghaVars, diskVars, setVars, queueVars, reqVars,
            flushVars, scopeVars, statVars, histVars
<1>1. CASE LoadIndex \/ LoadPack
  BY <1>1 DEF LoadIndex, LoadPack, FetchFails
<1>2. ASSUME NEW r \in Requests, Request(r) PROVE CountersIdle
  BY <1>2 DEF Request, Read, Lookup, GetReply, OpenBack, WriteBack, FetchReply,
              OpenPut, WritePut, Enqueue, EnqueueSmall, EnqueueLarge, Send, Disconnect
<1>3. CASE Spawn
  <2>1. Head(channel) \in Keys /\ Head(channel) # "pack"
    BY <1>3, ScopedAssumption DEF Spawn, Typed, Scoped
  <2> QED
    BY <1>3, <2>1 DEF Spawn, Typed, GhaTypeOK, Entries, Scoped
<1>4. CASE SaveIndex \/ Encode
  BY <1>4 DEF SaveIndex, Encode, Typed, GhaTypeOK
<1>5. CASE Shutdown \/ Drained \/ SavePack \/ Exited \/ UNCHANGED vars
  BY <1>5 DEF Shutdown, Drained, SavePack, Exited
<1>6. CASE \E k \in Keys : ReadPack(k) \/ StopRemoves(k)
  BY <1>6 DEF ReadPack, StopRemoves
<1>7. ASSUME NEW k \in Listable, ServiceMoves(k) PROVE CountersIdle
  BY <1>7 DEF ServiceMoves, ServiceStep, Noted
<1>8. ASSUME NEW k \in Listable, OtherManifest(k) PROVE CountersIdle
  BY <1>8 DEF OtherManifest
<1> QED
  BY <1>1, <1>2, <1>3, <1>4, <1>5, <1>6, <1>7, <1>8 DEF Next, Flush

\* Only an answer to finalize that found the entry readable is Ok(true).
LEMMA PutFinalizes ==
    ASSUME Typed, NEW e \in Entries, NEW to \in PutStage, PutStep(e, to)
    PROVE  /\ finalized \subseteq finalized'
           /\ to = "true" => e \in finalized'
           /\ call'[e] = to /\ \A k \in Entries \ {e} : call'[k] = call[k]
<1>1. finalized \subseteq finalized'
  BY DEF PutStep, Noted
<1>2. to = "true" => service'[e] = "fresh"
  BY DEF PutStep, PutBegin, CreateReply, BlobReply, FinalizeReply, RateLimited, ReplyLost,
         Typed, GhaTypeOK
<1>3. to = "true" => e \in finalized'
  BY <1>2 DEF PutStep, Noted
<1> QED
  BY <1>1, <1>3, PutStages

LEMMA ReportsNext ==
    ASSUME Typed, Reports, [Next]_vars
    PROVE  Reports'
<1>1. CASE CountersIdle
  <2>1. phase' # "done" => phase # "done"
    BY PackKept
  <2> QED
    BY <1>1, <2>1 DEF CountersIdle, Reports
<1>2. ASSUME NEW k \in Keys, Upload(k) PROVE Reports'
  <2>1. PICK to \in PutStage :
            PutStep(k, to) /\ IF to \in PutResult THEN Settle(k, to)
               ELSE UNCHANGED <<permits, index, index_dirty, entries_stored,
                               uploads_failed>>
    BY <1>2 DEF Upload
  <2>2. entries_stored' = entries_stored \/ to = "true"
    BY <2>1 DEF Settle, Typed
  <2>3. packed_count' = packed_count /\ phase' = phase
    BY <1>2 DEF Upload, flushVars
  <2>4. /\ finalized \subseteq finalized'
        /\ to = "true" => k \in finalized'
        /\ call'[k] = to /\ \A e \in Entries \ {k} : call'[e] = call[e]
        /\ k # "pack"
    BY <2>1, PutFinalizes, ScopedAssumption DEF Entries, Scoped
  <2>5. \A e \in Entries : call'[e] = "true" => e \in finalized'
    BY <2>4 DEF Reports
  <2>6. entries_stored' > 0 => finalized' \cap Keys # {}
    BY <2>2, <2>4 DEF Reports
  <2>7. call'["pack"] = call["pack"]
    BY <2>4 DEF Entries, Scoped
  <2> QED
    BY <2>3, <2>5, <2>6, <2>7 DEF Reports
<1>3. CASE IndexPut
  <2>1. PICK to \in PutStage :
            PutStep("index", to) /\ phase' = IF to \in PutResult THEN "save_pack" ELSE phase
    BY <1>3 DEF IndexPut
  <2>2. UNCHANGED <<entries_stored, packed_count>> /\ phase = "index_put"
    BY <1>3 DEF IndexPut, statVars
  <2>3. /\ finalized \subseteq finalized'
        /\ to = "true" => "index" \in finalized'
        /\ call'["index"] = to /\ \A e \in Entries \ {"index"} : call'[e] = call[e]
    BY <2>1, PutFinalizes DEF Entries, Scoped
  <2> QED
    BY <2>2, <2>3 DEF Reports
<1>4. CASE PackPut
  <2>1. PICK to \in PutStage :
            /\ PutStep("pack", to)
            /\ phase' = IF to \in PutResult THEN "done" ELSE phase
            /\ packed_count' = IF to \in PutOk THEN Cardinality(InPack) ELSE packed_count
    BY <1>4 DEF PackPut
  <2>2. entries_stored' = entries_stored /\ phase = "pack_put"
    BY <1>4 DEF PackPut
  <2>3. /\ finalized \subseteq finalized'
        /\ to = "true" => "pack" \in finalized'
        /\ call'["pack"] = to /\ \A e \in Entries \ {"pack"} : call'[e] = call[e]
    BY <2>1, PutFinalizes DEF Entries, Scoped
  <2>4. packed_count' > 0 => phase' = "done" /\ call'["pack"] \in PutOk
    BY <2>1, <2>2, <2>3 DEF Reports, PutResult
  <2> QED
    BY <2>2, <2>3, <2>4 DEF Reports
<1> QED
  BY <1>1, <1>2, <1>3, <1>4, CountersIdleShape

LEMMA NoServiceNext ==
    ASSUME Typed, NoService, [Next]_vars
    PROVE  NoService'
<1> SUFFICES ASSUME ~HaveGha PROVE NoService'
  BY DEF NoService
<1> USE DEF NoService, vars, ghaVars, diskVars, setVars, queueVars, reqVars, flushVars,
            scopeVars, statVars, histVars
<1>1. CASE LoadIndex \/ LoadPack
  BY <1>1 DEF LoadIndex, LoadPack, FetchFails
<1>2. ASSUME NEW r \in Requests, Request(r) PROVE NoService'
  <2>1. ~ GetReply(r)
    BY DEF GetReply
  <2>2. UNCHANGED <<exhausted, call, phase>>
    BY <1>2, <2>1 DEF Request, Read, Lookup, OpenBack, WriteBack, FetchReply,
                      OpenPut, WritePut, Enqueue, Send, Disconnect
  <2>3. \E l \in Pc \ {"rpc"} : pc' = [pc EXCEPT ![r] = l]
    BY <1>2, <2>1
    DEF Request, Read, Lookup, OpenBack, WriteBack, FetchReply, OpenPut, WritePut,
        Enqueue, EnqueueSmall, EnqueueLarge, Send, Disconnect, Decode, Goto, Pc,
        Answered, Dropped
  <2> QED
    BY <2>2, <2>3 DEF Typed
<1>3. CASE Spawn \/ Shutdown \/ Exited \/ UNCHANGED vars
  BY <1>3 DEF Spawn, Shutdown, Exited
<1>4. ASSUME NEW k \in Keys PROVE ~ Upload(k)
  BY PutStages DEF Upload, Entries, InFlight, PutInFlight
<1>5. CASE Flush
  BY <1>5 DEF Flush, Drained, SaveIndex, IndexPut, SavePack, ReadPack, Encode, PackPut
<1>6. ASSUME NEW k \in Keys, StopRemoves(k) PROVE NoService'
  BY <1>6 DEF StopRemoves
<1>7. ASSUME NEW k \in Listable, ServiceMoves(k) \/ OtherManifest(k) PROVE NoService'
  BY <1>7 DEF ServiceMoves, ServiceStep, OtherManifest
<1> QED
  BY <1>1, <1>2, <1>3, <1>4, <1>5, <1>6, <1>7 DEF Next

-----------------------------------------------------------------------------
(***************************************************************************)
(* The theorems.                                                           *)
(***************************************************************************)

LEMMA InitTeardown == Init => TeardownInv
<1> SUFFICES ASSUME Init PROVE TeardownInv
  OBVIOUS
<1>1. IInv
  BY InitIInv
<1>2. Downloads
  BY DEF Init, Downloads
<1>3. OldPack
  BY DEF Init, OldPack
<1>4. PackedFiles
  BY DEF Init, PackedFiles
<1>5. PackedBodies
  BY DEF Init, PackedBodies
<1>6. Reports
  BY DEF Init, GhaInit, Reports
<1>7. NoService
  BY DEF Init, GhaInit, NoService
<1> QED
  BY <1>1, <1>2, <1>3, <1>4, <1>5, <1>6, <1>7 DEF TeardownInv

\* TeardownInv is an invariant of the store, for any sets of keys and requests.
THEOREM TeardownInvariance == Spec => []TeardownInv
<1>1. TeardownInv /\ [Next]_vars /\ IInv' => TeardownInv'
  <2> SUFFICES ASSUME TeardownInv, [Next]_vars, IInv' PROVE TeardownInv'
    OBVIOUS
  <2> USE DEF TeardownInv, IInv
  <2>1. OldPack' /\ Downloads'
    BY OldPackNext, DownloadsNext
  <2>2. PackedFiles'
    BY PackedFilesNext
  <2>3. PackedBodies'
    BY PackedBodiesNext
  <2>4. Reports' /\ NoService'
    BY ReportsNext, NoServiceNext
  <2> QED
    BY <2>1, <2>2, <2>3, <2>4
<1> QED
  BY <1>1, InitTeardown, Invariance, PTL DEF Spec

\* save_pack() packs no half-written object, however requests that are still
\* served interleave with its reads and on whichever side of the threshold an
\* entry falls: what it encodes decodes, unless the disk failed on the file,
\* `cicache stop` removed it, the pack was damaged, or the manifest listed the
\* key, so that get() may have been downloading to the same file.
THEOREM PackSafe == Spec => []PackIntact
<1>1. TeardownInv => PackIntact
  BY DEF TeardownInv, PackedBodies, PackIntact, InPack
<1> QED
  BY <1>1, TeardownInvariance, PTL

LEMMA CountedIsReadable ==
    ASSUME TeardownInv, call["pack"] # "false"
    PROVE  WarnsIfNothingCached
<1> SUFFICES ASSUME phase = "done", stored > 0, finalized \subseteq {"index"}
             PROVE  Warned
  BY DEF WarnsIfNothingCached
<1> USE DEF TeardownInv, IInv, Typed
<1>1. entries_stored = 0
  <2>1. finalized \cap Keys = {}
    BY ScopedAssumption DEF Scoped
  <2> QED
    BY <2>1 DEF Reports
<1>2. packed_count = 0
  <2>1. "pack" \notin finalized
    OBVIOUS
  <2>2. call["pack"] # "true"
    BY <2>1 DEF Reports, Entries, Scoped
  <2> QED
    BY <2>2 DEF Reports, PutOk
<1> QED
  BY <1>1, <1>2 DEF Warned

\* A run that stored responses and of which nothing became readable at the
\* service is reported by `cicache stop`, unless the pack was answered with
\* Ok(false): no failed upload, refused or lost finalize, or failed pack is
\* ever counted as filed.
THEOREM WarnsSafe == Spec => []WarnsUnlessDeclined
<1>1. TeardownInv => WarnsUnlessDeclined
  BY CountedIsReadable DEF WarnsUnlessDeclined
<1> QED
  BY <1>1, TeardownInvariance, PTL

\* Without a cache service, as outside GitHub Actions, `cicache stop`
\* always warns after a run that stored something: what the README's promise
\* fails for needs a service that declines the pack.
THEOREM WarnsWithoutService ==
    ASSUME ~HaveGha
    PROVE  Spec => []WarnsIfNothingCached
<1>1. TeardownInv => WarnsIfNothingCached
  BY CountedIsReadable DEF TeardownInv, NoService, Entries, Scoped
<1> QED
  BY <1>1, TeardownInvariance, PTL
=============================================================================
