---------------------------- MODULE StoreRefines ----------------------------
(***************************************************************************)
(* Store implements Drain whenever there is a cache service to upload to.  *)
(***************************************************************************)
EXTENDS StoreProofs

\* The mapped variables, named.
Taken == Waiting \cup {k \in Keys : call[k] # "none"}
Ended == {k \in Keys : call[k] \in PutResult}

\* A step that moves none of the mapped variables.
Unseen ==
    /\ UNCHANGED <<loaded, listed>>
    /\ Taken' = Taken /\ Ended' = Ended /\ Confirmed' = Confirmed
    /\ (phase \in PastDrain)' = (phase \in PastDrain)

\* Steps that neither take nor end an upload and stay in their phase.
LEMMA UnseenStep ==
    ASSUME QueueIdle, UNCHANGED <<loaded, listed>>,
           phase \in PastDrain <=> phase' \in PastDrain
    PROVE  Unseen
BY DEF QueueIdle, Unseen, Taken, Ended, Confirmed, Waiting

LEMMA UnseenStutters == Unseen => UNCHANGED D!drainVars
BY DEF Unseen, D!drainVars, Taken, Ended

LEMMA RefinesInit == Init => D!DrainInit
<1> SUFFICES ASSUME Init PROVE D!DrainInit
  OBVIOUS
<1>1. \A k \in Keys : call[k] = "none"
  BY DEF Init, GhaInit, Entries
<1>2. Waiting = {} /\ Confirmed = {}
  BY <1>1 DEF Init, Waiting, Confirmed, PutOk
<1>3. {k \in Keys : call[k] # "none"} = {} /\ {k \in Keys : call[k] \in PutResult} = {}
  BY <1>1 DEF PutResult, PutOk
<1> QED
  BY <1>2, <1>3 DEF D!DrainInit, Init, PastDrain

LEMMA RefinesNext ==
    ASSUME HaveGha, IInv, IInv', [Next]_vars
    PROVE  [D!DrainNext]_(D!drainVars)
<1> USE DEF IInv
<1>1. CASE LoadIndex
  <2>1. QueueIdle /\ listed' = listed
    BY <1>1, OutsideQueue DEF LoadIndex
  <2>2. phase = "load_index" /\ phase' = "load_pack"
    BY <1>1 DEF LoadIndex
  <2>3. Taken = {} /\ Taken' = Taken /\ Ended' = Ended /\ Confirmed' = Confirmed
    BY <2>1, <2>2 DEF QueueIdle, Taken, Ended, Confirmed, Waiting, Quiet, Claims, Loading
  <2>4. loaded = {} /\ loaded' \in SUBSET Keys
    BY <2>2 DEF Quiet, Typed
  <2>5. D!Learn
    BY <2>1, <2>2, <2>3, <2>4 DEF D!Learn, Taken, Ended, PastDrain
  <2> QED
    BY <2>5 DEF D!DrainNext
<1>2. ASSUME NEW r \in Requests, Request(r) PROVE [D!DrainNext]_(D!drainVars)
  <2>1. UNCHANGED <<phase, loaded, listed, call>>
    BY <1>2 DEF Request, Read, Lookup, GetReply, OpenBack, WriteBack, FetchReply,
                OpenPut, WritePut, Enqueue, Send, Disconnect, ghaVars, flushVars
  <2>2. CASE Sends(r)
    <3>1. PICK k \in Keys : k = req[r]
      BY DEF Typed
    <3>2. pc[r] \in Putting /\ k \notin Taken
      BY <2>2, <3>1 DEF Sends, Putting, Claims, Taken
    <3>3. Waiting' = Waiting \cup {k}
      <4>1. channel' = Append(channel, k) /\ channel \in Seq(Keys)
        BY <2>2, <3>1 DEF Sends, Typed
      <4>2. /\ DOMAIN channel' = DOMAIN channel \cup {Len(channel) + 1}
            /\ channel'[Len(channel) + 1] = k
            /\ \A i \in DOMAIN channel : channel'[i] = channel[i]
        BY <4>1
      <4> QED
        BY <4>2 DEF Waiting
    <3>4. Taken' = Taken \cup {k} /\ Ended' = Ended /\ Confirmed' = Confirmed
      BY <2>1, <3>3 DEF Taken, Ended, Confirmed
    <3>5. phase \notin PastDrain
      BY <2>2 DEF Sends, FlushDrains, UploaderDone
    <3>6. D!Accept(k)
      BY <2>1, <3>2, <3>4, <3>5 DEF D!Accept, Taken, Ended
    <3> QED
      BY <3>6 DEF D!DrainNext
  <2>3. CASE ~ Sends(r)
    <3>1. channel' = channel
      BY <1>2, <2>3, RequestShape DEF Stays, ClaimsKey, Finishes, Drops
    <3>2. Unseen
      BY <2>1, <3>1 DEF Unseen, Taken, Ended, Confirmed, Waiting
    <3> QED
      BY <3>2, UnseenStutters
  <2> QED
    BY <2>2, <2>3
<1>3. CASE Spawn
  <2> DEFINE k == Head(channel)
  <2>1. k \in Keys /\ k \in Waiting /\ call[k] = "none"
    BY <1>3 DEF Spawn, Typed, UploadedOnce, Waiting
  <2>2. call'[k] = "spawned" /\ \A e \in Keys \ {k} : call'[e] = call[e]
    BY <1>3, <2>1 DEF Spawn, Typed, GhaTypeOK, Entries
  <2>3. Waiting = Waiting' \cup {k}
    <3>1. Waiting' \subseteq Waiting
      BY <1>3 DEF Spawn, Waiting, Typed
    <3>2. ASSUME NEW e \in Waiting, e # k PROVE e \in Waiting'
      <4>1. PICK i \in DOMAIN channel : channel[i] = e
        BY DEF Waiting
      <4>2. i - 1 \in DOMAIN Tail(channel) /\ Tail(channel)[i - 1] = e
        BY <3>2, <4>1 DEF Typed
      <4> QED
        BY <1>3, <4>2 DEF Spawn, Waiting
    <3> QED
      BY <2>1, <3>1, <3>2
  <2>4. Taken' = Taken
    BY <2>1, <2>2, <2>3 DEF Taken
  <2>5. Ended' = Ended /\ Confirmed' = Confirmed
    BY <2>1, <2>2 DEF Ended, Confirmed, PutResult, PutOk
  <2>6. Unseen
    BY <1>3, <2>4, <2>5 DEF Spawn, Unseen, flushVars
  <2> QED
    BY <2>6, UnseenStutters
<1>4. ASSUME NEW k \in Keys, Upload(k) PROVE [D!DrainNext]_(D!drainVars)
  <2>1. PICK to \in PutStage : PutStep(k, to)
    BY <1>4 DEF Upload
  <2>2. /\ InFlight(k) /\ call'[k] = to /\ to # "none"
        /\ \A e \in Keys \ {k} : call'[e] = call[e]
    BY <2>1, PutStages DEF Entries
  <2>3. UNCHANGED <<phase, loaded, listed, channel>>
    BY <1>4 DEF Upload, flushVars
  <2>4. Taken' = Taken /\ k \in Taken \ Ended
    BY <2>2, <2>3 DEF Taken, Ended, Waiting, InFlight, PutInFlight, PutResult, PutOk
  <2>5. CASE to \in PutResult
    <3>1. Ended' = Ended \cup {k} /\ Confirmed' \in {Confirmed, Confirmed \cup {k}}
      BY <2>2, <2>5 DEF Ended, Confirmed, InFlight, PutInFlight, PutResult, PutOk
    <3>2. phase \notin PastDrain
      BY <2>2 DEF FlushDrains, UploaderDone, Uploading
    <3>3. D!Settled(k)
      BY <2>3, <2>4, <3>1, <3>2 DEF D!Settled, Taken, Ended
    <3> QED
      BY <3>3 DEF D!DrainNext
  <2>6. CASE to \notin PutResult
    <3>1. Ended' = Ended /\ Confirmed' = Confirmed
      BY <2>2, <2>6 DEF Ended, Confirmed, InFlight, PutInFlight, PutResult, PutOk
    <3> QED
      BY <2>3, <2>4, <3>1, UnseenStutters DEF Unseen
  <2> QED
    BY <2>5, <2>6
<1>5. CASE Drained
  <2>1. QueueIdle /\ UNCHANGED <<loaded, listed>>
    BY <1>5, OutsideQueue DEF Drained, Flush
  <2>2. Taken' = Taken /\ Ended' = Ended /\ Confirmed' = Confirmed
    BY <2>1 DEF QueueIdle, Taken, Ended, Confirmed, Waiting
  <2>3. Ended = Taken
    BY <1>5 DEF Drained, UploaderDone, Uploading, InFlight, Taken, Ended, Waiting,
                Typed, GhaTypeOK, Entries, PutStage, PutResult, PutOk
  <2>4. phase \notin PastDrain /\ phase' \in PastDrain
    BY <1>5 DEF Drained, PastDrain
  <2>5. D!Close
    BY <2>1, <2>2, <2>3, <2>4 DEF D!Close, Taken, Ended
  <2> QED
    BY <2>5 DEF D!DrainNext
<1>6. CASE SaveIndex
  <2>1. QueueIdle /\ UNCHANGED <<loaded, index>>
    BY <1>6, OutsideQueue DEF SaveIndex, Flush, setVars
  <2>2. Taken' = Taken /\ Ended' = Ended /\ Confirmed' = Confirmed
    BY <2>1 DEF QueueIdle, Taken, Ended, Confirmed, Waiting
  <2>3. phase \in PastDrain /\ phase' \in PastDrain
    BY <1>6 DEF SaveIndex, PastDrain
  <2>4. listed = {} /\ listed' \in {listed, loaded \cup Confirmed}
    BY <1>6 DEF SaveIndex, Quiet, BeforeIndex, IndexRecords
  <2>5. CASE listed' = listed
    BY <2>1, <2>2, <2>3, <2>5, UnseenStutters DEF Unseen
  <2>6. CASE listed' = loaded \cup Confirmed
    <3>1. D!Publish
      BY <2>1, <2>2, <2>3, <2>4, <2>6 DEF D!Publish, Taken, Ended
    <3> QED
      BY <3>1 DEF D!DrainNext
  <2> QED
    BY <2>4, <2>5, <2>6
<1>7. ASSUME \/ LoadPack \/ Shutdown \/ IndexPut \/ SavePack \/ Encode \/ PackPut
             \/ \E k \in Keys : ReadPack(k) \/ StopRemoves(k)
             \/ \E k \in Listable : ServiceMoves(k) \/ OtherManifest(k)
             \/ Exited \/ UNCHANGED vars
      PROVE  [D!DrainNext]_(D!drainVars)
  <2>1. QueueIdle
    BY <1>7, OutsideQueue DEF Flush
  <2>2. UNCHANGED <<loaded, listed>> /\ (phase \in PastDrain <=> phase' \in PastDrain)
    BY <1>7 DEF LoadPack, Shutdown, IndexPut, SavePack, Encode, PackPut, ReadPack,
                StopRemoves, ServiceMoves, OtherManifest, Exited, vars, flushVars, PastDrain
  <2> QED
    BY <2>1, <2>2, UnseenStep, UnseenStutters
<1> QED
  BY <1>1, <1>2, <1>3, <1>4, <1>5, <1>6, <1>7 DEF Next, Flush

\* With a cache service, the store keeps the promise of module Drain: a key
\* is accepted once, every accepted upload settles before the queue counts as
\* drained, and the manifest is what was read plus what was confirmed.
THEOREM Refinement == ASSUME HaveGha PROVE Spec => ImplementsDrain
<1>1. IInv /\ IInv' /\ [Next]_vars => [D!DrainNext]_(D!drainVars)
  BY RefinesNext
<1> QED
  BY <1>1, Invariance, RefinesInit, PTL DEF Spec, ImplementsDrain, D!DrainSpec
=============================================================================
