------------------------------ MODULE StoreInv ------------------------------
(***************************************************************************)
(* The inductive invariant behind the theorems of StoreProofs.             *)
(***************************************************************************)
EXTENDS Store

Loading == {"load_index", "load_pack"}
BeforeIndex == Loading \cup {"serving", "drain", "save_index"}

\* A claimed key has one owner: the request that is putting it, the channel
\* or an upload call.
Claims ==
    /\ \A r \in Requests :
           pc[r] \in Putting =>
               req[r] \in queued /\ req[r] \notin Waiting /\ call[req[r]] = "none"
    /\ \A r, s \in Requests :
           pc[r] \in Putting /\ pc[s] \in Putting /\ req[r] = req[s] => r = s
    /\ Waiting \subseteq queued
    /\ \A k \in Keys : call[k] # "none" => k \in queued

\* Nothing moves before the listener serves.
Quiet ==
    /\ phase \in Loading =>
           queued = {} /\ ~index_dirty /\ \A r \in Requests : pc[r] = "idle"
    /\ phase = "load_index" => index = {} /\ loaded = {}
    /\ phase \in BeforeIndex =>
           listed = {} /\ call["index"] = "none" /\ service["index"] = "absent"

\* What the set `index` records, and when the dirty flag may be down.
IndexRecords ==
    /\ index = loaded \cup Confirmed
    /\ ~index_dirty => index \subseteq loaded
    /\ phase \notin BeforeIndex =>
           IF call["index"] = "none" THEN HaveGha => ~index_dirty
                                     ELSE listed = index

\* A listed key is backed by the service as long as the client has not been
\* rate limited, and a rate limited client does not start filing a manifest.
Backing ==
    /\ \A k \in index : k \in loaded \/ k \in reserved \/ exhausted
    /\ \A k \in Keys : call[k] \in {"blob", "finalize"} => k \in reserved
    /\ call["index"] \in {"create", "blob", "finalize"} \/ service["index"] = "fresh"
           => listed \subseteq loaded \cup reserved

IInv ==
    /\ Typed /\ Claims /\ UploadedOnce /\ ClaimNotLost /\ PermitsConserved
    /\ FlushDrains /\ Quiet /\ IndexRecords /\ Backing

-----------------------------------------------------------------------------
(***************************************************************************)
(* What TeardownProofs adds to it, about the pack and the counters.        *)
(***************************************************************************)

\* Until flush() ends the pack in the scope is the one of an earlier job.
OldPack ==
    phase # "done" => \A k \in Keys : pack[k] \in {"absent", "remote", "broken"}

\* Keys whose file may be trusted: the disk has not failed on it, nobody has
\* removed it, it did not come damaged in the pack, and the manifest did not
\* list it, so that get() has nothing to download for it.
Trusted == {k \in Keys \ (damaged \cup loaded) : pack[k] # "broken"}

\* get() only downloads what the index lists, and a packed object whose file
\* may be trusted is not on its way to the index.
Downloads ==
    phase # "done" =>
        /\ \A r \in Requests :
               pc[r] \in {"rpc", "open_back", "write_back"} => req[r] \in index
        /\ \A k \in packed \cap Trusted :
               /\ k \notin Waiting /\ call[k] = "none"
               /\ \A r \in Requests : pc[r] = "send" => req[r] # k

\* The file of a packed object is intact, because whoever may still write it has
\* not packed it yet: a request only gets to put() an object that is packed if
\* somebody claimed it first.
PackedFiles ==
    phase # "done" =>
        /\ \A k \in packed \cap Trusted : Decodes(file[k])
        /\ \A r \in Requests : req[r] \in Trusted =>
               /\ pc[r] \in {"lookup", "fetch"} => req[r] \in queued \/ req[r] \notin packed
               /\ pc[r] \in {"open_put", "write_put", "enqueue"} => req[r] \notin packed
               /\ pc[r] = "write_put" => file[req[r]] = "empty"
               /\ pc[r] = "enqueue" => Decodes(file[req[r]])

\* What save_pack() has read, and what it has encoded.
PackedBodies ==
    phase # "done" =>
        /\ packTodo \subseteq packed
        /\ phase \in Loading => packTodo = {}
        /\ \A k \in Keys :
               \/ objects[k] = "absent" \/ Decodes(objects[k])
               \/ k \in damaged \cup loaded \/ pack[k] = "broken"
        /\ phase = "pack_put" => encoded \subseteq InPack

\* What is counted as uploaded became readable, and what is counted as packed
\* was not answered with an error.
Reports ==
    /\ \A e \in Entries : call[e] = "true" => e \in finalized
    /\ entries_stored > 0 => finalized \cap Keys # {}
    /\ packed_count > 0 => phase = "done" /\ call["pack"] \in PutOk

\* Without a service nothing is asked of it.
NoService ==
    ~HaveGha =>
        /\ ~exhausted
        /\ \A k \in Entries : call[k] = "none"
        /\ \A r \in Requests : pc[r] # "rpc"
        /\ phase \notin {"index_put", "read_pack", "pack_put"}

TeardownInv ==
    /\ IInv /\ OldPack /\ Downloads /\ PackedFiles /\ PackedBodies /\ Reports
    /\ NoService
=============================================================================
