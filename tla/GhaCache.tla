------------------------------ MODULE GhaCache ------------------------------
(***************************************************************************)
(* The cache-service client of src/gha.rs and, as far as the client can    *)
(* tell, the GitHub Actions cache service behind it.                       *)
(*                                                                         *)
(* The service is external: what it may answer is modelled from how        *)
(* gha.rs reads its answers.  An entry is first reserved                   *)
(* (CreateCacheEntry), its blob is uploaded, and it becomes readable only  *)
(* when FinalizeCacheEntryUpload succeeds.  GhaCache::put is therefore a   *)
(* call of three awaits, and everything else may happen between them.      *)
(***************************************************************************)
EXTENDS Naturals

CONSTANT Keys      \* digests of cacheable URLs, Policy::key

\* The manifest and the pack of this run are filed under keys of their own
\* (put_scoped stamps them with the time and the run id).
Scoped == {"index", "pack"}
Entries == Keys \cup Scoped

ASSUME ScopedAssumption == Keys \cap Scoped = {}

VARIABLES
    service,       \* the service's entry for each key
    exhausted,     \* GhaCache.exhausted: the service answered 429 once
    call,          \* progress of this job's put() call for each key
    reserved,      \* history: the keys the service has held or reserved
    finalized      \* history: the keys this job's uploads have made readable

histVars == <<reserved, finalized>>
ghaVars == <<service, exhausted, call, histVars>>

(***************************************************************************)
(* An entry is absent, reserved by this job ("ours") or by another one     *)
(* ("theirs"), or finalized, holding the bytes another job uploaded        *)
(* ("remote") or the ones this job did ("fresh").                          *)
(***************************************************************************)
Readable == {"remote", "fresh"}
EntryState == {"absent", "ours", "theirs"} \cup Readable

\* The answers of put(): Ok(true), Ok(false) and Err.
PutOk == {"true", "false"}
PutResult == PutOk \cup {"err"}
PutInFlight == {"spawned", "create", "blob", "finalize"}
PutStage == {"none"} \cup PutInFlight \cup PutResult

InFlight(k) == call[k] \in PutInFlight

GhaTypeOK ==
    /\ service \in [Entries -> EntryState]
    /\ exhausted \in BOOLEAN
    /\ call \in [Entries -> PutStage]
    /\ reserved \subseteq Entries /\ finalized \subseteq Entries

GhaInit ==
    /\ service \in [Entries -> {"absent", "theirs", "remote"}]
    /\ exhausted = FALSE
    /\ call = [k \in Entries |-> "none"]
    /\ reserved = {k \in Entries : service[k] # "absent"}
    /\ finalized = {}

\* The service now holds or reserves k, or holds what this job uploaded.
Noted(k) ==
    /\ reserved' = IF service'[k] = "absent" THEN reserved ELSE reserved \cup {k}
    /\ finalized' = IF service'[k] = "fresh" THEN finalized \cup {k} ELSE finalized

-----------------------------------------------------------------------------
(***************************************************************************)
(* GhaCache::put.  `to` is the stage the call moves to; a member of        *)
(* PutResult is what the call returns.                                     *)
(***************************************************************************)

\* An exhausted client declines without calling the service.
PutBegin(k, to) ==
    /\ call[k] = "spawned"
    /\ to = IF exhausted THEN "false" ELSE "create"
    /\ UNCHANGED <<service, exhausted>>

\* rpc(): a 429 sets the flag for the rest of the job and is an error.
RateLimited(to) ==
    /\ exhausted' = TRUE
    /\ to = "err"
    /\ UNCHANGED service

\* rpc() or the blob PUT fails after the service did what it was asked to,
\* or without it: the entry keeps its state or takes the one in `done`.
ReplyLost(k, done, to) ==
    /\ \E s \in {service[k], done} : service' = [service EXCEPT ![k] = s]
    /\ to = "err"
    /\ UNCHANGED exhausted

\* A refusal is taken to mean that the key is held: the service is assumed to
\* put "409" or "already_exists" in an error, or ok = false in an answer, for
\* no other reason.
CreateReply(k, to) ==
    /\ call[k] = "create"
    /\ \/ /\ service[k] = "absent"
          /\ service' = [service EXCEPT ![k] = "ours"]
          /\ to = "blob"
          /\ UNCHANGED exhausted
       \* is_already_exists, or ok = false: somebody holds the key already.
       \/ /\ service[k] # "absent"
          /\ to = "false"
          /\ UNCHANGED <<service, exhausted>>
       \/ RateLimited(to)
       \/ ReplyLost(k, IF service[k] = "absent" THEN "ours" ELSE service[k], to)

BlobReply(k, to) ==
    /\ call[k] = "blob"
    /\ to \in {"finalize", "err"}
    /\ UNCHANGED <<service, exhausted>>

\* The last answer is returned as it is: Ok(finalize.ok).
FinalizeReply(k, to) ==
    /\ call[k] = "finalize"
    /\ \/ /\ service' = [service EXCEPT ![k] = "fresh"]
          /\ to = "true"
          /\ UNCHANGED exhausted
       \/ /\ to = "false"
          /\ UNCHANGED <<service, exhausted>>
       \/ RateLimited(to)
       \/ ReplyLost(k, "fresh", to)

PutStep(k, to) ==
    /\ \/ PutBegin(k, to)
       \/ CreateReply(k, to)
       \/ BlobReply(k, to)
       \/ FinalizeReply(k, to)
    /\ call' = [call EXCEPT ![k] = to]
    /\ Noted(k)

-----------------------------------------------------------------------------
(***************************************************************************)
(* What other jobs and the service itself do to an object's entry: another *)
(* job reserves it and finalizes it, a reservation nobody is working on    *)
(* lapses, and a finalized entry is evicted.                               *)
(***************************************************************************)
ServiceStep(k) ==
    /\ \/ /\ service[k] = "absent"
          /\ service' = [service EXCEPT ![k] = "theirs"]
       \/ /\ service[k] = "theirs"
          /\ service' = [service EXCEPT ![k] = "remote"]
       \/ /\ \/ service[k] = "theirs"
             \/ service[k] = "ours" /\ ~InFlight(k)
             \/ service[k] \in Readable
          /\ service' = [service EXCEPT ![k] = "absent"]
    /\ Noted(k)
    /\ UNCHANGED <<exhausted, call>>
=============================================================================
