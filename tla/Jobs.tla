-------------------------------- MODULE Jobs --------------------------------
(***************************************************************************)
(* Many jobs over time, sharing one cache service: what each job reads at  *)
(* its start and files at its end, src/gha.rs get_scoped and put_scoped as *)
(* src/store.rs uses them.  What one daemon does in between is module      *)
(* Store; here it is one step, the order in which a job learns of keys     *)
(* being nothing that another job can see.                                 *)
(*                                                                         *)
(* A job files two documents: the manifest ("index"), a list of keys the   *)
(* service holds, and the pack, the small objects themselves.  Documents   *)
(* are immutable; the newest whose key starts with the scope's prefix      *)
(* counts.                                                                 *)
(***************************************************************************)
EXTENDS Naturals, Sequences, FiniteSets

CONSTANTS
    JobIds,        \* the jobs, each one start of the daemon
    Scope,         \* scope() of each job, as the sequence of its dashed parts
    Large,         \* keys of objects that may get an entry of their own
    Small,         \* keys of objects that may ride in the pack
    Fetches,       \* the objects each job's build asks for
    PackLimit,     \* how many of them pack_limit leaves room for
    MaxActive      \* bound on the jobs that run at the same time

Kinds == {"index", "pack"}

ASSUME JobsAssumption ==
    /\ \A j \in JobIds : Scope[j] \in Seq(STRING)
    /\ PackLimit \in Nat /\ MaxActive \in Nat
    /\ \A j \in JobIds : Fetches[j] \subseteq Large \cup Small

VARIABLES
    held,          \* keys the service has, or has reserved, an entry for
    filed,         \* the documents, in the order they were filed
    phase,         \* of each job
    exhausted,     \* jobs whose client met a 429
    known,         \* Store.index and Store.packed of each job
    dirty,         \* Store.index_dirty and Store.pack_dirty of each job
    since,         \* history: how many documents there were when the job read
    missed         \* history: documents the job did not get to read

vars == <<held, filed, phase, exhausted, known, dirty, since, missed>>

Phases == {"start", "index read", "ready", "worked", "index filed", "saved", "done"}

Init ==
    /\ held = {} /\ filed = <<>> /\ exhausted = {}
    /\ phase = [j \in JobIds |-> "start"]
    /\ known = [j \in JobIds |-> [kind \in Kinds |-> {}]]
    /\ dirty = [j \in JobIds |-> {}]
    /\ since = [j \in JobIds |-> [kind \in Kinds |-> 0]]
    /\ missed = [j \in JobIds |-> {}]

-----------------------------------------------------------------------------
\* Mutant of Matches: the kind is not part of the prefix.
MatchesAnyKind(d, scope, kind) ==
    /\ Len(scope) <= Len(d.scope)
    /\ \A n \in 1 .. Len(scope) : scope[n] = d.scope[n]

\* A lookup by scoped_prefix finds a document.  Every part of a scope is
\* followed by a dash, so parts compare whole, but a scope of more parts
\* matches too.
Matches(d, scope, kind) ==
    /\ d.kind = kind
    /\ Len(scope) <= Len(d.scope)
    /\ \A n \in 1 .. Len(scope) : scope[n] = d.scope[n]

\* get_scoped answers with the newest match, if there is one.
Newest(n, scope, kind) ==
    /\ n \in DOMAIN filed
    /\ Matches(filed[n], scope, kind)
    /\ \A o \in DOMAIN filed : Matches(filed[o], scope, kind) => o <= n

Nothing(scope, kind) == ~\E n \in DOMAIN filed : Matches(filed[n], scope, kind)

\* Jobs under way.
Active == {j \in JobIds : phase[j] \notin {"start", "done"}}

\* load_index, then load_pack.  A call that fails, or that an exhausted
\* client does not make, leaves the set empty; a 429 exhausts the client.
Load(j, kind) ==
    /\ phase[j] = IF kind = "index" THEN "start" ELSE "index read"
    /\ kind = "index" => Cardinality(Active) < MaxActive
    /\ phase' = [phase EXCEPT ![j] = IF kind = "index" THEN "index read" ELSE "ready"]
    /\ \/ /\ j \notin exhausted
          /\ \E n \in DOMAIN filed :
                 /\ Newest(n, Scope[j], kind)
                 /\ known' = [known EXCEPT ![j][kind] = filed[n].objects]
          /\ UNCHANGED missed
       \/ /\ j \notin exhausted
          /\ Nothing(Scope[j], kind)
          /\ UNCHANGED <<known, missed>>
       \/ missed' = [missed EXCEPT ![j] = @ \cup {kind}] /\ UNCHANGED known
    /\ since' = [since EXCEPT ![j][kind] = Len(filed)]
    /\ exhausted' \in {exhausted, IF kind \in missed'[j] THEN exhausted \cup {j} ELSE exhausted}
    /\ UNCHANGED <<held, filed, dirty>>

\* The job does its work: uploads end with Ok, which means that the key has an
\* entry, by this job or another one, and small objects join the pack.  Once a
\* 429 has latched the client, it answers Ok(false) without asking.
Work(j) ==
    /\ phase[j] = "ready"
    /\ phase' = [phase EXCEPT ![j] = "worked"]
    /\ \E confirmed \in SUBSET (Large \cap Fetches[j]), assumed \in SUBSET (Large \cap Fetches[j]),
          small \in SUBSET (Small \cap Fetches[j]) :
           /\ \/ assumed # {} /\ exhausted' = exhausted \cup {j}
              \/ assumed = {} /\ UNCHANGED exhausted
           /\ j \in exhausted => confirmed = {}
           /\ held' = held \cup confirmed
           /\ known' = [known EXCEPT ![j] = [kind \in Kinds |->
                  @[kind] \cup (IF kind = "index" THEN confirmed \cup assumed ELSE small)]]
           /\ dirty' = [dirty EXCEPT ![j] =
                            {kind \in Kinds : known'[j][kind] # known[j][kind]}]
    /\ UNCHANGED <<filed, since, missed>>

-----------------------------------------------------------------------------
\* Mutant of Contents: the job files what it learned itself.
ContentsReplace(j, kind, objects) ==
    objects = known[j][kind] \ UNION {filed[n].objects : n \in 1 .. since[j][kind]}

\* What a document may contain: the whole manifest, or the part of the pack
\* below the ceiling, which is everything when everything fits.
Contents(j, kind, objects) ==
    /\ objects \subseteq known[j][kind]
    /\ \/ objects = known[j][kind] /\ (kind = "pack" => Cardinality(objects) <= PackLimit)
       \/ kind = "pack" /\ Cardinality(objects) = PackLimit

\* put_scoped, with what the job had read when it started.
Document(j, kind, objects) ==
    [kind |-> kind, scope |-> Scope[j], objects |-> objects,
     read |-> since[j][kind], blind |-> kind \in missed[j]]

\* Mutant of CanFile: the manifest is sent although the client is exhausted.
CanFileAnyway(j, kind) == kind \in dirty[j]

CanFile(j, kind) == kind \in dirty[j] /\ j \notin exhausted

\* save_index, then save_pack: a document that gained something is filed
\* unless the call fails, is not made, or is declined, which happens to the
\* second of two jobs of a scope and a run that file in the same second.
File(j, kind) ==
    /\ phase[j] = IF kind = "index" THEN "worked" ELSE "index filed"
    /\ phase' = [phase EXCEPT ![j] = IF kind = "index" THEN "index filed" ELSE "saved"]
    /\ \/ /\ CanFile(j, kind)
          /\ \E objects \in SUBSET known[j][kind] :
                 /\ Contents(j, kind, objects)
                 /\ filed' = Append(filed, Document(j, kind, objects))
       \/ UNCHANGED filed
    /\ UNCHANGED <<held, exhausted, known, dirty, since, missed>>

\* The process ends, and its memory with it.
Exit(j) ==
    /\ phase[j] = "saved"
    /\ phase' = [phase EXCEPT ![j] = "done"]
    /\ exhausted' = exhausted \ {j}
    /\ known' = [known EXCEPT ![j] = [kind \in Kinds |-> {}]]
    /\ dirty' = [dirty EXCEPT ![j] = {}]
    /\ since' = [since EXCEPT ![j] = [kind \in Kinds |-> 0]]
    /\ missed' = [missed EXCEPT ![j] = {}]
    /\ UNCHANGED <<held, filed>>

Finished == (\A j \in JobIds : phase[j] = "done") /\ UNCHANGED vars

Job(j) ==
    \/ \E kind \in Kinds : Load(j, kind) \/ File(j, kind)
    \/ Work(j) \/ Exit(j)

Next == (\E j \in JobIds : Job(j)) \/ Finished

Spec == Init /\ [][Next]_vars

-----------------------------------------------------------------------------
(***************************************************************************)
(* Properties.                                                             *)
(***************************************************************************)

Of(kind) == IF kind = "index" THEN Large ELSE Small

Documents ==
    [kind : Kinds, scope : Seq(STRING), objects : SUBSET (Large \cup Small),
     read : Nat, blind : BOOLEAN]

\* Every variable keeps its type.  Documents of one kind are never taken for
\* the other, in whichever job of whichever scope.
TypeOK ==
    /\ held \subseteq Large
    /\ filed \in Seq(Documents)
    /\ phase \in [JobIds -> Phases]
    /\ exhausted \subseteq JobIds
    /\ known \in [JobIds -> [Kinds -> SUBSET (Large \cup Small)]]
    /\ dirty \in [JobIds -> SUBSET Kinds]
    /\ since \in [JobIds -> [Kinds -> Nat]]
    /\ missed \in [JobIds -> SUBSET Kinds]
    /\ \A j \in JobIds, kind \in Kinds : known[j][kind] \subseteq Of(kind)
    /\ \A n \in DOMAIN filed : filed[n].objects \subseteq Of(filed[n].kind)

\* "Keys the service is known to hold" (store.rs, Store.index): through any
\* number of jobs, rate limits and scopes that match each other's documents,
\* no manifest lists a key that was never stored or reserved.
ListedIsHeld ==
    \A n \in DOMAIN filed : filed[n].kind = "index" => filed[n].objects \subseteq held

\* Document o was filed under another scope, and a job of scope s finds it.
Foreign(o, s, kind) == filed[o].scope # s /\ Matches(filed[o], s, kind)

\* A job hands on what it read: a document keeps what the one before it in its
\* scope listed (save_index, save_pack).  This is about jobs that run one after the
\* other: nothing is said when the earlier document was filed after the job had
\* read, when the job could not read, when what it read was another scope's, and
\* when the pack is full.
EntriesKept ==
    \A n \in DOMAIN filed : \A m \in 1 .. n - 1 :
        LET d == filed[n]
            p == filed[m]
        IN  \/ p.scope # d.scope \/ p.kind # d.kind
            \/ \E o \in m + 1 .. n - 1 : filed[o].scope = d.scope /\ filed[o].kind = d.kind
            \/ p.objects \subseteq d.objects
            \/ m > d.read
            \/ d.blind
            \/ \E o \in m + 1 .. d.read : Foreign(o, d.scope, d.kind)
            \/ d.kind = "pack" /\ Cardinality(d.objects) = PackLimit

-----------------------------------------------------------------------------
(***************************************************************************)
(* A claim that the code does not keep.                                    *)
(***************************************************************************)

\* README.md: "a job writes back what it read plus what it confirmed storing, so
\* concurrent jobs do not drop each other's entries".  A manifest lists what the
\* one before it in its scope listed, if its job could read and read its own
\* scope's.
ConcurrentKept ==
    \A n \in DOMAIN filed : \A m \in 1 .. n - 1 :
        LET d == filed[n]
            p == filed[m]
        IN  (/\ p.scope = d.scope /\ p.kind = "index" /\ d.kind = "index"
             /\ ~d.blind
             /\ ~\E o \in 1 .. d.read : Foreign(o, d.scope, d.kind))
            => p.objects \subseteq d.objects
=============================================================================
