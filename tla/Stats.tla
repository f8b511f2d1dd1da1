------------------------------- MODULE Stats -------------------------------
(***************************************************************************)
(* The counters of src/stats.rs.  They are independent atomics, updated    *)
(* and loaded with relaxed ordering: a thread may see the updates of one   *)
(* record() in any order, and summary() may load them in any order, so     *)
(* each update and each load is a step of its own.                         *)
(*                                                                         *)
(* Byte counts and times are left out: they are added in the same way.     *)
(* Upload counters are each written by a single statement of store.rs.     *)
(***************************************************************************)
EXTENDS Integers, FiniteSets

CONSTANTS
    Tasks,         \* tasks of the proxy that record outcomes
    MaxRecords,    \* bound on the calls of record()
    MaxSummaries   \* bound on the calls of summary()

ASSUME StatsAssumption ==
    IsFiniteSet(Tasks) /\ MaxRecords \in Nat /\ MaxSummaries \in Nat

VARIABLES
    todo,          \* for each task, the counters its record() has still to bump
    counts,        \* the counters
    loaded,        \* the counters the last summary() has loaded
    summary,       \* what it has loaded
    summaries,     \* summaries begun
    before,        \* history: records complete when the last summary began
    begun,         \* history: records begun
    done           \* history: records complete

vars == <<todo, counts, loaded, summary, summaries, before, begun, done>>

Counters == {"requests", "hits", "misses", "stored", "passthrough", "errors"}
Zero == [x \in Counters |-> 0]

Init ==
    /\ todo = [t \in Tasks |-> {}]
    /\ counts = Zero
    /\ loaded = Counters /\ summary = Zero /\ summaries = 0
    /\ before = 0 /\ begun = 0 /\ done = 0

-----------------------------------------------------------------------------
Outcomes == {"hit", "stored", "miss", "pass", "error"}

\* Mutant of Bumps: a response that is stored is not counted as a miss.
BumpsStoredOnly(outcome) ==
    CASE outcome = "hit" -> {"requests", "hits"}
      [] outcome = "stored" -> {"requests", "stored"}
      [] outcome = "miss" -> {"requests", "misses"}
      [] outcome = "pass" -> {"requests", "passthrough"}
      [] outcome = "error" -> {"requests", "errors"}

\* What record() adds to for each outcome.
Bumps(outcome) ==
    CASE outcome = "hit" -> {"requests", "hits"}
      [] outcome = "stored" -> {"requests", "misses", "stored"}
      [] outcome = "miss" -> {"requests", "misses"}
      [] outcome = "pass" -> {"requests", "passthrough"}
      [] outcome = "error" -> {"requests", "errors"}

Record(t, outcome) ==
    /\ begun < MaxRecords
    /\ todo[t] = {}
    /\ todo' = [todo EXCEPT ![t] = Bumps(outcome)]
    /\ begun' = begun + 1
    /\ UNCHANGED <<counts, loaded, summary, summaries, before, done>>

\* fetch_add
Bump(t, x) ==
    /\ x \in todo[t]
    /\ counts' = [counts EXCEPT ![x] = @ + 1]
    /\ todo' = [todo EXCEPT ![t] = @ \ {x}]
    /\ done' = IF todo[t] = {x} THEN done + 1 ELSE done
    /\ UNCHANGED <<loaded, summary, summaries, before, begun>>

\* summary(), called by the control endpoint and at the end of run().
Summarise ==
    /\ summaries < MaxSummaries
    /\ loaded = Counters
    /\ summaries' = summaries + 1
    /\ loaded' = {}
    /\ before' = done
    /\ UNCHANGED <<todo, counts, summary, begun, done>>

\* Mutant of Load: the misses are loaded from the wrong counter.
LoadSwapped(x) ==
    /\ x \notin loaded
    /\ loaded' = loaded \cup {x}
    /\ summary' = [summary EXCEPT ![x] = counts[IF x = "misses" THEN "stored" ELSE x]]
    /\ UNCHANGED <<todo, counts, summaries, before, begun, done>>

Load(x) ==
    /\ x \notin loaded
    /\ loaded' = loaded \cup {x}
    /\ summary' = [summary EXCEPT ![x] = counts[x]]
    /\ UNCHANGED <<todo, counts, summaries, before, begun, done>>

Finished ==
    /\ begun = MaxRecords /\ \A t \in Tasks : todo[t] = {}
    /\ summaries = MaxSummaries /\ loaded = Counters
    /\ UNCHANGED vars

Next ==
    \/ \E t \in Tasks : \/ \E outcome \in Outcomes : Record(t, outcome)
                        \/ \E x \in Counters : Bump(t, x)
    \/ Summarise
    \/ \E x \in Counters : Load(x)
    \/ Finished

Spec == Init /\ [][Next]_vars

-----------------------------------------------------------------------------
(***************************************************************************)
(* Properties.                                                             *)
(***************************************************************************)

Total(n) == n["hits"] + n["misses"] + n["passthrough"] + n["errors"]

\* Each request recorded is counted once and under one outcome, whatever the
\* interleaving of the tasks' updates; only the updates still to come are missing
\* (Stats::record).
CountersAgree ==
    /\ counts["requests"] = begun - Cardinality({t \in Tasks : "requests" \in todo[t]})
    /\ Total(counts) =
           begun - Cardinality({t \in Tasks : todo[t] \ {"requests", "stored"} # {}})

\* A summary is not a snapshot.  Still every record that was complete when it
\* began is in it, both as a request and under an outcome, and none is in it
\* twice: its request count and its outcomes differ by no more than the records
\* that overlap it (Stats::summary).
SummaryAccounts ==
    loaded = Counters =>
        /\ before <= summary["requests"] /\ summary["requests"] <= begun
        /\ before <= Total(summary) /\ Total(summary) <= begun
=============================================================================
