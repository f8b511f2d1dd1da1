---------------------------- MODULE StatsProofs ----------------------------
(***************************************************************************)
(* Stats keeps its counters consistent for any number of tasks, records    *)
(* and summaries.                                                          *)
(***************************************************************************)
EXTENDS Stats, FiniteSetTheorems, TLAPS

Results == {"hits", "misses", "passthrough", "errors"}

\* Tasks with a request, an outcome or anything at all left to count.
Pending == {t \in Tasks : "requests" \in todo[t]}
Unsorted == {t \in Tasks : todo[t] \ {"requests", "stored"} # {}}
Busy == {t \in Tasks : todo[t] # {}}

Typed ==
    /\ todo \in [Tasks -> SUBSET Counters]
    /\ counts \in [Counters -> Nat]
    /\ loaded \subseteq Counters
    /\ summary \in [Counters -> Nat]
    /\ summaries \in Nat /\ before \in Nat /\ begun \in Nat /\ done \in Nat

\* A record counts under one outcome only.
OneResult ==
    \A t \in Tasks : \A x, y \in Results : x \in todo[t] /\ y \in todo[t] => x = y

Progress == done = begun - Cardinality(Busy)

\* There is a point, the beginning of the summary, such that every counter was
\* loaded after it and had counted what was complete then.
Since(f) ==
    /\ before <= f["requests"] /\ before <= Total(f)
    /\ \A x \in Counters : f[x] <= counts[x]
    /\ \A x \in loaded : f[x] <= summary[x] /\ summary[x] <= counts[x]

Snapshot == \E f \in [Counters -> Nat] : Since(f)

Inv == Typed /\ OneResult /\ Progress /\ CountersAgree /\ Snapshot

-----------------------------------------------------------------------------
(***************************************************************************)
(* Lemmas.                                                                 *)
(***************************************************************************)

\* How the size of a set changes with one element.
LEMMA OneMoreOrLess ==
    ASSUME NEW S, NEW t, IsFiniteSet(S)
    PROVE  /\ Cardinality(S) \in Nat
           /\ t \notin S => Cardinality(S \cup {t}) = Cardinality(S) + 1
           /\ t \in S => Cardinality(S \ {t}) = Cardinality(S) - 1
  BY FS_CardinalityType, FS_AddElement, FS_RemoveElement

\* The sets of tasks are finite, and a task that has something particular to
\* count has something to count.
LEMMA TaskSets ==
    ASSUME Typed
    PROVE  /\ IsFiniteSet(Pending) /\ IsFiniteSet(Unsorted) /\ IsFiniteSet(Busy)
           /\ Cardinality(Pending) <= Cardinality(Busy)
           /\ Cardinality(Unsorted) <= Cardinality(Busy)
  <1>1. Pending \subseteq Busy /\ Unsorted \subseteq Busy /\ Busy \subseteq Tasks
    BY DEF Pending, Unsorted, Busy
  <1>2. IsFiniteSet(Busy)
    BY <1>1, FS_Subset, StatsAssumption
  <1> QED
    BY <1>1, <1>2, FS_Subset

\* CountersAgree in terms of the sets above.
LEMMA Agreement ==
    CountersAgree <=>
        /\ counts["requests"] = begun - Cardinality(Pending)
        /\ Total(counts) = begun - Cardinality(Unsorted)
  BY DEF CountersAgree, Pending, Unsorted

\* What each outcome adds to: the request, one result, and nothing else but
\* perhaps "stored".
LEMMA BumpsShape ==
    ASSUME NEW outcome \in Outcomes
    PROVE  /\ Bumps(outcome) \subseteq Counters
           /\ "requests" \in Bumps(outcome)
           /\ Bumps(outcome) \ {"requests", "stored"} # {}
           /\ \A x, y \in Results : x \in Bumps(outcome) /\ y \in Bumps(outcome) => x = y
  <1>1. CASE outcome = "hit"    BY <1>1 DEF Bumps, Counters, Results
  <1>2. CASE outcome = "stored" BY <1>2 DEF Bumps, Counters, Results
  <1>3. CASE outcome = "miss"   BY <1>3 DEF Bumps, Counters, Results
  <1>4. CASE outcome = "pass"   BY <1>4 DEF Bumps, Counters, Results
  <1>5. CASE outcome = "error"  BY <1>5 DEF Bumps, Counters, Results
  <1> QED
    BY <1>1, <1>2, <1>3, <1>4, <1>5 DEF Outcomes

-----------------------------------------------------------------------------
(***************************************************************************)
(* The invariant holds initially and is kept by every step.                *)
(***************************************************************************)

LEMMA InitInv == Init => Inv
  <1> SUFFICES ASSUME Init PROVE Inv
    OBVIOUS
  <1>1. Typed /\ OneResult
    BY DEF Init, Zero, Typed, OneResult
  <1>2. Pending = {} /\ Unsorted = {} /\ Busy = {}
    BY DEF Init, Pending, Unsorted, Busy
  <1>3. Total(counts) = 0 /\ counts["requests"] = 0
    BY DEF Init, Zero, Total, Counters
  <1>4. CountersAgree /\ Progress
    BY <1>2, <1>3, Agreement, FS_EmptySet DEF Init, Progress
  <1>5. Since(Zero) /\ Zero \in [Counters -> Nat]
    BY DEF Since, Init, Zero, Total, Counters
  <1> QED
    BY <1>1, <1>4, <1>5 DEF Inv, Snapshot

LEMMA RecordInv ==
    ASSUME Inv, NEW t \in Tasks, NEW outcome \in Outcomes, Record(t, outcome)
    PROVE  Inv'
  <1> USE DEF Inv, Record
  <1>1. todo' \in [Tasks -> SUBSET Counters] /\ Typed'
    BY BumpsShape DEF Typed
  <1>2. OneResult'
    BY BumpsShape DEF OneResult, Typed
  <1>3. /\ t \notin Pending /\ Pending' = Pending \cup {t}
        /\ t \notin Unsorted /\ Unsorted' = Unsorted \cup {t}
        /\ t \notin Busy /\ Busy' = Busy \cup {t}
    <2>1. todo'[t] = Bumps(outcome) /\ \A u \in Tasks : u # t => todo'[u] = todo[u]
      BY DEF Typed
    <2> QED
      BY <2>1, BumpsShape DEF Pending, Unsorted, Busy
  <1>4. /\ Cardinality(Pending') = Cardinality(Pending) + 1
        /\ Cardinality(Unsorted') = Cardinality(Unsorted) + 1
        /\ Cardinality(Busy') = Cardinality(Busy) + 1
    BY <1>3, TaskSets, OneMoreOrLess
  <1>5. Cardinality(Pending) \in Nat /\ Cardinality(Unsorted) \in Nat /\ Cardinality(Busy) \in Nat
    BY TaskSets, OneMoreOrLess
  <1>6. Progress'
    BY <1>4, <1>5 DEF Progress, Typed
  <1>7. CountersAgree'
    <2>1. /\ counts'["requests"] = begun' - Cardinality(Pending')
          /\ Total(counts') = begun' - Cardinality(Unsorted')
      BY <1>4, <1>5, Agreement DEF Typed
    <2> QED
      BY <2>1 DEF CountersAgree, Pending, Unsorted
  <1>8. Snapshot'
    <2>1. PICK f \in [Counters -> Nat] : Since(f)
      BY DEF Snapshot
    <2>2. Since(f)'
      BY <2>1 DEF Since
    <2> QED
      BY <2>2 DEF Snapshot
  <1> QED
    BY <1>1, <1>2, <1>6, <1>7, <1>8

LEMMA BumpInv ==
    ASSUME Inv, NEW t \in Tasks, NEW x \in Counters, Bump(t, x)
    PROVE  Inv'
  <1> USE DEF Inv, Bump
  <1>1. Typed'
    BY DEF Typed
  <1>2. /\ x \in todo[t] /\ todo'[t] = todo[t] \ {x}
        /\ \A u \in Tasks : u # t => todo'[u] = todo[u]
        /\ counts'[x] = counts[x] + 1
        /\ \A y \in Counters : y # x => counts'[y] = counts[y]
    BY DEF Typed
  <1>3. OneResult'
    BY <1>2 DEF OneResult, Typed
  <1>4. Cardinality(Pending) \in Nat /\ Cardinality(Unsorted) \in Nat /\ Cardinality(Busy) \in Nat
    BY TaskSets, OneMoreOrLess
  <1>5. Progress'
    <2>1. CASE todo[t] = {x}
      <3>1. t \in Busy /\ Busy' = Busy \ {t}
        BY <1>2, <2>1 DEF Busy
      <3> QED
        BY <1>4, <2>1, <3>1, TaskSets, OneMoreOrLess DEF Progress, Typed
    <2>2. CASE todo[t] # {x}
      <3>1. Busy' = Busy
        BY <1>2, <2>2 DEF Busy
      <3> QED
        BY <2>2, <3>1 DEF Progress
    <2> QED
      BY <2>1, <2>2
  <1>6. CountersAgree'
    <2>1. CASE x = "requests"
      <3>1. t \in Pending /\ Pending' = Pending \ {t} /\ Unsorted' = Unsorted
        BY <1>2, <2>1 DEF Pending, Unsorted
      <3>2. Cardinality(Pending') = Cardinality(Pending) - 1
        BY <3>1, TaskSets, OneMoreOrLess
      <3>3. Total(counts') = Total(counts) /\ counts'["requests"] = counts["requests"] + 1
        BY <1>2, <2>1 DEF Total, Counters
      <3>4. /\ counts'["requests"] = begun' - Cardinality(Pending')
            /\ Total(counts') = begun' - Cardinality(Unsorted')
        BY <1>4, <3>1, <3>2, <3>3, Agreement DEF Typed
      <3> QED
        BY <3>4 DEF CountersAgree, Pending, Unsorted
    <2>2. CASE x = "stored"
      <3>1. Pending' = Pending /\ Unsorted' = Unsorted
        BY <1>2, <2>2 DEF Pending, Unsorted
      <3>2. Total(counts') = Total(counts) /\ counts'["requests"] = counts["requests"]
        BY <1>2, <2>2 DEF Total, Counters
      <3>3. /\ counts'["requests"] = begun' - Cardinality(Pending')
            /\ Total(counts') = begun' - Cardinality(Unsorted')
        BY <3>1, <3>2, Agreement
      <3> QED
        BY <3>3 DEF CountersAgree, Pending, Unsorted
    <2>3. CASE x \in Results
      <3>1. x # "requests" /\ x # "stored"
        BY <2>3 DEF Results
      <3>2. \A y \in todo[t] : y # x => y \in {"requests", "stored"}
        BY <1>2, <2>3 DEF OneResult, Typed, Results, Counters
      <3>3. t \in Unsorted /\ Unsorted' = Unsorted \ {t} /\ Pending' = Pending
        BY <1>2, <3>1, <3>2 DEF Pending, Unsorted
      <3>4. Cardinality(Unsorted') = Cardinality(Unsorted) - 1
        BY <3>3, TaskSets, OneMoreOrLess
      <3>5. counts["hits"] \in Nat /\ counts["misses"] \in Nat
            /\ counts["passthrough"] \in Nat /\ counts["errors"] \in Nat
        BY DEF Typed, Counters
      <3>6. Total(counts') = Total(counts) + 1 /\ counts'["requests"] = counts["requests"]
        BY <1>2, <2>3, <3>1, <3>5 DEF Total, Counters, Results
      <3>7. /\ counts'["requests"] = begun' - Cardinality(Pending')
            /\ Total(counts') = begun' - Cardinality(Unsorted')
        BY <1>4, <3>3, <3>4, <3>6, Agreement DEF Typed
      <3> QED
        BY <3>7 DEF CountersAgree, Pending, Unsorted
    <2> QED
      BY <2>1, <2>2, <2>3 DEF Counters, Results
  <1>7. Snapshot'
    <2>1. PICK f \in [Counters -> Nat] : Since(f)
      BY DEF Snapshot
    <2>2. \A y \in Counters : counts[y] \in Nat /\ counts[y] <= counts'[y] /\ counts'[y] \in Nat
                              /\ f[y] \in Nat /\ summary[y] \in Nat
      <3> TAKE y \in Counters
      <3>1. counts[y] \in Nat /\ counts'[y] \in Nat /\ f[y] \in Nat /\ summary[y] \in Nat
        BY <1>1 DEF Typed
      <3>2. counts'[y] = counts[y] \/ counts'[y] = counts[y] + 1
        BY <1>2
      <3> QED
        BY <3>1, <3>2
    <2>3. Since(f)'
      BY <2>1, <2>2 DEF Since, Typed
    <2> QED
      BY <2>3 DEF Snapshot
  <1> QED
    BY <1>1, <1>3, <1>5, <1>6, <1>7

\* At the beginning of a summary the counters themselves are the point that
\* Snapshot asks for.
LEMMA SummariseInv ==
    ASSUME Inv, Summarise
    PROVE  Inv'
  <1> USE DEF Inv, Summarise
  <1>1. Typed' /\ OneResult'
    BY DEF Typed, OneResult
  <1>2. Progress' /\ CountersAgree'
    BY DEF Progress, Busy, CountersAgree
  <1>3. done <= counts["requests"] /\ done <= Total(counts)
    <2>1. Cardinality(Pending) \in Nat /\ Cardinality(Unsorted) \in Nat /\ Cardinality(Busy) \in Nat
      BY TaskSets, OneMoreOrLess
    <2> QED
      BY <2>1, TaskSets, Agreement DEF Progress, Typed
  <1>4. Since(counts)' /\ counts' \in [Counters -> Nat]
    BY <1>3 DEF Since, Typed
  <1>5. \E f \in [Counters -> Nat] : Since(f)'
    BY <1>4
  <1> QED
    BY <1>1, <1>2, <1>5 DEF Snapshot

LEMMA LoadInv ==
    ASSUME Inv, NEW x \in Counters, Load(x)
    PROVE  Inv'
  <1> USE DEF Inv, Load
  <1>1. Typed' /\ OneResult'
    BY DEF Typed, OneResult
  <1>2. Progress' /\ CountersAgree'
    BY DEF Progress, Busy, CountersAgree
  <1>3. Snapshot'
    <2>1. PICK f \in [Counters -> Nat] : Since(f)
      BY DEF Snapshot
    <2>2. Since(f)'
      BY <2>1 DEF Since, Typed
    <2> QED
      BY <2>2 DEF Snapshot
  <1> QED
    BY <1>1, <1>2, <1>3

LEMMA StepInv == Inv /\ [Next]_vars => Inv'
  <1> SUFFICES ASSUME Inv, [Next]_vars PROVE Inv'
    OBVIOUS
  <1>1. CASE UNCHANGED vars
    BY <1>1 DEF vars, Inv, Typed, OneResult, Progress, Busy, CountersAgree, Snapshot, Since
  <1> QED
    BY <1>1, RecordInv, BumpInv, SummariseInv, LoadInv DEF Next, Finished

-----------------------------------------------------------------------------
LEMMA Invariance == Spec => []Inv
  BY InitInv, StepInv, PTL DEF Spec

\* With any number of tasks updating the counters one by one, every record is
\* counted once as a request and once under an outcome (Stats::record).
THEOREM CountersSafe == Spec => []CountersAgree
  <1>1. Inv => CountersAgree
    BY DEF Inv
  <1> QED
    BY <1>1, Invariance, PTL

\* Although it is no snapshot, a summary has every record that was complete when
\* it began and no record twice, both among the requests and among the outcomes
\* (Stats::summary).
THEOREM SummarySafe == Spec => []SummaryAccounts
  <1>1. Inv => SummaryAccounts
    <2> SUFFICES ASSUME Inv, loaded = Counters
                 PROVE  /\ before <= summary["requests"] /\ summary["requests"] <= begun
                        /\ before <= Total(summary) /\ Total(summary) <= begun
      BY DEF SummaryAccounts
    <2>1. PICK f \in [Counters -> Nat] : Since(f)
      BY DEF Inv, Snapshot
    <2>2. \A x \in Counters : /\ f[x] \in Nat /\ summary[x] \in Nat /\ counts[x] \in Nat
                              /\ f[x] <= summary[x] /\ summary[x] <= counts[x]
      BY <2>1 DEF Inv, Typed, Since
    <2>3. /\ f["requests"] <= summary["requests"] /\ summary["requests"] <= counts["requests"]
          /\ Total(f) <= Total(summary) /\ Total(summary) <= Total(counts)
          /\ Total(f) \in Nat /\ Total(summary) \in Nat /\ Total(counts) \in Nat
      BY <2>2 DEF Total, Counters
    <2>4. counts["requests"] <= begun /\ Total(counts) <= begun
      <3>1. Cardinality(Pending) \in Nat /\ Cardinality(Unsorted) \in Nat
        BY TaskSets, OneMoreOrLess DEF Inv
      <3> QED
        BY <3>1, <2>2, Agreement DEF Inv, Typed
    <2>5. before <= f["requests"] /\ before <= Total(f) /\ before \in Nat /\ begun \in Nat
      BY <2>1 DEF Since, Inv, Typed
    <2>6. "requests" \in Counters
      BY DEF Counters
    <2> QED
      BY <2>2, <2>3, <2>4, <2>5, <2>6
  <1> QED
    BY <1>1, Invariance, PTL
=============================================================================
