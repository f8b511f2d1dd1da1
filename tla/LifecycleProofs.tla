-------------------------- MODULE LifecycleProofs --------------------------
(***************************************************************************)
(* Theorems about module Lifecycle, for any number of start/stop cycles.   *)
(***************************************************************************)
EXTENDS Lifecycle, TLAPS

LEMMA InitIInv == Init => IInv
BY LifecycleAssumption
DEF Init, IInv, TypeOK, EnvironmentReady, SummaryIsFinal, NoneForgotten,
    CurlrcRecoverable, OneStarts, Starting, Ready, At, Lines, Stage, Doc, Outcome

\* A write that breaks off anywhere leaves no added line without its marker.
LEMMA WrittenRecoverable ==
  ASSUME IInv, NEW lines \in SUBSET Lines, "added" \in lines => "marker" \in lines
  PROVE  \A w \in Written(lines) : w \subseteq Lines /\ ("added" \in w => "marker" \in w)
<1> SUFFICES ASSUME NEW w \in Written(lines)
             PROVE  w \subseteq Lines /\ ("added" \in w => "marker" \in w)
  OBVIOUS
<1>1. CASE w \in {curlrc, lines}
  BY <1>1 DEF IInv, TypeOK, CurlrcRecoverable
<1>2. ASSUME NEW n \in 0 .. 4, w = lines \cap {LineOrder[i] : i \in 1 .. n}
      PROVE  w \subseteq Lines /\ ("added" \in w => "marker" \in w)
  <2>1. SUFFICES ASSUME "added" \in w PROVE "marker" \in w
    BY <1>2
  <2>2. PICK i \in 1 .. n : LineOrder[i] = "added"
    BY <1>2, <2>1
  <2>3. i = 4
    BY <2>2 DEF LineOrder
  <2>4. 3 \in 1 .. n /\ LineOrder[3] = "marker"
    BY <2>3 DEF LineOrder
  <2> QED
    BY <1>2, <2>1, <2>4
<1> QED
  BY <1>1, <1>2 DEF Written

LEMMA NextIInv == IInv /\ [Next]_vars => IInv'
<1> SUFFICES ASSUME IInv, [Next]_vars PROVE IInv'
  OBVIOUS
<1> USE LifecycleAssumption
    DEF IInv, TypeOK, EnvironmentReady, SummaryIsFinal, NoneForgotten, CurlrcRecoverable,
        OneStarts, Starting, Ready, At, Lines, Stage, Doc, Outcome, vars, fileVars,
        stepVars, hostVars, Becomes, Finish
<1>1. CASE StartSpawns
  BY <1>1 DEF StartSpawns
<1>2. CASE StartSees
  BY <1>2 DEF StartSees
<1>3. CASE StartTimesOut
  BY <1>3 DEF StartTimesOut
<1>4. CASE StartConfigures
  <2>1. curlrc' \subseteq Lines /\ ("added" \in curlrc' => "marker" \in curlrc')
    <3>1. CASE UNCHANGED curlrc
      BY <3>1
    <3>2. ASSUME NEW existing \in SUBSET Lines, curlrc' \in Written(existing \cup {"marker", "added"})
          PROVE  curlrc' \subseteq Lines /\ ("added" \in curlrc' => "marker" \in curlrc')
      BY <3>2, WrittenRecoverable
    <3> QED
      BY <1>4, <3>1, <3>2 DEF StartConfigures, WriteCurlrc
  <2> QED
    BY <1>4, <2>1 DEF StartConfigures
<1>5. CASE StartExports
  BY <1>5 DEF StartExports
<1>6. CASE TrustBegins
  BY <1>6 DEF TrustBegins
<1>7. CASE Past
  <2>1. abandoned' \in BOOLEAN
    BY <1>7, Zenon DEF Past
  <2>2. \/ at = "trust" /\ at' = "export"
        \/ at = "untrust" /\ at' = "sweep"
    BY <1>7 DEF Past
  <2> QED
    BY <1>7, <2>1, <2>2 DEF Past
<1>8. ASSUME NEW d \in Daemons, Run(d) PROVE IInv'
  <2>1. CASE Mint(d)
    BY <2>1 DEF Mint
  <2>2. CASE Boot(d)
    BY <2>2 DEF Boot
  <2>3. CASE Announce(d)
    BY <2>3 DEF Announce
  <2>4. CASE Fail(d)
    BY <2>4 DEF Fail
  <2>5. CASE Interrupt(d)
    BY <2>5 DEF Interrupt
  <2>6. CASE FlushEnds(d)
    BY <2>6 DEF FlushEnds
  <2>7. CASE Report(d)
    BY <2>7 DEF Report
  <2> QED
    BY <1>8, <2>1, <2>2, <2>3, <2>4, <2>5, <2>6, <2>7 DEF Run
<1>9. CASE StopReads
  BY <1>9 DEF StopReads
<1>10. CASE StopPosts
  BY <1>10 DEF StopPosts
<1>11. CASE StopSees
  BY <1>11 DEF StopSees
<1>12. CASE StopGivesUp
  BY <1>12 DEF StopGivesUp
<1>13. CASE StopPrints
  BY <1>13 DEF StopPrints
<1>14. CASE StopClears
  <2>1. curlrc' \subseteq Lines /\ ("added" \in curlrc' => "marker" \in curlrc')
    BY <1>14, WrittenRecoverable DEF StopClears, ClearCurlrc
  <2> QED
    BY <1>14, <2>1 DEF StopClears
<1>15. CASE StopSweeps
  BY <1>15 DEF StopSweeps
<1>16. CASE UNCHANGED vars
  BY <1>16
<1>17. CASE TrustTimesOut
  <2>1. CASE Past
    BY <1>7, <2>1
  <2>2. CASE child' = "outlives"
             /\ UNCHANGED <<fileVars, stepVars, env, bundle, curlrc, daemon, drained, abandoned>>
    BY <2>2
  <2> QED
    BY <1>17, <2>1, <2>2 DEF TrustTimesOut
<1> QED
  BY <1>1, <1>2, <1>3, <1>4, <1>5, <1>6, <1>7, <1>8, <1>9, <1>10, <1>11, <1>12, <1>13,
     <1>14, <1>15, <1>16, <1>17
  DEF Next, Start, Trust, TrustSkipped, TrustEnds, Stop

\* IInv is an invariant of the commands and their daemons.
THEOREM Invariance == Spec => []IInv
BY InitIInv, NextIInv, PTL DEF Spec

\* The exported environment only ever names a daemon that is ready to serve.
THEOREM EnvironmentSafe == Spec => []EnvironmentReady
<1>1. IInv => EnvironmentReady
  BY DEF IInv
<1> QED
  BY <1>1, Invariance, PTL

\* A summary printed by stop is one written after its daemon's flush.
THEOREM SummarySafe == Spec => []SummaryIsFinal
<1>1. IInv => SummaryIsFinal
  BY DEF IInv
<1> QED
  BY <1>1, Invariance, PTL

\* Unless a start has given up on it, a daemon that serves can be stopped.
THEOREM NoneForgottenSafe == Spec => []NoneForgotten
<1>1. IInv => NoneForgotten
  BY DEF IInv
<1> QED
  BY <1>1, Invariance, PTL

\* The commands and the daemons keep the types of the files and of their state.
THEOREM TypeCorrect == Spec => []TypeOK
<1>1. IInv => TypeOK
  BY DEF IInv
<1> QED
  BY <1>1, Invariance, PTL

\* Without an abandoned start, the job trusts the CA of the daemon it talks to.
THEOREM TrustSafe == Spec => []TrustsItsDaemon
<1>1. IInv => TrustsItsDaemon
  BY DEF IInv, OneStarts, TrustsItsDaemon
<1> QED
  BY <1>1, Invariance, PTL

\* Wherever a write of ~/.curlrc breaks off, stop can find what start added.
THEOREM CurlrcSafe == Spec => []CurlrcRecoverable
<1>1. IInv => CurlrcRecoverable
  BY DEF IInv
<1> QED
  BY <1>1, Invariance, PTL
=============================================================================
