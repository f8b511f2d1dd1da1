----------------------------- MODULE Lifecycle -----------------------------
(***************************************************************************)
(* The commands of src/main.rs: `cicache start` and `cicache stop`, steps  *)
(* of a job that run one at a time, and the daemons (`cicache run`) that   *)
(* start leaves behind.  They share a state directory and talk through the *)
(* files in it and through one HTTP call.                                  *)
(*                                                                         *)
(* The directory outlives a start/stop cycle (README: `--state-dir         *)
(* /tmp/cicache`), so a job or a developer may go through several.  The    *)
(* store inside the daemon is module Store; here a flush is one phase.     *)
(***************************************************************************)
EXTENDS Naturals

CONSTANTS
    Daemons,       \* the daemon processes the job may spawn
    MayBeLate,     \* booting and flushing may outlast the waits for them
    DiskMayFail    \* files outside the object directory may fail to be read,
                   \* written or removed

ASSUME LifecycleAssumption ==
    /\ MayBeLate \in BOOLEAN /\ DiskMayFail \in BOOLEAN
    /\ Daemons \cap {"absent", "partial", "none", "nothing", "missing", "error"} = {}

VARIABLES
    at,            \* where the running step is, "idle" between steps
    daemon,        \* what each daemon is doing
    state,         \* state.json: absent, partly written, or whose it is
    summary,       \* summary.json: the same
    target,        \* the daemon whose state.json a step read last, or "none"
    env,           \* the daemon the job's environment points at, or "none"
    bundle,        \* the daemon whose CA the directory's files hold, or "none"
    curlrc,        \* the lines of ~/.curlrc
    child,         \* security(1): not running, running, or outliving its kill
    outcome,       \* what the last stop since the last start ended with
    drained,       \* history: daemons whose flush has run to its end
    abandoned      \* history: a start has given up on its daemon

fileVars == <<state, summary>>
stepVars == <<at, target, outcome>>
hostVars == <<env, bundle, curlrc, child>>
vars == <<fileVars, stepVars, hostVars, daemon, drained, abandoned>>

At == {"idle", "wait", "curlrc", "trust", "export",
       "post", "poll", "read", "clean", "untrust", "sweep"}
\* The user's own lines, the user's cacert line, the marker and the line it marks.
Lines == {"own", "cacert", "marker", "added"}
Stage == {"unborn", "booting", "minted", "announcing", "serving", "flushing", "reporting",
          "exited"}
Doc == {"absent", "partial"} \cup Daemons
Outcome == {"none", "nothing", "missing", "error"} \cup Daemons

Init ==
    /\ at = "idle"
    /\ daemon = [d \in Daemons |-> "unborn"]
    /\ state = "absent" /\ summary = "absent"
    /\ target = "none" /\ env = "none" /\ bundle = "none"
    /\ curlrc = {"own", "cacert"}
    /\ child = "none"
    /\ outcome = "none"
    /\ drained = {} /\ abandoned = FALSE

-----------------------------------------------------------------------------
(***************************************************************************)
(* start                                                                   *)
(***************************************************************************)

\* With a state.json in the directory start bails out, which changes nothing.
StartSpawns ==
    /\ at = "idle"
    /\ state = "absent"
    /\ \E d \in Daemons :
           daemon[d] = "unborn" /\ daemon' = [daemon EXCEPT ![d] = "booting"]
    /\ at' = "wait" /\ outcome' = "none"
    /\ UNCHANGED <<fileVars, target, hostVars, drained, abandoned>>

\* wait_for_state skips a file it cannot parse yet; the one it can parse is
\* taken for the new daemon's.
StartSees ==
    /\ at = "wait"
    /\ state \in Daemons
    /\ target' = state
    /\ at' = "curlrc"
    /\ UNCHANGED <<fileVars, outcome, hostVars, daemon, drained, abandoned>>

\* Mutant of LineOrder: the marker is written after the line it marks.
LineOrderSwapped == <<"own", "cacert", "added", "marker">>

\* How the lines follow each other in the file: write_curlrc appends.
LineOrder == <<"own", "cacert", "marker", "added">>

\* std::fs::write truncates the file and then writes it.  It may fail to open
\* the file, and when it fails later it leaves a beginning of the new contents.
\* A line that is cut short counts as whole if it is still taken for one of its
\* kind, and else as none.
Written(lines) ==
    IF DiskMayFail
    THEN {curlrc} \cup {lines \cap {LineOrder[i] : i \in 1 .. n} : n \in 0 .. 4}
    ELSE {lines}

\* write_curlrc.  A file that cannot be read is taken for an empty one.
WriteCurlrc ==
    \E existing \in {curlrc} \cup (IF DiskMayFail THEN {{}} ELSE {}) :
        IF "marker" \in existing THEN UNCHANGED curlrc
        ELSE curlrc' \in Written(existing \cup {"marker", "added"})

\* Only on macOS, and only with a home directory.  Errors are only reported.
StartConfigures ==
    /\ at = "curlrc"
    /\ at' = "trust"
    /\ WriteCurlrc \/ UNCHANGED curlrc
    /\ UNCHANGED <<fileVars, target, outcome, env, bundle, child, daemon, drained, abandoned>>

\* export_environment; $GITHUB_ENV may fail to open.
StartExports ==
    /\ at = "export"
    /\ at' = "idle"
    /\ env' \in {env, target}
    /\ UNCHANGED <<fileVars, target, outcome, bundle, curlrc, child, daemon, drained, abandoned>>

\* No daemon is on its way to writing the file that a step waits for.
Hopeless(stages) == \A d \in Daemons : daemon[d] \notin stages

\* 20 seconds have passed; the daemon is left to itself.
StartTimesOut ==
    /\ at = "wait"
    /\ MayBeLate \/ (state \notin Daemons /\ Hopeless({"booting", "minted", "announcing"}))
    /\ at' = "idle"
    /\ abandoned' = TRUE
    /\ UNCHANGED <<fileVars, target, outcome, hostVars, daemon, drained>>

-----------------------------------------------------------------------------
(***************************************************************************)
(* run_bounded: `sudo security`, which adds the CA to the keychain for     *)
(* start and deletes it for stop.  It may block on a prompt nobody answers.*)
(***************************************************************************)

\* Outside macOS runners nothing is spawned, and spawning may fail.
TrustBegins ==
    /\ at \in {"trust", "untrust"} /\ child = "none"
    /\ child' = "running"
    /\ UNCHANGED <<fileVars, stepVars, env, bundle, curlrc, daemon, drained, abandoned>>

\* The step goes on.
Past ==
    /\ at \in {"trust", "untrust"}
    /\ at' = IF at = "trust" THEN "export" ELSE "sweep"
    /\ child' = "none"
    /\ UNCHANGED <<fileVars, target, outcome, env, bundle, curlrc, daemon, drained, abandoned>>

TrustSkipped == child = "none" /\ Past

\* try_wait, or the wait after the kill, sees that the command has ended.
TrustEnds == child # "none" /\ Past

\* Mutant of TrustTimesOut: the command is waited for.
TrustWaits == FALSE /\ UNCHANGED vars

\* The deadline has passed and the command is killed, or try_wait itself fails.
\* A kill() that fails, the command being root's, is ignored, and wait() then
\* waits for as long as the command runs.
TrustTimesOut ==
    /\ child = "running"
    /\ \/ Past
       \/ /\ child' = "outlives"
          /\ UNCHANGED <<fileVars, stepVars, env, bundle, curlrc, daemon, drained, abandoned>>

-----------------------------------------------------------------------------
(***************************************************************************)
(* run: the daemon.                                                        *)
(***************************************************************************)

Becomes(d, s) == daemon' = [daemon EXCEPT ![d] = s]

\* std::fs::write creates an empty file and then writes it.  The content is
\* lost when the file was removed in between.
Finish(doc, d) == IF doc = "absent" THEN "absent" ELSE d

\* Mutant of Boot: the daemon is announced before it is ready.
BootAnnounces(d) ==
    /\ daemon[d] = "minted"
    /\ Becomes(d, "announcing")
    /\ state' = d
    /\ UNCHANGED <<summary, stepVars, hostVars, drained, abandoned>>

\* Mutant of Mint: CA files found in the directory are kept.
MintOnce(d) ==
    /\ daemon[d] = "booting"
    /\ Becomes(d, "minted")
    /\ bundle' = IF bundle = "none" THEN d ELSE bundle
    /\ UNCHANGED <<fileVars, stepVars, env, curlrc, child, drained, abandoned>>

\* Ca::generate and write_files: every daemon has a CA of its own and writes it
\* where the last one did.
Mint(d) ==
    /\ daemon[d] = "booting"
    /\ Becomes(d, "minted")
    /\ bundle' = d
    /\ UNCHANGED <<fileVars, stepVars, env, curlrc, child, drained, abandoned>>

\* Listener, log, manifest and pack, all before state.json is opened.
Boot(d) ==
    /\ daemon[d] = "minted"
    /\ Becomes(d, "announcing")
    /\ state' = "partial"
    /\ UNCHANGED <<summary, stepVars, hostVars, drained, abandoned>>

Announce(d) ==
    /\ daemon[d] = "announcing"
    /\ Becomes(d, "serving")
    /\ state' = Finish(state, d)
    /\ UNCHANGED <<summary, stepVars, hostVars, drained, abandoned>>

\* An error outside the flush ends run() at once.  After a failed accept(),
\* for one, nothing is flushed and nothing reported.
Fail(d) ==
    /\ daemon[d] \in {"booting", "minted", "announcing", "serving", "reporting"}
    /\ Becomes(d, "exited")
    /\ UNCHANGED <<fileVars, stepVars, hostVars, drained, abandoned>>

\* ctrl_c, or the shutdown endpoint called by somebody else.
Interrupt(d) ==
    /\ daemon[d] = "serving"
    /\ Becomes(d, "flushing")
    /\ UNCHANGED <<fileVars, stepVars, hostVars, drained, abandoned>>

\* Mutant of FlushEnds: the summary is written while uploads are running.
FlushLate(d) ==
    /\ daemon[d] = "flushing"
    /\ Becomes(d, "reporting")
    /\ summary' = "partial"
    /\ UNCHANGED <<state, stepVars, hostVars, drained, abandoned>>

\* The flush is over and summary.json is opened, which may fail.
FlushEnds(d) ==
    /\ daemon[d] = "flushing"
    /\ drained' = drained \cup {d}
    /\ \/ Becomes(d, "reporting") /\ summary' = "partial"
       \/ DiskMayFail /\ Becomes(d, "exited") /\ UNCHANGED summary
    /\ UNCHANGED <<state, stepVars, hostVars, abandoned>>

Report(d) ==
    /\ daemon[d] = "reporting"
    /\ Becomes(d, "exited")
    /\ summary' = Finish(summary, d)
    /\ UNCHANGED <<state, stepVars, hostVars, drained, abandoned>>

-----------------------------------------------------------------------------
(***************************************************************************)
(* stop                                                                    *)
(***************************************************************************)

\* Mutant of StopReads: a state.json that exists is taken for a complete one.
StopReadsAnything ==
    /\ at = "idle"
    /\ \/ state = "absent" /\ outcome' = "nothing" /\ UNCHANGED <<at, target>>
       \/ state # "absent" /\ at' = "post" /\ target' = state /\ outcome' = "none"
    /\ UNCHANGED <<fileVars, hostVars, daemon, drained, abandoned>>

\* No state.json: nothing to stop.  One that does not parse: an error.
StopReads ==
    /\ at = "idle"
    /\ \/ state = "absent" /\ outcome' = "nothing" /\ UNCHANGED <<at, target>>
       \/ state = "partial" /\ outcome' = "error" /\ UNCHANGED <<at, target>>
       \/ state \in Daemons /\ at' = "post" /\ target' = state /\ outcome' = "none"
    /\ UNCHANGED <<fileVars, hostVars, daemon, drained, abandoned>>

\* Mutant of StopPosts: the shutdown request is not sent.
StopSkipsPost ==
    /\ at = "post"
    /\ at' = "poll"
    /\ UNCHANGED <<fileVars, target, outcome, hostVars, daemon, drained, abandoned>>

\* The shutdown request: a daemon that serves takes it, and errors are
\* ignored.  The listener is on the loopback interface, so a daemon that
\* serves is reached.
StopPosts ==
    /\ at = "post"
    /\ at' = "poll"
    /\ daemon' = IF daemon[target] = "serving"
                 THEN [daemon EXCEPT ![target] = "flushing"] ELSE daemon
    /\ UNCHANGED <<fileVars, target, outcome, hostVars, drained, abandoned>>

\* The wait ends when summary.json exists.
StopSees ==
    /\ at = "poll"
    /\ summary # "absent"
    /\ at' = "read"
    /\ UNCHANGED <<fileVars, target, outcome, hostVars, daemon, drained, abandoned>>

\* The wait ends at the deadline.
StopGivesUp ==
    /\ at = "poll"
    /\ summary = "absent"
    /\ MayBeLate \/ Hopeless({"serving", "flushing", "reporting"})
    /\ at' = "read"
    /\ UNCHANGED <<fileVars, target, outcome, hostVars, daemon, drained, abandoned>>

\* A summary that does not parse ends the command before the cleanup.
StopPrints ==
    /\ at = "read"
    /\ at' = IF summary = "partial" THEN "idle" ELSE "clean"
    /\ outcome' = CASE summary = "absent" -> "missing"
                    [] summary = "partial" -> "error"
                    [] OTHER -> summary
    /\ UNCHANGED <<fileVars, target, hostVars, daemon, drained, abandoned>>

\* clear_curlrc drops the marker and the cacert lines, all of them; a file with
\* nothing left is removed.  Its errors are ignored.
ClearCurlrc ==
    IF "marker" \in curlrc
    THEN curlrc' \in Written(curlrc \ {"marker", "added", "cacert"})
    ELSE UNCHANGED curlrc

StopClears ==
    /\ at = "clean"
    /\ at' = "untrust"
    /\ ClearCurlrc
    /\ UNCHANGED <<fileVars, target, outcome, env, bundle, child, daemon, drained, abandoned>>

\* After the keychain, the object directory (its files go under a daemon that may
\* still serve open connections: module Store, StopRemoves) and state.json.
\* summary.json stays.
StopSweeps ==
    /\ at = "sweep"
    /\ at' = "idle"
    /\ state' \in {"absent"} \cup (IF DiskMayFail THEN {state} ELSE {})
    /\ UNCHANGED <<summary, target, outcome, hostVars, daemon, drained, abandoned>>

-----------------------------------------------------------------------------
Start == StartSpawns \/ StartSees \/ StartTimesOut \/ StartConfigures \/ StartExports
Run(d) ==
    \/ Mint(d) \/ Boot(d) \/ Announce(d) \/ Fail(d) \/ Interrupt(d) \/ FlushEnds(d)
    \/ Report(d)
Trust == TrustBegins \/ TrustSkipped \/ TrustTimesOut
Stop ==
    \/ StopReads \/ StopPosts \/ StopSees \/ StopGivesUp \/ StopPrints \/ StopClears
    \/ StopSweeps

Next == Start \/ Trust \/ TrustEnds \/ Stop \/ \E d \in Daemons : Run(d)

\* The commands are sequential programs whose waits have deadlines; a daemon
\* that boots or flushes gets on with it, the service's calls being bounded.
\* Nothing is assumed of security(1) itself, neither that it ends nor that it can
\* be killed.
Fairness ==
    /\ WF_vars(at # "idle" /\ (Start \/ Trust \/ Stop))
    /\ \A d \in Daemons : WF_vars(Mint(d) \/ Boot(d) \/ Announce(d) \/ FlushEnds(d) \/ Report(d))

Spec == Init /\ [][Next]_vars
FairSpec == Spec /\ Fairness

-----------------------------------------------------------------------------
(***************************************************************************)
(* Properties.                                                             *)
(***************************************************************************)

\* Every variable keeps its type.
TypeOK ==
    /\ at \in At
    /\ daemon \in [Daemons -> Stage]
    /\ state \in Doc /\ summary \in Doc
    /\ target \in Daemons \cup {"none"} /\ env \in Daemons \cup {"none"}
    /\ bundle \in Daemons \cup {"none"} /\ curlrc \subseteq Lines
    /\ child \in {"none", "running", "outlives"} /\ outcome \in Outcome
    /\ drained \subseteq Daemons /\ abandoned \in BOOLEAN

\* The job's traffic is never pointed at a daemon that is not ready for it:
\* the manifest and the pack are loaded before state.json can be read.
EnvironmentReady ==
    env # "none" => daemon[env] \notin {"unborn", "booting", "minted", "announcing"}

\* A summary that stop prints is a final one: the uploads of the daemon that
\* wrote it have all settled.
SummaryIsFinal == outcome \in Daemons => outcome \in drained

\* No daemon is left behind: unless a start has given up on one, a daemon that is
\* serving is the one that state.json names, so that a stop reaches it and no
\* second one is started next to it (start, run, stop).
NoneForgotten == ~abandoned => \A d \in Daemons : daemon[d] = "serving" => state = d

\* Unless a start has given up on a daemon that may still boot: between steps the
\* CA files that the job trusts are those of the daemon that its traffic goes to,
\* although every daemon overwrites the same files (run, Ca::write_files,
\* export_environment).
TrustsItsDaemon ==
    (at = "idle" /\ env # "none" /\ env = target /\ ~abandoned) => bundle = env

\* What start adds to ~/.curlrc stays recognisable, so that a stop can take it out,
\* wherever the writes of write_curlrc and clear_curlrc break off.
CurlrcRecoverable == "added" \in curlrc => "marker" \in curlrc

\* start and stop end, whatever the daemons do, or wait for a security(1) that
\* could not be killed.
StepsEndOrWait == (at # "idle") ~> (at = "idle" \/ child = "outlives")

-----------------------------------------------------------------------------
(***************************************************************************)
(* The inductive invariant behind LifecycleProofs.                         *)
(***************************************************************************)

Starting == {"booting", "minted", "announcing"}
Ready(d) == daemon[d] \notin Starting \cup {"unborn"}

\* While no start has given up, one daemon at most is starting, a start waits for
\* it, and the CA files are those of the daemon that state.json or a step names.
OneStarts ==
    ~abandoned =>
        /\ at # "wait" => \A d \in Daemons : daemon[d] \notin Starting
        /\ at # "wait" /\ target # "none" => bundle = target
        /\ \A d, e \in Daemons : daemon[d] \in Starting /\ daemon[e] \in Starting => d = e
        /\ \A d \in Daemons : daemon[d] \in Starting => state \notin Daemons
        /\ \A d \in Daemons : daemon[d] \in {"minted", "announcing"} => bundle = d
        /\ state \in Daemons => bundle = state
        /\ \A d \in Daemons : daemon[d] = "announcing" => state = "partial"
        /\ at \notin {"idle", "wait"} => state = target

IInv ==
    /\ TypeOK /\ EnvironmentReady /\ SummaryIsFinal /\ NoneForgotten /\ CurlrcRecoverable
    /\ OneStarts
    \* whatever a file or a history variable names has got that far
    /\ state \in Daemons => Ready(state)
    /\ summary \in Daemons => summary \in drained
    /\ \A d \in Daemons : daemon[d] = "reporting" => d \in drained
    \* a step addresses a daemon that was ready, and stop one that has been told
    /\ at \notin {"idle", "wait"} => target \in Daemons /\ Ready(target)
    /\ at \in {"poll", "read", "clean", "untrust", "sweep"} => daemon[target] # "serving"

-----------------------------------------------------------------------------
(***************************************************************************)
(* A claim that the code does not keep.                                    *)
(***************************************************************************)

\* main.rs, Command::Stop: "Drain pending uploads, print the request log and
\* summary, then shut the proxy down."  A stop that ended by printing a
\* summary has drained the daemon it addressed.
StopDrains == (at = "clean" /\ outcome \in Daemons) => target \in drained
=============================================================================
