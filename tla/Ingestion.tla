------------------------------ MODULE Ingestion -----------------------------
(***************************************************************************)
(* The ingestion job: runs that fetch postings, land their payloads in     *)
(* raw_jobs, screen them, load clean_jobs, append a summary row and ping   *)
(* the dead-man monitor.  Several runs share the database.  GitHub keeps   *)
(* scheduled runs apart, but the job can also be started by hand, so runs  *)
(* may overlap.  The source, the database's failures, an interrupt from    *)
(* the terminal or the runner and the death of the process are the         *)
(* environment.  A step is a transaction, or the code between two of them. *)
(***************************************************************************)
EXTENDS Integers, FiniteSets

CONSTANTS
    Runs,           \* the attempts
    Keys,           \* the natural keys (source, external_id) of postings
    Contents,       \* the payloads a posting can have (their content hashes)
    Malformed,      \* the payloads to_normalized_job raises on
    LowQuality,     \* the payloads that break a row-quality rule
    MinYield,       \* safety.min_yield
    MaxRejected     \* safety.max_rejected_ratio, as [num, den]

ASSUME KeysAssumption == IsFiniteSet(Keys)
ASSUME PayloadAssumption == Malformed \cup LowQuality \subseteq Contents
ASSUME SafetyAssumption ==
    MinYield \in Nat /\ MaxRejected \in [num : Nat, den : Nat \ {0}]

VARIABLES
    run,            \* each run: [at, batch, known, summary, returned, effect,
                    \*            loaded]; the last two are history
    lock,           \* the runs that hold the advisory lock of the raw upsert
    raw,            \* raw_jobs: key -> [content, by], `by` history
    clean,          \* clean_jobs: key -> [content, by], `by` history
    rows,           \* ingestion_runs: {[run, summary]}
    pinged,         \* the runs that pinged the monitor
    overlapped      \* history: two runs have been active at once

tables == <<raw, clean, rows, pinged>>
vars == <<run, lock, tables, overlapped>>

-----------------------------------------------------------------------------
Null == -1          \* the counter of a stage not completed
NoRow == [k \in {} |-> Null]
Counts == {"new", "changed", "unchanged"}
NoCounts == [c \in Counts |-> Null]

\* Mutant: a run that has not ended is summarised as running.
RunningSummary == [outcome |-> "running", phase |-> "none", fetched |-> Null,
                   raw |-> NoCounts, skipped |-> Null, clean |-> Null]

\* The row of a run that has got nowhere: failed, at no phase.
EmptySummary == [outcome |-> "failed", phase |-> "none", fetched |-> Null,
                 raw |-> NoCounts, skipped |-> Null, clean |-> Null]

Init ==
    /\ run = [r \in Runs |-> [at |-> "idle", batch |-> NoRow, known |-> NoRow,
                              summary |-> EmptySummary, returned |-> FALSE,
                              effect |-> NoCounts, loaded |-> FALSE]]
    /\ lock = {}
    /\ raw = NoRow
    /\ clean = NoRow
    /\ rows = {}
    /\ pinged = {}
    /\ overlapped = FALSE

Idle == {"idle", "exited", "dead"}
InTry == {"schema_check", "source_initialization", "fetch", "raw_upsert",
          "raw_locked", "screening", "clean_upsert"}
Active(r) == run[r].at \notin Idle

\* Leaving the `try` with the summary s, by returning or by an exception.
Leaves(r, s, returned, updated) ==
    run' = [run EXCEPT ![r] = [updated EXCEPT !.at = "persisting", !.summary = s,
                                           !.returned = returned]]
Raises(r, outcome, phase, updated) ==
    Leaves(r, [updated.summary EXCEPT !.outcome = outcome, !.phase = phase],
           FALSE, updated)
GoesOn(r, place, updated) == run' = [run EXCEPT ![r] = [updated EXCEPT !.at = place]]

\* ON CONFLICT DO UPDATE: every row of the batch is written.
Upsert(table, batch, r) ==
    [k \in DOMAIN table \cup DOMAIN batch |->
       IF k \in DOMAIN batch THEN [content |-> batch[k], by |-> r] ELSE table[k]]

-----------------------------------------------------------------------------
Starts(r) ==
    /\ run[r].at = "idle"
    /\ GoesOn(r, "schema_check", run[r])
    /\ overlapped' = (overlapped \/ \E s \in Runs : Active(s))
    /\ UNCHANGED <<lock, tables>>

\* The live columns agree with the ORM, or the run is aborted before it starts;
\* what the check does not expect is a failure.
ChecksSchema(r) ==
    /\ run[r].at = "schema_check"
    /\ \/ GoesOn(r, "source_initialization", run[r])
       \/ \E outcome \in {"safety_aborted", "failed"} :
            Raises(r, outcome, "schema_check", run[r])
    /\ UNCHANGED <<lock, tables, overlapped>>

OpensSource(r) ==
    /\ run[r].at = "source_initialization"
    /\ \/ GoesOn(r, "fetch", run[r])
       \/ Raises(r, "failed", "source_initialization", run[r])
    /\ UNCHANGED <<lock, tables, overlapped>>

\* Mutant: the yield floor is checked before the payloads are landed.
FetchesScreened(r) ==
    /\ run[r].at = "fetch"
    /\ \E keys \in SUBSET Keys : \E batch \in [keys -> Contents] :
         LET fetched == [run[r] EXCEPT !.batch = batch,
                                       !.summary.fetched = Cardinality(keys)]
         IN  IF Cardinality(keys) < MinYield
               THEN Raises(r, "safety_aborted", "yield_check", fetched)
               ELSE GoesOn(r, "raw_upsert", fetched)
    /\ UNCHANGED <<lock, tables, overlapped>>

\* The source yields postings of distinct keys; the robots gate aborts and
\* anything else fails the run.
Fetches(r) ==
    /\ run[r].at = "fetch"
    /\ \/ \E keys \in SUBSET Keys : \E batch \in [keys -> Contents] :
            GoesOn(r, "raw_upsert",
                   [run[r] EXCEPT !.batch = batch,
                                  !.summary.fetched = Cardinality(keys)])
       \/ \E outcome \in {"safety_aborted", "failed"} :
            Raises(r, outcome, "fetch", run[r])
    /\ UNCHANGED <<lock, tables, overlapped>>

\* What writing `batch` over `table` does: how many rows are new, changed, the
\* same.
Classify(table, batch) ==
    LET old == DOMAIN table \cap DOMAIN batch
        same == {k \in old : table[k] = batch[k]}
    IN  [c \in Counts |->
           CASE c = "new" -> Cardinality(DOMAIN batch \ old)
             [] c = "changed" -> Cardinality(old \ same)
             [] c = "unchanged" -> Cardinality(same)]
Payloads == [k \in DOMAIN raw |-> raw[k].content]

\* An empty batch returns before it opens a session.
RawSkips(r) ==
    /\ run[r].at = "raw_upsert"
    /\ DOMAIN run[r].batch = {}
    /\ LET none == Classify(NoRow, NoRow)
       IN  GoesOn(r, "screening",
                  [run[r] EXCEPT !.summary.raw = none, !.effect = none])
    /\ UNCHANGED <<lock, tables, overlapped>>

\* Mutant: no advisory lock is taken.
RawReads(r) ==
    /\ run[r].at = "raw_upsert"
    /\ DOMAIN run[r].batch # {}
    /\ GoesOn(r, "raw_locked", [run[r] EXCEPT !.known = Payloads])
    /\ UNCHANGED <<lock, tables, overlapped>>

\* The transaction takes the advisory lock and reads the hashes it will replace.
RawLocks(r) ==
    /\ run[r].at = "raw_upsert"
    /\ DOMAIN run[r].batch # {}
    /\ lock = {}
    /\ lock' = {r}
    /\ GoesOn(r, "raw_locked", [run[r] EXCEPT !.known = Payloads])
    /\ UNCHANGED <<tables, overlapped>>

\* The rows are upserted and committed, which frees the lock.  The counts are
\* those classified from what was read.  The answer to COMMIT may be lost, and an
\* interrupt may come right after it.
RawCommits(r) ==
    /\ run[r].at = "raw_locked"
    /\ raw' = Upsert(raw, run[r].batch, r)
    /\ lock' = lock \ {r}
    /\ LET done == [run[r] EXCEPT !.effect = Classify(Payloads, run[r].batch)]
           counts == Classify(run[r].known, run[r].batch)
       IN  \/ GoesOn(r, "screening", [done EXCEPT !.summary.raw = counts])
           \/ Raises(r, "failed", "raw_upsert", done)
           \/ Leaves(r, done.summary, FALSE, done)
    /\ UNCHANGED <<clean, rows, pinged, overlapped>>

\* Mutant: a lock of the session outlives the transaction that took it.
RawFailsLocked(r) ==
    /\ run[r].at \in {"raw_upsert", "raw_locked"}
    /\ DOMAIN run[r].batch # {}
    /\ Raises(r, "failed", "raw_upsert", run[r])
    /\ UNCHANGED <<lock, tables, overlapped>>

\* The database fails the upsert: the transaction is rolled back.
RawFails(r) ==
    /\ run[r].at \in {"raw_upsert", "raw_locked"}
    /\ DOMAIN run[r].batch # {}
    /\ Raises(r, "failed", "raw_upsert", run[r])
    /\ lock' = lock \ {r}
    /\ UNCHANGED <<tables, overlapped>>

-----------------------------------------------------------------------------
(* The gates between the two tables.                                        *)

Rejected(batch) == {k \in DOMAIN batch : batch[k] \in Malformed \cup LowQuality}
Accepted(batch) ==
    [k \in DOMAIN batch \ Rejected(batch) |-> batch[k]]

BelowYield(fetched) == fetched < MinYield
\* Mutant: the ratio is an integer division.
AboveRatioFloored(rejected, fetched) ==
    fetched # 0 /\ (rejected \div fetched) * MaxRejected.den > MaxRejected.num
AboveRatio(rejected, fetched) ==
    fetched # 0 /\ rejected * MaxRejected.den > MaxRejected.num * fetched

\* Mutant: a record that raises is dropped without being counted.
ScreensUncounted(r) ==
    LET batch == run[r].batch
        fetched == Cardinality(DOMAIN batch)
        rejected == Cardinality({k \in DOMAIN batch : batch[k] \in LowQuality})
        counted == [run[r] EXCEPT !.summary.skipped = rejected]
    IN  /\ run[r].at = "screening"
        /\ IF BelowYield(fetched)
             THEN Raises(r, "safety_aborted", "yield_check", run[r])
             ELSE IF AboveRatio(rejected, fetched)
               THEN Raises(r, "safety_aborted", "row_quality_check", counted)
               ELSE GoesOn(r, "clean_upsert", counted)
        /\ UNCHANGED <<lock, tables, overlapped>>

\* Yield floor, normalisation (a record that raises is dropped and counted),
\* row quality (likewise), and the ratio of what was dropped.
Screens(r) ==
    LET batch == run[r].batch
        fetched == Cardinality(DOMAIN batch)
        rejected == Cardinality(Rejected(batch))
        counted == [run[r] EXCEPT !.summary.skipped = rejected]
    IN  /\ run[r].at = "screening"
        /\ IF BelowYield(fetched)
             THEN Raises(r, "safety_aborted", "yield_check", run[r])
             ELSE IF AboveRatio(rejected, fetched)
               THEN Raises(r, "safety_aborted", "row_quality_check", counted)
               ELSE GoesOn(r, "clean_upsert", counted)
        /\ UNCHANGED <<lock, tables, overlapped>>

\* Mutant: ON CONFLICT DO NOTHING.
CleanCommitsNew(r) ==
    LET accepted == Accepted(run[r].batch)
        done == [run[r] EXCEPT !.loaded = TRUE]
        fresh == [k \in DOMAIN accepted \ DOMAIN clean |-> accepted[k]]
    IN  /\ run[r].at = "clean_upsert"
        /\ clean' = Upsert(clean, fresh, r)
        /\ Leaves(r, [done.summary EXCEPT !.outcome = "completed",
                        !.clean = Cardinality(DOMAIN accepted)], TRUE, done)
        /\ UNCHANGED <<lock, raw, rows, pinged, overlapped>>

\* One statement loads the accepted rows (none for an empty batch), the summary
\* is completed and the run returns.  The answer to COMMIT may be lost, and an
\* interrupt may come before or after the summary is completed.
CleanCommits(r) ==
    LET accepted == Accepted(run[r].batch)
        done == [run[r] EXCEPT !.loaded = TRUE]
    IN  /\ run[r].at = "clean_upsert"
        /\ clean' = Upsert(clean, accepted, r)
        /\ \/ \E returned \in BOOLEAN :
                Leaves(r, [done.summary EXCEPT !.outcome = "completed",
                             !.clean = Cardinality(DOMAIN accepted)], returned, done)
           \/ Leaves(r, done.summary, FALSE, done)
           \/ DOMAIN accepted # {} /\ Raises(r, "failed", "clean_upsert", done)
        /\ UNCHANGED <<lock, raw, rows, pinged, overlapped>>

CleanFails(r) ==
    /\ run[r].at = "clean_upsert"
    /\ DOMAIN Accepted(run[r].batch) # {}
    /\ Raises(r, "failed", "clean_upsert", run[r])
    /\ UNCHANGED <<lock, tables, overlapped>>

-----------------------------------------------------------------------------
\* Mutant: main() goes on to the ping whether or not the run returned.
PersistsQuietly(r) ==
    /\ run[r].at = "persisting"
    /\ \/ rows' = rows \cup {[run |-> r, summary |-> run[r].summary]}
       \/ UNCHANGED rows
    /\ GoesOn(r, "reporting", run[r])
    /\ UNCHANGED <<lock, raw, clean, pinged, overlapped>>

\* The `finally` block: the summary row is appended, or its failure is logged.
Persists(r) ==
    /\ run[r].at = "persisting"
    /\ \/ rows' = rows \cup {[run |-> r, summary |-> run[r].summary]}
       \/ UNCHANGED rows
    /\ GoesOn(r, IF run[r].returned THEN "reporting" ELSE "exited", run[r])
    /\ UNCHANGED <<lock, raw, clean, pinged, overlapped>>

\* main() of a run that returned: the ping is sent, or not (no URL, an error).
Pings(r) ==
    /\ run[r].at = "reporting"
    /\ \/ pinged' = pinged \cup {r}
       \/ UNCHANGED pinged
    /\ GoesOn(r, "exited", run[r])
    /\ UNCHANGED <<lock, raw, clean, rows, overlapped>>

\* KeyboardInterrupt: no `except` clause matches, so the summary is persisted as
\* it stands; a transaction in progress is rolled back.
Interrupted(r) ==
    /\ run[r].at \in InTry
    /\ Leaves(r, run[r].summary, FALSE, run[r])
    /\ lock' = lock \ {r}
    /\ UNCHANGED <<tables, overlapped>>

\* The process is killed, by the job's time limit or otherwise; its session ends.
Killed(r) ==
    /\ Active(r)
    /\ GoesOn(r, "dead", run[r])
    /\ lock' = lock \ {r}
    /\ UNCHANGED <<tables, overlapped>>

\* What a run does when nothing fails it.
Progresses(r) == ChecksSchema(r) \/ OpensSource(r) \/ Fetches(r) \/ RawSkips(r)
                   \/ RawLocks(r) \/ RawCommits(r) \/ Screens(r)
                   \/ CleanCommits(r) \/ Persists(r) \/ Pings(r)

\* No attempt is left.
AllOver == (\A r \in Runs : run[r].at \in {"exited", "dead"}) /\ UNCHANGED vars

Next == (\E r \in Runs : Starts(r) \/ Progresses(r) \/ RawFails(r) \/ CleanFails(r)
                           \/ Interrupted(r) \/ Killed(r))
          \/ AllOver

Spec == Init /\ [][Next]_vars

\* A call that a run makes returns, and the lock goes to a run that waits for it
\* once it is free.  Nothing makes a wait for the lock fail.
FairSpec == Spec /\ \A r \in Runs : WF_vars(Progresses(r))

-----------------------------------------------------------------------------
Batches == UNION {[keys -> Contents] : keys \in SUBSET Keys}
Tables == UNION {[keys -> [content : Contents, by : Runs]] : keys \in SUBSET Keys}
Counters == Nat \cup {Null}
RawCounts == [Counts -> Counters]
Outcomes == {"completed", "safety_aborted", "failed"}
Phases == {"none", "schema_check", "source_initialization", "fetch", "raw_upsert",
           "yield_check", "normalize", "row_quality_check", "clean_upsert"}
Summaries == [outcome : Outcomes, phase : Phases, fetched : Counters,
              raw : RawCounts, skipped : Counters, clean : Counters]
Places == Idle \cup InTry \cup {"persisting", "reporting"}
RunStates == [at : Places, batch : Batches, known : Batches, summary : Summaries,
              returned : BOOLEAN, effect : RawCounts, loaded : BOOLEAN]

\* Every variable keeps its type.
TypeOK ==
    /\ run \in [Runs -> RunStates]
    /\ lock \in SUBSET Runs
    /\ raw \in Tables
    /\ clean \in Tables
    /\ rows \in SUBSET [run : Runs, summary : Summaries]
    /\ pinged \in SUBSET Runs
    /\ overlapped \in BOOLEAN

-----------------------------------------------------------------------------
\* docs/modules/ingestion.md: the advisory lock keeps the counts exact if two
\* runs overlap.  What a run reports of its raw upsert is what its commit did to
\* the table.
CountsExact ==
    \A r \in Runs :
        run[r].summary.raw # NoCounts => run[r].summary.raw = run[r].effect

\* The row of a completed run accounts for every posting it fetched: landed as
\* new, changed or unchanged, and then either loaded or skipped; and it stayed
\* within both safety bounds.
CompletedAddsUp ==
    \A row \in rows :
        LET s == row.summary
        IN  s.outcome = "completed" =>
              /\ s.fetched = s.raw["new"] + s.raw["changed"] + s.raw["unchanged"]
              /\ s.fetched = s.clean + s.skipped
              /\ s.fetched >= MinYield
              /\ s.skipped * MaxRejected.den <= MaxRejected.num * s.fetched

\* The agent reads only rows that passed the rules, from a batch that passed both
\* gates, whichever runs died, failed or overlapped on the way.
CleanOnlyFromPassedRuns ==
    \A k \in DOMAIN clean :
        LET batch == run[clean[k].by].batch
            bad == {j \in DOMAIN batch : batch[j] \in Malformed \cup LowQuality}
        IN  /\ k \in DOMAIN batch \ bad
            /\ clean[k].content = batch[k]
            /\ Cardinality(DOMAIN batch) >= MinYield
            /\ Cardinality(bad) * MaxRejected.den
                 <= MaxRejected.num * Cardinality(DOMAIN batch)

\* Runs that never overlap leave the agent an older version than raw_jobs holds
\* only where the run that landed the newer one dropped it, or did not get to
\* load it.
CleanLagsOnlyDropped ==
    ~overlapped =>
        \A k \in DOMAIN clean :
            /\ k \in DOMAIN raw
            /\ raw[k].content # clean[k].content =>
                 \/ ~run[raw[k].by].loaded
                 \/ raw[k].content \in Malformed \cup LowQuality

\* docs/modules/ingestion.md, "What an abort leaves behind": a gate that aborts
\* leaves the payloads for diagnosis and clean_jobs untouched; an abort before
\* them leaves both untouched.
SafetyAbortKeepsPayloads ==
    \A row \in rows :
        row.summary.outcome = "safety_aborted" =>
            /\ ~run[row.run].loaded
            /\ row.summary.phase \in {"yield_check", "row_quality_check"}
                 <=> run[row.run].effect # NoCounts

\* The monitor hears only of runs whose rows are in clean_jobs, and no row says
\* otherwise: it alerts on silence, so a ping of any other run hides a failure.
PingMeansLoaded ==
    \A r \in pinged :
        /\ run[r].loaded
        /\ \A row \in rows : row.run = r => row.summary.outcome = "completed"

\* A run that starts ends, also when it waits for the lock of one that fails, is
\* interrupted or is killed.
EveryRunEnds ==
    \A r \in Runs : run[r].at = "schema_check" ~> run[r].at \in {"exited", "dead"}
=============================================================================
