--------------------------- MODULE IngestionProofs --------------------------
(***************************************************************************)
(* Proofs about Ingestion, for every set of runs, every finite set of keys *)
(* and all values of the safety bounds: its types; that the counts a run   *)
(* reports are exact although runs overlap; and what lies between the two  *)
(* tables.  That a completed run's row adds up, that clean_jobs holds only *)
(* rows of a batch that passed both gates, what an abort leaves and what a *)
(* ping means each follows from what is true of one run wherever it is     *)
(* (RunSound) and from three facts that tie the tables to the runs that    *)
(* wrote them; that clean_jobs lags behind raw_jobs only where a run       *)
(* dropped a row, from who wrote what last while runs do not overlap       *)
(* (LagInv).                                                               *)
(***************************************************************************)
EXTENDS Ingestion, FiniteSetTheorems, TLAPS

-----------------------------------------------------------------------------
(* Records: what the fields of a run and of a summary are, and that setting *)
(* one to a value of its type keeps the record's type.                      *)

\* The fields of a run record have their types.
LEMMA RunFields ==
    ASSUME NEW u \in RunStates
    PROVE  /\ u.at \in Places
           /\ u.batch \in Batches
           /\ u.known \in Batches
           /\ u.summary \in Summaries
           /\ u.returned \in BOOLEAN
           /\ u.effect \in RawCounts
           /\ u.loaded \in BOOLEAN
  BY DEF RunStates

\* A run record moves to a place.
LEMMA SetAt ==
    ASSUME NEW u \in RunStates, NEW place \in Places
    PROVE  LET v == [u EXCEPT !.at = place]
           IN  /\ v \in RunStates
               /\ v.at = place
               /\ v.known = u.known
               /\ v.batch = u.batch
               /\ v.summary = u.summary
               /\ v.effect = u.effect
  BY DEF RunStates

\* A failure sets the outcome and the phase, and keeps the counts.
LEMMA SetFailure ==
    ASSUME NEW s \in Summaries, NEW outcome \in Outcomes, NEW phase \in Phases
    PROVE  LET t == [s EXCEPT !.outcome = outcome, !.phase = phase]
           IN  t \in Summaries /\ t.raw = s.raw
  BY DEF Summaries

\* The other fields a step sets.
LEMMA SetCounted ==
    ASSUME NEW u \in RunStates, NEW counts \in RawCounts
    PROVE  LET v == [u EXCEPT !.summary.raw = counts, !.effect = counts]
           IN  v \in RunStates /\ v.summary.raw = counts /\ v.effect = counts
  BY DEF RunStates, Summaries

LEMMA SetRaw ==
    ASSUME NEW u \in RunStates, NEW counts \in RawCounts
    PROVE  LET v == [u EXCEPT !.summary.raw = counts]
           IN  v \in RunStates /\ v.summary.raw = counts /\ v.effect = u.effect
  BY DEF RunStates, Summaries

LEMMA SetEffect ==
    ASSUME NEW u \in RunStates, NEW effect \in RawCounts
    PROVE  LET v == [u EXCEPT !.effect = effect]
           IN  v \in RunStates /\ v.summary = u.summary /\ v.effect = effect
  BY DEF RunStates

LEMMA SetKnown ==
    ASSUME NEW u \in RunStates, NEW known \in Batches
    PROVE  LET v == [u EXCEPT !.known = known]
           IN  v \in RunStates /\ v.known = known /\ v.summary = u.summary
                 /\ v.effect = u.effect
  BY DEF RunStates

LEMMA SetSkipped ==
    ASSUME NEW u \in RunStates, NEW n \in Counters
    PROVE  LET v == [u EXCEPT !.summary.skipped = n]
           IN  v \in RunStates /\ v.summary.raw = u.summary.raw /\ v.effect = u.effect
  BY DEF RunStates, Summaries

LEMMA SetLoaded ==
    ASSUME NEW u \in RunStates
    PROVE  LET v == [u EXCEPT !.loaded = TRUE]
           IN  v \in RunStates /\ v.summary = u.summary /\ v.effect = u.effect
  BY DEF RunStates

LEMMA SetCompleted ==
    ASSUME NEW s \in Summaries, NEW n \in Counters
    PROVE  LET t == [s EXCEPT !.outcome = "completed", !.clean = n]
           IN  t \in Summaries /\ t.raw = s.raw
  BY DEF Summaries, Outcomes

-----------------------------------------------------------------------------
(* Batches, tables and counts.                                              *)

\* A batch is a function from some of the keys to payloads, and so finite.
LEMMA BatchShape ==
    /\ \A b \in Batches : /\ DOMAIN b \in SUBSET Keys
                          /\ IsFiniteSet(DOMAIN b)
                          /\ \A k \in DOMAIN b : b[k] \in Contents
    /\ \A keys \in SUBSET Keys : \A b \in [keys -> Contents] : b \in Batches
  BY KeysAssumption, FS_Subset DEF Batches

\* A table is a function from some of the keys to rows.
LEMMA TableShape ==
    /\ \A t \in Tables : /\ DOMAIN t \in SUBSET Keys
                         /\ \A k \in DOMAIN t : t[k] \in [content : Contents, by : Runs]
    /\ \A keys \in SUBSET Keys :
         \A t \in [keys -> [content : Contents, by : Runs]] : t \in Tables
  BY DEF Tables

\* Counting a subset of a batch gives a counter.
LEMMA CountOfBatch ==
    ASSUME NEW b \in Batches, NEW S \in SUBSET DOMAIN b
    PROVE  Cardinality(S) \in Counters
  BY BatchShape, FS_Subset, FS_CardinalityType DEF Counters

\* An upsert keeps the type of the table.
LEMMA UpsertTyped ==
    ASSUME NEW t \in Tables, NEW b \in Batches, NEW r \in Runs
    PROVE  Upsert(t, b, r) \in Tables
  <1> DEFINE keys == DOMAIN t \cup DOMAIN b
  <1>1. keys \in SUBSET Keys
    BY BatchShape, TableShape
  <1>2. Upsert(t, b, r) \in [keys -> [content : Contents, by : Runs]]
    BY BatchShape, TableShape DEF Upsert
  <1> QED
    BY <1>1, <1>2, TableShape

\* The payloads of raw_jobs, and the accepted part of a batch, are batches.
LEMMA PayloadsTyped == raw \in Tables => Payloads \in Batches
  BY TableShape, BatchShape DEF Payloads

LEMMA AcceptedTyped == \A b \in Batches : Accepted(b) \in Batches
  BY BatchShape DEF Accepted

LEMMA EmptyTyped == NoRow \in Batches /\ NoRow \in Tables
  <1>1. \A S : NoRow \in [{} -> S]
    BY DEF NoRow
  <1> QED
    BY <1>1, BatchShape, TableShape

\* The classification of a batch is one counter of each kind.
LEMMA ClassifyTyped ==
    ASSUME NEW t, NEW b \in Batches
    PROVE  Classify(t, b) \in RawCounts
  <1> DEFINE old == DOMAIN t \cap DOMAIN b
             same == {k \in old : t[k] = b[k]}
  <1>1. /\ Cardinality(DOMAIN b \ old) \in Counters
        /\ Cardinality(old \ same) \in Counters
        /\ Cardinality(same) \in Counters
    BY CountOfBatch
  <1> QED
    BY <1>1 DEF Classify, RawCounts, Counts

-----------------------------------------------------------------------------
(* Steps of a run.                                                          *)

RunTyped == run \in [Runs -> RunStates]

\* After a step of r: where it is, the counts its summary reports, and what its
\* upsert did; no other run has moved.
MovedTo(r, place, counts, effect) ==
    /\ RunTyped'
    /\ run'[r].at = place
    /\ run'[r].summary.raw = counts
    /\ run'[r].effect = effect
    /\ \A s \in Runs \ {r} : run'[s] = run[s]

LEMMA PlacesOfSteps ==
    /\ Idle \cup InTry \cup {"persisting", "reporting"} = Places
    /\ "persisting" \in Places
    /\ {"exited", "dead", "reporting"} \subseteq Places
    /\ InTry \subseteq Places
  BY DEF Places, Idle

\* A record put in the place of a run's.
LEMMA Replaced ==
    ASSUME RunTyped, NEW r \in Runs, NEW v \in RunStates,
           run' = [run EXCEPT ![r] = v]
    PROVE  MovedTo(r, v.at, v.summary.raw, v.effect) /\ run'[r] = v
  BY DEF RunTyped, MovedTo

LEMMA GoesOnMoves ==
    ASSUME RunTyped, NEW r \in Runs, NEW u \in RunStates, NEW place \in Places,
           GoesOn(r, place, u)
    PROVE  MovedTo(r, place, u.summary.raw, u.effect) /\ run'[r].known = u.known
             /\ run'[r].batch = u.batch
  <1> DEFINE v == [u EXCEPT !.at = place]
  <1>1. /\ v \in RunStates
        /\ v.at = place
        /\ v.known = u.known
        /\ v.batch = u.batch
        /\ v.summary = u.summary
        /\ v.effect = u.effect
    BY SetAt
  <1>2. run' = [run EXCEPT ![r] = v]
    BY DEF GoesOn
  <1> HIDE DEF v
  <1> QED
    BY <1>1, <1>2, Replaced

LEMMA LeavesMoves ==
    ASSUME RunTyped, NEW r \in Runs, NEW u \in RunStates, NEW s \in Summaries,
           NEW b \in BOOLEAN, Leaves(r, s, b, u)
    PROVE  MovedTo(r, "persisting", s.raw, u.effect)
  <1> DEFINE v == [u EXCEPT !.at = "persisting", !.summary = s, !.returned = b]
  <1>1. v \in RunStates /\ v.at = "persisting" /\ v.summary = s /\ v.effect = u.effect
    <2>1. "persisting" \in Places
      BY DEF Places
    <2> QED
      BY <2>1 DEF RunStates
  <1>2. run' = [run EXCEPT ![r] = v]
    BY DEF Leaves
  <1> HIDE DEF v
  <1> QED
    BY <1>1, <1>2, Replaced

LEMMA RaisesMoves ==
    ASSUME RunTyped, NEW r \in Runs, NEW u \in RunStates, NEW outcome \in Outcomes,
           NEW phase \in Phases, Raises(r, outcome, phase, u)
    PROVE  MovedTo(r, "persisting", u.summary.raw, u.effect)
  <1>1. u.summary \in Summaries
    BY RunFields
  <1>2. LET t == [u.summary EXCEPT !.outcome = outcome, !.phase = phase]
        IN  t \in Summaries /\ t.raw = u.summary.raw
    BY <1>1, SetFailure
  <1> QED
    BY <1>2, LeavesMoves DEF Raises

-----------------------------------------------------------------------------
(* The inductive invariant: the run that has read the hashes it will replace *)
(* holds the lock alone, so what it has read is what it will replace; and a  *)
(* run that has not committed reports no counts.                             *)

Early == {"idle", "schema_check", "source_initialization", "fetch", "raw_upsert",
          "raw_locked"}
ReaderHoldsLock ==
    \A r \in Runs :
        run[r].at = "raw_locked" => lock = {r} /\ run[r].known = Payloads
EarlyUnreported ==
    \A r \in Runs : run[r].at \in Early => run[r].summary.raw = NoCounts
CountsInv == ReaderHoldsLock /\ EarlyUnreported /\ CountsExact

OthersTyped ==
    /\ lock \in SUBSET Runs
    /\ raw \in Tables
    /\ clean \in Tables
    /\ rows \in SUBSET [run : Runs, summary : Summaries]
    /\ pinged \in SUBSET Runs
    /\ overlapped \in BOOLEAN

\* A step of r that neither reads nor writes raw_jobs.
Quiet(r) ==
    /\ \E place \in Places \ {"raw_locked"} :
         /\ MovedTo(r, place, run[r].summary.raw, run[r].effect)
         /\ place \in Early => run[r].at \in Early
    /\ raw' = raw
    /\ lock' \in {lock, lock \ {r}}

\* Going on or raising with a record that reports what the run reported.
LEMMA QuietlyGoesOn ==
    ASSUME RunTyped, NEW r \in Runs, NEW u \in RunStates,
           u.summary.raw = run[r].summary.raw, u.effect = run[r].effect,
           NEW place \in Places \ {"raw_locked"},
           place \in Early => run[r].at \in Early,
           GoesOn(r, place, u), raw' = raw, lock' \in {lock, lock \ {r}}
    PROVE  Quiet(r)
  BY GoesOnMoves DEF Quiet

LEMMA QuietlyRaises ==
    ASSUME RunTyped, NEW r \in Runs, NEW u \in RunStates,
           u.summary.raw = run[r].summary.raw, u.effect = run[r].effect,
           NEW outcome \in Outcomes, NEW phase \in Phases,
           Raises(r, outcome, phase, u), raw' = raw, lock' \in {lock, lock \ {r}}
    PROVE  Quiet(r)
  BY RaisesMoves, PlacesOfSteps DEF Quiet, Early

LEMMA QuietlyLeaves ==
    ASSUME RunTyped, NEW r \in Runs, NEW u \in RunStates, NEW s \in Summaries,
           s.raw = run[r].summary.raw, u.effect = run[r].effect,
           NEW b \in BOOLEAN,
           Leaves(r, s, b, u), raw' = raw, lock' \in {lock, lock \ {r}}
    PROVE  Quiet(r)
  BY LeavesMoves, PlacesOfSteps DEF Quiet, Early

\* A quiet step keeps the invariant.
LEMMA QuietKeepsCounts ==
    ASSUME RunTyped, CountsInv, NEW r \in Runs, Quiet(r)
    PROVE  CountsInv'
  <1>1. PICK place \in Places \ {"raw_locked"} :
          /\ MovedTo(r, place, run[r].summary.raw, run[r].effect)
          /\ place \in Early => run[r].at \in Early
    BY DEF Quiet
  <1>2. raw' = raw /\ lock' \in {lock, lock \ {r}}
    BY DEF Quiet
  <1>3. Payloads' = Payloads
    BY <1>2 DEF Payloads
  <1>4. ReaderHoldsLock'
    BY <1>1, <1>2, <1>3 DEF CountsInv, ReaderHoldsLock, MovedTo
  <1>5. EarlyUnreported'
    BY <1>1 DEF CountsInv, EarlyUnreported, MovedTo
  <1>6. CountsExact'
    BY <1>1 DEF CountsInv, CountsExact, MovedTo
  <1> QED
    BY <1>4, <1>5, <1>6 DEF CountsInv

-----------------------------------------------------------------------------
(* The quiet actions.                                                       *)

LEMMA StartsQuiet ==
    ASSUME RunTyped, OthersTyped, NEW r \in Runs, Starts(r)
    PROVE  Quiet(r) /\ OthersTyped'
  <1>1. run[r] \in RunStates
    BY DEF RunTyped
  <1>2. run[r].at \in Early
    BY DEF Starts, Early
  <1>3. "schema_check" \in Places \ {"raw_locked"}
    BY PlacesOfSteps DEF InTry
  <1>4. Quiet(r)
    BY <1>1, <1>2, <1>3, QuietlyGoesOn DEF Starts, tables
  <1>5. (overlapped \/ \E s \in Runs : Active(s)) \in BOOLEAN
    OBVIOUS
  <1> QED
    BY <1>4, <1>5 DEF Starts, OthersTyped, tables

LEMMA ChecksSchemaQuiet ==
    ASSUME RunTyped, OthersTyped, NEW r \in Runs, ChecksSchema(r)
    PROVE  Quiet(r) /\ OthersTyped'
  <1>1. run[r] \in RunStates
    BY DEF RunTyped
  <1>2. OthersTyped' /\ raw' = raw /\ lock' = lock
    BY DEF ChecksSchema, OthersTyped, tables
  <1>3. CASE GoesOn(r, "source_initialization", run[r])
    <2>1. run[r].at \in Early
      BY DEF ChecksSchema, Early
    <2>2. "source_initialization" \in Places \ {"raw_locked"}
      BY PlacesOfSteps DEF InTry
    <2> QED
      BY <1>1, <1>2, <1>3, <2>1, <2>2, QuietlyGoesOn
  <1>4. ASSUME NEW outcome \in {"safety_aborted", "failed"},
               Raises(r, outcome, "schema_check", run[r])
        PROVE  Quiet(r)
    <2>1. outcome \in Outcomes /\ "schema_check" \in Phases
      BY DEF Outcomes, Phases
    <2> QED
      BY <1>1, <1>2, <1>4, <2>1, QuietlyRaises
  <1> QED
    BY <1>2, <1>3, <1>4 DEF ChecksSchema

LEMMA OpensSourceQuiet ==
    ASSUME RunTyped, OthersTyped, NEW r \in Runs, OpensSource(r)
    PROVE  Quiet(r) /\ OthersTyped'
  <1>1. run[r] \in RunStates
    BY DEF RunTyped
  <1>2. OthersTyped' /\ raw' = raw /\ lock' = lock
    BY DEF OpensSource, OthersTyped, tables
  <1>3. CASE GoesOn(r, "fetch", run[r])
    <2>1. run[r].at \in Early
      BY DEF OpensSource, Early
    <2>2. "fetch" \in Places \ {"raw_locked"}
      BY PlacesOfSteps DEF InTry
    <2> QED
      BY <1>1, <1>2, <1>3, <2>1, <2>2, QuietlyGoesOn
  <1>4. CASE Raises(r, "failed", "source_initialization", run[r])
    <2>1. "failed" \in Outcomes /\ "source_initialization" \in Phases
      BY DEF Outcomes, Phases
    <2> QED
      BY <1>1, <1>2, <1>4, <2>1, QuietlyRaises
  <1> QED
    BY <1>2, <1>3, <1>4 DEF OpensSource

LEMMA FetchesQuiet ==
    ASSUME RunTyped, OthersTyped, NEW r \in Runs, Fetches(r)
    PROVE  Quiet(r) /\ OthersTyped'
  <1>1. run[r] \in RunStates
    BY DEF RunTyped
  <1>2. OthersTyped' /\ raw' = raw /\ lock' = lock
    BY DEF Fetches, OthersTyped, tables
  <1>3. ASSUME NEW keys \in SUBSET Keys, NEW batch \in [keys -> Contents],
               GoesOn(r, "raw_upsert",
                      [run[r] EXCEPT !.batch = batch,
                                     !.summary.fetched = Cardinality(keys)])
        PROVE  Quiet(r)
    <2> DEFINE n == Cardinality(keys)
               v == [run[r] EXCEPT !.batch = batch, !.summary.fetched = n]
    <2>1. batch \in Batches /\ DOMAIN batch = keys
      BY BatchShape
    <2>2. n \in Counters
      BY <2>1, CountOfBatch
    <2>3. v \in RunStates /\ v.summary.raw = run[r].summary.raw
            /\ v.effect = run[r].effect
      <3> HIDE DEF n
      <3> QED
        BY <1>1, <2>1, <2>2 DEF RunStates, Summaries
    <2>4. run[r].at \in Early
      BY DEF Fetches, Early
    <2>5. "raw_upsert" \in Places \ {"raw_locked"}
      BY PlacesOfSteps DEF InTry
    <2>6. GoesOn(r, "raw_upsert", v)
      BY <1>3
    <2> HIDE DEF v
    <2> QED
      BY <1>2, <2>3, <2>4, <2>5, <2>6, QuietlyGoesOn
  <1>4. ASSUME NEW outcome \in {"safety_aborted", "failed"},
               Raises(r, outcome, "fetch", run[r])
        PROVE  Quiet(r)
    <2>1. outcome \in Outcomes /\ "fetch" \in Phases
      BY DEF Outcomes, Phases
    <2> QED
      BY <1>1, <1>2, <1>4, <2>1, QuietlyRaises
  <1> QED
    BY <1>2, <1>3, <1>4 DEF Fetches

LEMMA RawFailsQuiet ==
    ASSUME RunTyped, OthersTyped, NEW r \in Runs, RawFails(r)
    PROVE  Quiet(r) /\ OthersTyped'
  <1>1. run[r] \in RunStates
    BY DEF RunTyped
  <1>2. OthersTyped' /\ raw' = raw /\ lock' = lock \ {r}
    BY DEF RawFails, OthersTyped, tables
  <1>3. "failed" \in Outcomes /\ "raw_upsert" \in Phases
    BY DEF Outcomes, Phases
  <1> QED
    BY <1>1, <1>2, <1>3, QuietlyRaises DEF RawFails

LEMMA ScreensQuiet ==
    ASSUME RunTyped, OthersTyped, NEW r \in Runs, Screens(r)
    PROVE  Quiet(r) /\ OthersTyped'
  <1> DEFINE batch == run[r].batch
             fetched == Cardinality(DOMAIN batch)
             rejected == Cardinality(Rejected(batch))
             counted == [run[r] EXCEPT !.summary.skipped = rejected]
  <1>1. run[r] \in RunStates /\ batch \in Batches
    BY RunFields DEF RunTyped
  <1>2. OthersTyped' /\ raw' = raw /\ lock' = lock
    BY DEF Screens, OthersTyped, tables
  <1>3. rejected \in Counters
    BY <1>1, CountOfBatch DEF Rejected
  <1>4. counted \in RunStates /\ counted.summary.raw = run[r].summary.raw
          /\ counted.effect = run[r].effect
    BY <1>1, <1>3, SetSkipped
  <1>5. /\ "safety_aborted" \in Outcomes
        /\ "yield_check" \in Phases
        /\ "row_quality_check" \in Phases
    BY DEF Outcomes, Phases
  <1>6. "clean_upsert" \in Places \ {"raw_locked"} /\ "clean_upsert" \notin Early
    BY PlacesOfSteps DEF InTry, Early
  <1>7. \/ Raises(r, "safety_aborted", "yield_check", run[r])
        \/ Raises(r, "safety_aborted", "row_quality_check", counted)
        \/ GoesOn(r, "clean_upsert", counted)
    BY DEF Screens
  <1> HIDE DEF counted
  <1>8. CASE Raises(r, "safety_aborted", "yield_check", run[r])
    BY <1>1, <1>2, <1>5, <1>8, QuietlyRaises
  <1>9. CASE Raises(r, "safety_aborted", "row_quality_check", counted)
    BY <1>2, <1>4, <1>5, <1>9, QuietlyRaises
  <1>10. CASE GoesOn(r, "clean_upsert", counted)
    BY <1>2, <1>4, <1>6, <1>10, QuietlyGoesOn
  <1> QED
    BY <1>2, <1>7, <1>8, <1>9, <1>10

LEMMA CleanCommitsQuiet ==
    ASSUME RunTyped, OthersTyped, NEW r \in Runs, CleanCommits(r)
    PROVE  Quiet(r) /\ OthersTyped'
  <1> DEFINE accepted == Accepted(run[r].batch)
             done == [run[r] EXCEPT !.loaded = TRUE]
             completed == [done.summary EXCEPT !.outcome = "completed",
                             !.clean = Cardinality(DOMAIN accepted)]
  <1>1. run[r] \in RunStates /\ run[r].batch \in Batches /\ run[r].summary \in Summaries
    BY RunFields DEF RunTyped
  <1>2. accepted \in Batches
    BY <1>1, AcceptedTyped
  <1>3. OthersTyped' /\ raw' = raw /\ lock' = lock
    BY <1>2, UpsertTyped DEF CleanCommits, OthersTyped
  <1>4. done \in RunStates /\ done.summary = run[r].summary /\ done.effect = run[r].effect
    BY <1>1, SetLoaded
  <1>5. Cardinality(DOMAIN accepted) \in Counters
    BY <1>2, CountOfBatch
  <1>6. completed \in Summaries /\ completed.raw = run[r].summary.raw
    BY <1>1, <1>4, <1>5, SetCompleted
  <1>7. "failed" \in Outcomes /\ "clean_upsert" \in Phases
    BY DEF Outcomes, Phases
  <1>8. \/ \E returned \in BOOLEAN : Leaves(r, completed, returned, done)
        \/ Leaves(r, done.summary, FALSE, done)
        \/ Raises(r, "failed", "clean_upsert", done)
    BY DEF CleanCommits
  <1> HIDE DEF completed, done
  <1>9. ASSUME NEW returned \in BOOLEAN, Leaves(r, completed, returned, done)
        PROVE  Quiet(r)
    BY <1>3, <1>4, <1>6, <1>9, QuietlyLeaves
  <1>10. CASE Leaves(r, done.summary, FALSE, done)
    BY <1>1, <1>3, <1>4, <1>10, QuietlyLeaves
  <1>11. CASE Raises(r, "failed", "clean_upsert", done)
    BY <1>3, <1>4, <1>7, <1>11, QuietlyRaises
  <1> QED
    BY <1>3, <1>8, <1>9, <1>10, <1>11

LEMMA CleanFailsQuiet ==
    ASSUME RunTyped, OthersTyped, NEW r \in Runs, CleanFails(r)
    PROVE  Quiet(r) /\ OthersTyped'
  <1>1. run[r] \in RunStates
    BY DEF RunTyped
  <1>2. OthersTyped' /\ raw' = raw /\ lock' = lock
    BY DEF CleanFails, OthersTyped, tables
  <1>3. "failed" \in Outcomes /\ "clean_upsert" \in Phases
    BY DEF Outcomes, Phases
  <1> QED
    BY <1>1, <1>2, <1>3, QuietlyRaises DEF CleanFails

LEMMA PersistsQuiet ==
    ASSUME RunTyped, OthersTyped, NEW r \in Runs, Persists(r)
    PROVE  Quiet(r) /\ OthersTyped'
  <1>1. run[r] \in RunStates /\ run[r].summary \in Summaries
    BY RunFields DEF RunTyped
  <1>2. OthersTyped' /\ raw' = raw /\ lock' = lock
    BY <1>1 DEF Persists, OthersTyped
  <1>3. PICK place \in {"reporting", "exited"} : GoesOn(r, place, run[r])
    BY DEF Persists
  <1>4. place \in Places \ {"raw_locked"} /\ place \notin Early
    BY PlacesOfSteps DEF Early
  <1> QED
    BY <1>1, <1>2, <1>3, <1>4, QuietlyGoesOn

LEMMA PingsQuiet ==
    ASSUME RunTyped, OthersTyped, NEW r \in Runs, Pings(r)
    PROVE  Quiet(r) /\ OthersTyped'
  <1>1. run[r] \in RunStates
    BY DEF RunTyped
  <1>2. OthersTyped' /\ raw' = raw /\ lock' = lock
    BY DEF Pings, OthersTyped
  <1>3. "exited" \in Places \ {"raw_locked"} /\ "exited" \notin Early
    BY PlacesOfSteps DEF Early
  <1> QED
    BY <1>1, <1>2, <1>3, QuietlyGoesOn DEF Pings

LEMMA InterruptedQuiet ==
    ASSUME RunTyped, OthersTyped, NEW r \in Runs, Interrupted(r)
    PROVE  Quiet(r) /\ OthersTyped'
  <1>1. run[r] \in RunStates /\ run[r].summary \in Summaries
    BY RunFields DEF RunTyped
  <1>2. OthersTyped' /\ raw' = raw /\ lock' = lock \ {r}
    BY DEF Interrupted, OthersTyped, tables
  <1>3. Leaves(r, run[r].summary, FALSE, run[r])
    BY DEF Interrupted
  <1> QED
    BY <1>1, <1>2, <1>3, QuietlyLeaves

LEMMA KilledQuiet ==
    ASSUME RunTyped, OthersTyped, NEW r \in Runs, Killed(r)
    PROVE  Quiet(r) /\ OthersTyped'
  <1>1. run[r] \in RunStates
    BY DEF RunTyped
  <1>2. OthersTyped' /\ raw' = raw /\ lock' = lock \ {r}
    BY DEF Killed, OthersTyped, tables
  <1>3. "dead" \in Places \ {"raw_locked"} /\ "dead" \notin Early
    BY PlacesOfSteps DEF Early
  <1> QED
    BY <1>1, <1>2, <1>3, QuietlyGoesOn DEF Killed


-----------------------------------------------------------------------------
(* The actions of the raw upsert.                                           *)

LEMMA RawSkipsKeeps ==
    ASSUME RunTyped, OthersTyped, CountsInv, NEW r \in Runs, RawSkips(r)
    PROVE  RunTyped' /\ OthersTyped' /\ CountsInv'
  <1> DEFINE none == Classify(NoRow, NoRow)
             v == [run[r] EXCEPT !.summary.raw = none, !.effect = none]
  <1>1. run[r] \in RunStates
    BY DEF RunTyped
  <1>2. OthersTyped' /\ raw' = raw /\ lock' = lock
    BY DEF RawSkips, OthersTyped, tables
  <1>3. none \in RawCounts
    BY EmptyTyped, ClassifyTyped
  <1>4. v \in RunStates /\ v.summary.raw = none /\ v.effect = none
    <2> HIDE DEF none
    <2> QED
      BY <1>1, <1>3, SetCounted
  <1>5. GoesOn(r, "screening", v)
    BY DEF RawSkips
  <1>6. "screening" \in Places /\ "screening" \notin Early
    BY PlacesOfSteps DEF InTry, Early
  <1> HIDE DEF v, none
  <1>7. MovedTo(r, "screening", none, none)
    BY <1>4, <1>5, <1>6, GoesOnMoves
  <1>8. ReaderHoldsLock'
    BY <1>2, <1>7 DEF CountsInv, ReaderHoldsLock, MovedTo, Payloads
  <1>9. EarlyUnreported' /\ CountsExact'
    BY <1>6, <1>7 DEF CountsInv, EarlyUnreported, CountsExact, MovedTo
  <1> QED
    BY <1>2, <1>7, <1>8, <1>9 DEF CountsInv, MovedTo

\* The lock is free, so no other run is between its read and its commit.
LEMMA RawLocksKeeps ==
    ASSUME RunTyped, OthersTyped, CountsInv, NEW r \in Runs, RawLocks(r)
    PROVE  RunTyped' /\ OthersTyped' /\ CountsInv'
  <1> DEFINE v == [run[r] EXCEPT !.known = Payloads]
  <1>1. run[r] \in RunStates
    BY DEF RunTyped
  <1>2. OthersTyped' /\ raw' = raw /\ lock = {} /\ lock' = {r}
    BY DEF RawLocks, OthersTyped, tables
  <1>3. Payloads \in Batches
    BY PayloadsTyped DEF OthersTyped
  <1>4. v \in RunStates /\ v.known = Payloads /\ v.summary = run[r].summary
          /\ v.effect = run[r].effect
    BY <1>1, <1>3, SetKnown
  <1>5. GoesOn(r, "raw_locked", v)
    BY DEF RawLocks
  <1>6. "raw_locked" \in Places
    BY PlacesOfSteps DEF InTry
  <1> HIDE DEF v
  <1>7. MovedTo(r, "raw_locked", run[r].summary.raw, run[r].effect)
          /\ run'[r].known = Payloads
    BY <1>4, <1>5, <1>6, GoesOnMoves
  <1>8. ReaderHoldsLock'
    <2>1. Payloads' = Payloads
      BY <1>2 DEF Payloads
    <2>2. \A s \in Runs : run[s].at # "raw_locked"
      BY <1>2 DEF CountsInv, ReaderHoldsLock
    <2> QED
      BY <1>2, <1>7, <2>1, <2>2 DEF ReaderHoldsLock, MovedTo
  <1>9. EarlyUnreported' /\ CountsExact'
    <2>1. run[r].at \in Early
      BY DEF RawLocks, Early
    <2> QED
      BY <1>7, <2>1 DEF CountsInv, EarlyUnreported, CountsExact, MovedTo
  <1> QED
    BY <1>2, <1>7, <1>8, <1>9 DEF CountsInv, MovedTo

\* The run holds the lock alone, so no other run has read what it replaces, and
\* what it read is what it replaces.
LEMMA RawCommitsKeeps ==
    ASSUME RunTyped, OthersTyped, CountsInv, NEW r \in Runs, RawCommits(r)
    PROVE  RunTyped' /\ OthersTyped' /\ CountsInv'
  <1> DEFINE effect == Classify(Payloads, run[r].batch)
             done == [run[r] EXCEPT !.effect = effect]
             v == [done EXCEPT !.summary.raw = effect]
  <1>1. /\ run[r] \in RunStates
        /\ run[r].batch \in Batches
        /\ run[r].summary \in Summaries
    BY RunFields DEF RunTyped
  <1>2. run[r].at = "raw_locked" /\ run[r].summary.raw = NoCounts
    BY DEF RawCommits, CountsInv, EarlyUnreported, Early
  <1>3. lock = {r} /\ run[r].known = Payloads
    BY <1>2 DEF CountsInv, ReaderHoldsLock
  <1>4. OthersTyped'
    BY <1>1, UpsertTyped DEF RawCommits, OthersTyped
  <1>5. effect \in RawCounts
    BY <1>1, ClassifyTyped
  <1>6. done \in RunStates /\ done.summary = run[r].summary /\ done.effect = effect
    BY <1>1, <1>5, SetEffect
  <1>7. v \in RunStates /\ v.summary.raw = effect /\ v.effect = effect
    <2> HIDE DEF done
    <2> QED
      BY <1>5, <1>6, SetRaw
  <1>8. \/ GoesOn(r, "screening", v)
        \/ Raises(r, "failed", "raw_upsert", done)
        \/ Leaves(r, done.summary, FALSE, done)
    BY <1>3 DEF RawCommits
  <1> HIDE DEF v, done, effect
  <1>9. PICK place \in {"screening", "persisting"}, counts \in {effect, NoCounts} :
          MovedTo(r, place, counts, effect)
    <2>1. CASE GoesOn(r, "screening", v)
      <3>1. "screening" \in Places
        BY PlacesOfSteps DEF InTry
      <3> QED
        BY <1>7, <2>1, <3>1, GoesOnMoves
    <2>2. CASE Raises(r, "failed", "raw_upsert", done)
      <3>1. "failed" \in Outcomes /\ "raw_upsert" \in Phases
        BY DEF Outcomes, Phases
      <3> QED
        BY <1>2, <1>6, <2>2, <3>1, RaisesMoves
    <2>3. CASE Leaves(r, done.summary, FALSE, done)
      BY <1>1, <1>2, <1>6, <2>3, LeavesMoves
    <2> QED
      BY <1>8, <2>1, <2>2, <2>3
  <1>10. \A s \in Runs : run'[s].at # "raw_locked"
    <2>1. \A s \in Runs \ {r} : run[s].at # "raw_locked"
      BY <1>3 DEF CountsInv, ReaderHoldsLock
    <2> QED
      BY <1>9, <2>1 DEF MovedTo
  <1>11. ReaderHoldsLock'
    BY <1>10 DEF ReaderHoldsLock
  <1>12. EarlyUnreported' /\ CountsExact'
    BY <1>9 DEF CountsInv, EarlyUnreported, CountsExact, MovedTo, Early
  <1> QED
    BY <1>4, <1>9, <1>11, <1>12 DEF CountsInv, MovedTo

-----------------------------------------------------------------------------
(* The specification.                                                       *)

IngestionInv == RunTyped /\ OthersTyped /\ CountsInv

LEMMA InitEstablishes == Init => IngestionInv
  <1> SUFFICES ASSUME Init PROVE IngestionInv
    OBVIOUS
  <1>1. NoCounts \in RawCounts
    BY DEF NoCounts, RawCounts, Counters
  <1>2. EmptySummary \in Summaries
    BY <1>1 DEF EmptySummary, Summaries, Outcomes, Phases, Counters
  <1>3. "idle" \in Places
    BY DEF Places, Idle
  <1>4. RunTyped
    BY <1>1, <1>2, <1>3, EmptyTyped DEF Init, RunTyped, RunStates
  <1>5. OthersTyped
    BY EmptyTyped DEF Init, OthersTyped
  <1>6. CountsInv
    BY DEF Init, CountsInv, ReaderHoldsLock, EarlyUnreported, CountsExact, EmptySummary
  <1> QED
    BY <1>4, <1>5, <1>6 DEF IngestionInv

LEMMA StepKeeps == IngestionInv /\ [Next]_vars => IngestionInv'
  <1> SUFFICES ASSUME IngestionInv, [Next]_vars PROVE IngestionInv'
    OBVIOUS
  <1>1. RunTyped /\ OthersTyped /\ CountsInv
    BY DEF IngestionInv
  <1>2. ASSUME NEW r \in Runs, Quiet(r), OthersTyped'
        PROVE  IngestionInv'
    BY <1>1, <1>2, QuietKeepsCounts DEF IngestionInv, Quiet, MovedTo
  <1>3. CASE UNCHANGED vars
    BY <1>1, <1>3 DEF vars, tables, IngestionInv, RunTyped, OthersTyped, CountsInv,
       ReaderHoldsLock, EarlyUnreported, CountsExact, Payloads
  <1>4. ASSUME NEW r \in Runs, Starts(r)
        PROVE  IngestionInv'
    BY <1>1, <1>2, <1>4, StartsQuiet
  <1>5. ASSUME NEW r \in Runs, Progresses(r)
        PROVE  IngestionInv'
    <2>1. CASE ChecksSchema(r)
      BY <1>1, <1>2, <2>1, ChecksSchemaQuiet
    <2>2. CASE OpensSource(r)
      BY <1>1, <1>2, <2>2, OpensSourceQuiet
    <2>3. CASE Fetches(r)
      BY <1>1, <1>2, <2>3, FetchesQuiet
    <2>4. CASE RawSkips(r)
      BY <1>1, <2>4, RawSkipsKeeps DEF IngestionInv
    <2>5. CASE RawLocks(r)
      BY <1>1, <2>5, RawLocksKeeps DEF IngestionInv
    <2>6. CASE RawCommits(r)
      BY <1>1, <2>6, RawCommitsKeeps DEF IngestionInv
    <2>7. CASE Screens(r)
      BY <1>1, <1>2, <2>7, ScreensQuiet
    <2>8. CASE CleanCommits(r)
      BY <1>1, <1>2, <2>8, CleanCommitsQuiet
    <2>9. CASE Persists(r)
      BY <1>1, <1>2, <2>9, PersistsQuiet
    <2>10. CASE Pings(r)
      BY <1>1, <1>2, <2>10, PingsQuiet
    <2> QED
      BY <1>5, <2>1, <2>2, <2>3, <2>4, <2>5, <2>6, <2>7, <2>8, <2>9, <2>10
         DEF Progresses
  <1>6. ASSUME NEW r \in Runs, RawFails(r) \/ CleanFails(r)
        PROVE  IngestionInv'
    BY <1>1, <1>2, <1>6, RawFailsQuiet, CleanFailsQuiet
  <1>7. ASSUME NEW r \in Runs, Interrupted(r) \/ Killed(r)
        PROVE  IngestionInv'
    BY <1>1, <1>2, <1>7, InterruptedQuiet, KilledQuiet
  <1>8. CASE AllOver
    BY <1>3, <1>8 DEF AllOver
  <1> QED
    BY <1>3, <1>4, <1>5, <1>6, <1>7, <1>8 DEF Next

LEMMA AlwaysIngestionInv == Spec => []IngestionInv
  BY InitEstablishes, StepKeeps, PTL DEF Spec

\* Every variable of the job keeps its type, whichever runs fail, are
\* interrupted, die or overlap (services/ingestion/loader.py, raw_store.py,
\* clean_store.py, run_store.py).
THEOREM IngestionTypeCorrect == Spec => []TypeOK
  <1>1. IngestionInv => TypeOK
    BY DEF IngestionInv, RunTyped, OthersTyped, TypeOK
  <1> QED
    BY <1>1, AlwaysIngestionInv, PTL

\* What a run reports of its raw upsert is what its commit did to raw_jobs, for
\* any number of overlapping runs: the advisory lock of upsert_raw_postings
\* (services/ingestion/raw_store.py) spans the read and the commit.
THEOREM CountsAlwaysExact == Spec => []CountsExact
  <1>1. IngestionInv => CountsExact
    BY DEF IngestionInv, CountsInv
  <1> QED
    BY <1>1, AlwaysIngestionInv, PTL

-----------------------------------------------------------------------------
(* Counting a batch.                                                        *)

Sum(counts) == counts["new"] + counts["changed"] + counts["unchanged"]

\* The classification of a batch counts every posting once.
LEMMA ClassifySums ==
    ASSUME NEW t, NEW b \in Batches
    PROVE  /\ Sum(Classify(t, b)) = Cardinality(DOMAIN b)
           /\ Classify(t, b) # NoCounts
  <1> DEFINE old == DOMAIN t \cap DOMAIN b
             same == {k \in old : t[k] = b[k]}
  <1>1. IsFiniteSet(DOMAIN b) /\ IsFiniteSet(old) /\ IsFiniteSet(same)
    BY BatchShape, FS_Subset
  <1>2. Cardinality(DOMAIN b \ old) = Cardinality(DOMAIN b) - Cardinality(old)
    <2>1. DOMAIN b \cap old = old
      OBVIOUS
    <2> QED
      BY <1>1, <2>1, FS_Difference
  <1>3. Cardinality(old \ same) = Cardinality(old) - Cardinality(same)
    <2>1. old \cap same = same
      OBVIOUS
    <2> QED
      BY <1>1, <2>1, FS_Difference
  <1>4. /\ Cardinality(DOMAIN b) \in Nat
        /\ Cardinality(old) \in Nat
        /\ Cardinality(same) \in Nat
    BY <1>1, FS_CardinalityType
  <1>5. /\ Classify(t, b)["new"] = Cardinality(DOMAIN b \ old)
        /\ Classify(t, b)["changed"] = Cardinality(old \ same)
        /\ Classify(t, b)["unchanged"] = Cardinality(same)
    BY DEF Classify, Counts
  <1>6. NoCounts["unchanged"] = -1
    BY DEF NoCounts, Null, Counts
  <1> HIDE DEF old, same
  <1> QED
    BY <1>2, <1>3, <1>4, <1>5, <1>6 DEF Sum

\* What is accepted of a batch and what is rejected make up the batch.
LEMMA AcceptedSums ==
    ASSUME NEW b \in Batches
    PROVE  /\ Cardinality(DOMAIN b) \in Nat
           /\ Cardinality(Rejected(b)) \in Nat
           /\ Cardinality(DOMAIN Accepted(b))
                = Cardinality(DOMAIN b) - Cardinality(Rejected(b))
           /\ Cardinality(DOMAIN b) = 0 => Cardinality(Rejected(b)) = 0
  <1>1. IsFiniteSet(DOMAIN b) /\ Rejected(b) \in SUBSET DOMAIN b
    BY BatchShape DEF Rejected
  <1>2. DOMAIN b \cap Rejected(b) = Rejected(b)
    BY <1>1
  <1>3. DOMAIN Accepted(b) = DOMAIN b \ Rejected(b)
    BY DEF Accepted
  <1>4. /\ Cardinality(DOMAIN b) \in Nat
        /\ Cardinality(Rejected(b)) \in Nat
        /\ Cardinality(Rejected(b)) <= Cardinality(DOMAIN b)
    BY <1>1, FS_CardinalityType, FS_Subset
  <1>5. Cardinality(DOMAIN b \ Rejected(b))
          = Cardinality(DOMAIN b) - Cardinality(Rejected(b))
    BY <1>1, <1>2, FS_Difference
  <1> QED
    BY <1>3, <1>4, <1>5

\* A count that is not above the ratio is within it; of none, none is dropped.
LEMMA WithinRatio ==
    ASSUME NEW m \in Nat, NEW n \in Nat, n = 0 => m = 0, ~AboveRatio(m, n)
    PROVE  m * MaxRejected.den <= MaxRejected.num * n
  <1> DEFINE x == m * MaxRejected.den
             y == MaxRejected.num * n
  <1>1. MaxRejected.den \in Nat /\ MaxRejected.num \in Nat
    BY SafetyAssumption
  <1>2. x \in Nat /\ y \in Nat
    BY <1>1
  <1>3. CASE n = 0
    BY <1>1, <1>3
  <1>4. CASE n # 0
    <2>1. ~(x > y)
      BY <1>4 DEF AboveRatio
    <2> HIDE DEF x, y
    <2>2. x <= y
      BY <1>2, <2>1
    <2> QED
      BY <2>2 DEF x, y
  <1> QED
    BY <1>3, <1>4

-----------------------------------------------------------------------------
(* What is true of a run wherever it is.                                    *)

BeforeUpsert == {"idle", "schema_check", "source_initialization", "fetch",
                 "raw_upsert", "raw_locked"}
WithBatch == {"raw_upsert", "raw_locked", "screening", "clean_upsert"}
Ended == {"reporting", "exited", "dead"}

\* The batch is within both safety bounds.
Passed(batch) ==
    /\ Cardinality(DOMAIN batch) >= MinYield
    /\ Cardinality(Rejected(batch)) * MaxRejected.den
         <= MaxRejected.num * Cardinality(DOMAIN batch)

\* The counts of a summary add up, within both safety bounds.
AddsUp(s) ==
    /\ s.fetched = Sum(s.raw)
    /\ s.fetched = s.clean + s.skipped
    /\ s.fetched >= MinYield
    /\ s.skipped * MaxRejected.den <= MaxRejected.num * s.fetched

\* Inside the `try` nothing is decided yet, and the summary says how far it got.
Underway(u) ==
    /\ u.at \in {"idle"} \cup InTry =>
         u.summary.outcome = "failed" /\ ~u.loaded /\ ~u.returned
    /\ u.at \in BeforeUpsert => u.effect = NoCounts
    /\ u.at \in WithBatch => u.summary.fetched = Cardinality(DOMAIN u.batch)
    /\ u.at \in {"screening", "clean_upsert"} =>
         /\ u.effect # NoCounts
         /\ u.summary.fetched = Sum(u.summary.raw)
    /\ u.at = "clean_upsert" =>
         /\ Passed(u.batch)
         /\ u.summary.skipped = Cardinality(Rejected(u.batch))

\* Once it is decided, the outcome says what the run has done.
Decided(u) ==
    /\ u.summary.outcome = "completed" => u.loaded /\ AddsUp(u.summary)
    /\ u.summary.outcome = "safety_aborted" =>
         /\ ~u.loaded
         /\ u.summary.phase \in {"yield_check", "row_quality_check"}
              <=> u.effect # NoCounts
    /\ u.returned => u.summary.outcome = "completed"
    /\ u.loaded => Passed(u.batch)
    /\ u.at = "reporting" => u.returned

RunSound(u) == Underway(u) /\ Decided(u)

\* What a step of a run never takes back.
Follows(u, v) ==
    /\ u.loaded => v.loaded /\ v.batch = u.batch
    /\ u.returned => v.returned
    /\ u.at \in Ended => v.at \in Ended /\ v.summary = u.summary

\* The run is in a sound state that follows the one before.
SoundStep(r) ==
    \E v \in RunStates :
        run' = [run EXCEPT ![r] = v] /\ RunSound(v) /\ Follows(run[r], v)

-----------------------------------------------------------------------------
(* Going on, raising and leaving, in all the fields of the run.             *)

\* A run that moves on keeps all but its place.
LEMMA GoesOnKeeps ==
    ASSUME NEW r \in Runs, NEW u \in RunStates, NEW place \in Places,
           GoesOn(r, place, u)
    PROVE  \E v \in RunStates :
             /\ run' = [run EXCEPT ![r] = v]
             /\ v.at = place
             /\ v.batch = u.batch
             /\ v.summary = u.summary
             /\ v.returned = u.returned
             /\ v.effect = u.effect
             /\ v.loaded = u.loaded
  <1> DEFINE v == [u EXCEPT !.at = place]
  <1>1. /\ v \in RunStates
        /\ v.at = place
        /\ v.batch = u.batch
        /\ v.summary = u.summary
        /\ v.returned = u.returned
        /\ v.effect = u.effect
        /\ v.loaded = u.loaded
    BY DEF RunStates
  <1>2. run' = [run EXCEPT ![r] = v]
    BY DEF GoesOn
  <1> HIDE DEF v
  <1> QED
    BY <1>1, <1>2

\* A run that leaves the `try` takes the summary and says whether it returned.
LEMMA LeavesKeeps ==
    ASSUME NEW r \in Runs, NEW u \in RunStates, NEW s \in Summaries,
           NEW b \in BOOLEAN, Leaves(r, s, b, u)
    PROVE  \E v \in RunStates :
             /\ run' = [run EXCEPT ![r] = v]
             /\ v.at = "persisting"
             /\ v.batch = u.batch
             /\ v.summary = s
             /\ v.returned = b
             /\ v.effect = u.effect
             /\ v.loaded = u.loaded
  <1> DEFINE v == [u EXCEPT !.at = "persisting", !.summary = s, !.returned = b]
  <1>1. "persisting" \in Places
    BY DEF Places
  <1>2. /\ v \in RunStates
        /\ v.at = "persisting"
        /\ v.batch = u.batch
        /\ v.summary = s
        /\ v.returned = b
        /\ v.effect = u.effect
        /\ v.loaded = u.loaded
    BY <1>1 DEF RunStates
  <1>3. run' = [run EXCEPT ![r] = v]
    BY DEF Leaves
  <1> HIDE DEF v
  <1> QED
    BY <1>2, <1>3

\* A run that raises fails or aborts in a phase, and does not return.
LEMMA RaisesKeeps ==
    ASSUME NEW r \in Runs, NEW u \in RunStates, NEW outcome \in Outcomes,
           NEW phase \in Phases, Raises(r, outcome, phase, u)
    PROVE  \E v \in RunStates :
             /\ run' = [run EXCEPT ![r] = v]
             /\ v.at = "persisting"
             /\ v.batch = u.batch
             /\ v.summary.outcome = outcome
             /\ v.summary.phase = phase
             /\ ~v.returned
             /\ v.effect = u.effect
             /\ v.loaded = u.loaded
  <1> DEFINE s == [u.summary EXCEPT !.outcome = outcome, !.phase = phase]
  <1>1. u.summary \in Summaries
    BY RunFields
  <1>2. s \in Summaries /\ s.outcome = outcome /\ s.phase = phase
    BY <1>1 DEF Summaries
  <1> DEFINE v == [u EXCEPT !.at = "persisting", !.summary = s, !.returned = FALSE]
  <1>3. run' = [run EXCEPT ![r] = v]
    BY DEF Raises, Leaves
  <1>4. "persisting" \in Places
    BY DEF Places
  <1> HIDE DEF s
  <1>5. /\ v \in RunStates
        /\ v.at = "persisting"
        /\ v.batch = u.batch
        /\ v.summary = s
        /\ ~v.returned
        /\ v.effect = u.effect
        /\ v.loaded = u.loaded
    BY <1>2, <1>4 DEF RunStates
  <1> HIDE DEF v
  <1> QED
    BY <1>2, <1>3, <1>5

\* A run that goes on, from inside the `try` to inside it, is sound if it has
\* done there what its new place says.
LEMMA SoundlyGoesOn ==
    ASSUME NEW r \in Runs, run[r] \in RunStates, RunSound(run[r]),
           run[r].at \in {"idle"} \cup InTry,
           NEW u \in RunStates, NEW place \in InTry,
           u.summary.outcome = run[r].summary.outcome,
           u.returned = run[r].returned, u.loaded = run[r].loaded,
           place \in BeforeUpsert => u.effect = NoCounts,
           place \in WithBatch => u.summary.fetched = Cardinality(DOMAIN u.batch),
           place \in {"screening", "clean_upsert"} =>
             u.effect # NoCounts /\ u.summary.fetched = Sum(u.summary.raw),
           place = "clean_upsert" =>
             /\ Passed(u.batch)
             /\ u.summary.skipped = Cardinality(Rejected(u.batch)),
           GoesOn(r, place, u)
    PROVE  SoundStep(r)
  <1>1. PICK v \in RunStates :
          /\ run' = [run EXCEPT ![r] = v]
          /\ v.at = place
          /\ v.batch = u.batch
          /\ v.summary = u.summary
          /\ v.returned = u.returned
          /\ v.effect = u.effect
          /\ v.loaded = u.loaded
    BY PlacesOfSteps, GoesOnKeeps
  <1>2. run[r].summary.outcome = "failed" /\ ~run[r].loaded /\ ~run[r].returned
    BY DEF RunSound, Underway
  <1>3. run[r].at \notin Ended /\ place # "reporting"
    BY DEF InTry, Ended
  <1>4. Underway(v)
    BY <1>1, <1>2 DEF Underway
  <1>5. Decided(v) /\ Follows(run[r], v)
    BY <1>1, <1>2, <1>3 DEF Decided, Follows
  <1> QED
    BY <1>1, <1>4, <1>5 DEF SoundStep, RunSound

\* A run that fails is sound; one that aborts, if its phase says whether it has
\* landed its payloads.
LEMMA SoundlyRaises ==
    ASSUME NEW r \in Runs, run[r] \in RunStates, RunSound(run[r]),
           run[r].at \in InTry,
           NEW u \in RunStates, u.loaded => Passed(u.batch),
           NEW outcome \in {"safety_aborted", "failed"}, NEW phase \in Phases,
           outcome = "safety_aborted" =>
             /\ ~u.loaded
             /\ phase \in {"yield_check", "row_quality_check"} <=> u.effect # NoCounts,
           Raises(r, outcome, phase, u)
    PROVE  SoundStep(r)
  <1>1. outcome \in Outcomes
    BY DEF Outcomes
  <1>2. PICK v \in RunStates :
          /\ run' = [run EXCEPT ![r] = v]
          /\ v.at = "persisting"
          /\ v.batch = u.batch
          /\ v.summary.outcome = outcome
          /\ v.summary.phase = phase
          /\ ~v.returned
          /\ v.effect = u.effect
          /\ v.loaded = u.loaded
    BY <1>1, RaisesKeeps
  <1>3. ~run[r].loaded /\ ~run[r].returned /\ run[r].at \notin Ended
    BY DEF RunSound, Underway, InTry, Ended
  <1>4. Underway(v)
    BY <1>2 DEF Underway, InTry, BeforeUpsert, WithBatch
  <1>5. Decided(v) /\ Follows(run[r], v)
    BY <1>2, <1>3 DEF Decided, Follows
  <1> QED
    BY <1>2, <1>4, <1>5 DEF SoundStep, RunSound

\* A run that leaves with a summary of its own.
LEMMA SoundlyLeaves ==
    ASSUME NEW r \in Runs, run[r] \in RunStates, RunSound(run[r]),
           run[r].at \in InTry,
           NEW u \in RunStates, u.loaded => Passed(u.batch),
           NEW s \in Summaries, NEW b \in BOOLEAN,
           s.outcome \in {"completed", "failed"},
           s.outcome = "completed" => u.loaded /\ AddsUp(s),
           b => s.outcome = "completed",
           Leaves(r, s, b, u)
    PROVE  SoundStep(r)
  <1>1. PICK v \in RunStates :
          /\ run' = [run EXCEPT ![r] = v]
          /\ v.at = "persisting"
          /\ v.batch = u.batch
          /\ v.summary = s
          /\ v.returned = b
          /\ v.effect = u.effect
          /\ v.loaded = u.loaded
    BY LeavesKeeps
  <1>2. ~run[r].loaded /\ ~run[r].returned /\ run[r].at \notin Ended
    BY DEF RunSound, Underway, InTry, Ended
  <1>3. Underway(v)
    BY <1>1 DEF Underway, InTry, BeforeUpsert, WithBatch
  <1>4. Decided(v) /\ Follows(run[r], v)
    BY <1>1, <1>2 DEF Decided, Follows
  <1> QED
    BY <1>1, <1>3, <1>4 DEF SoundStep, RunSound

-----------------------------------------------------------------------------
(* Each action is a sound step of its run.                                  *)

AllSound == \A r \in Runs : RunSound(run[r])

LEMMA StartsSound ==
    ASSUME RunTyped, AllSound, NEW r \in Runs, Starts(r)
    PROVE  SoundStep(r)
  <1>1. run[r] \in RunStates /\ RunSound(run[r]) /\ run[r].at = "idle"
    BY DEF RunTyped, AllSound, Starts
  <1>2. run[r].effect = NoCounts
    BY <1>1 DEF RunSound, Underway, BeforeUpsert
  <1>3. GoesOn(r, "schema_check", run[r])
    BY DEF Starts
  <1> QED
    BY <1>1, <1>2, <1>3, SoundlyGoesOn DEF InTry, WithBatch

LEMMA ChecksSchemaSound ==
    ASSUME RunTyped, AllSound, NEW r \in Runs, ChecksSchema(r)
    PROVE  SoundStep(r)
  <1>1. run[r] \in RunStates /\ RunSound(run[r]) /\ run[r].at = "schema_check"
    BY DEF RunTyped, AllSound, ChecksSchema
  <1>2. run[r].effect = NoCounts /\ ~run[r].loaded
    BY <1>1 DEF RunSound, Underway, BeforeUpsert, InTry
  <1>3. CASE GoesOn(r, "source_initialization", run[r])
    BY <1>1, <1>2, <1>3, SoundlyGoesOn DEF InTry, WithBatch
  <1>4. ASSUME NEW outcome \in {"safety_aborted", "failed"},
               Raises(r, outcome, "schema_check", run[r])
        PROVE  SoundStep(r)
    BY <1>1, <1>2, <1>4, SoundlyRaises DEF InTry, Phases
  <1> QED
    BY <1>3, <1>4 DEF ChecksSchema

LEMMA OpensSourceSound ==
    ASSUME RunTyped, AllSound, NEW r \in Runs, OpensSource(r)
    PROVE  SoundStep(r)
  <1>1. /\ run[r] \in RunStates
        /\ RunSound(run[r])
        /\ run[r].at = "source_initialization"
    BY DEF RunTyped, AllSound, OpensSource
  <1>2. run[r].effect = NoCounts /\ ~run[r].loaded
    BY <1>1 DEF RunSound, Underway, BeforeUpsert, InTry
  <1>3. CASE GoesOn(r, "fetch", run[r])
    BY <1>1, <1>2, <1>3, SoundlyGoesOn DEF InTry, WithBatch
  <1>4. CASE Raises(r, "failed", "source_initialization", run[r])
    BY <1>1, <1>2, <1>4, SoundlyRaises DEF InTry, Phases
  <1> QED
    BY <1>3, <1>4 DEF OpensSource

LEMMA FetchesSound ==
    ASSUME RunTyped, AllSound, NEW r \in Runs, Fetches(r)
    PROVE  SoundStep(r)
  <1>1. run[r] \in RunStates /\ RunSound(run[r]) /\ run[r].at = "fetch"
    BY DEF RunTyped, AllSound, Fetches
  <1>2. run[r].effect = NoCounts /\ ~run[r].loaded
    BY <1>1 DEF RunSound, Underway, BeforeUpsert, InTry
  <1>3. ASSUME NEW keys \in SUBSET Keys, NEW batch \in [keys -> Contents],
               GoesOn(r, "raw_upsert",
                      [run[r] EXCEPT !.batch = batch,
                                     !.summary.fetched = Cardinality(keys)])
        PROVE  SoundStep(r)
    <2> DEFINE n == Cardinality(keys)
               u == [run[r] EXCEPT !.batch = batch, !.summary.fetched = n]
    <2>1. batch \in Batches /\ DOMAIN batch = keys
      BY BatchShape
    <2>2. n \in Counters /\ n = Cardinality(DOMAIN batch)
      BY <2>1, CountOfBatch
    <2>3. /\ u \in RunStates
          /\ u.batch = batch
          /\ u.summary.fetched = n
          /\ u.summary.outcome = run[r].summary.outcome
          /\ u.returned = run[r].returned
          /\ u.loaded = run[r].loaded
          /\ u.effect = run[r].effect
      <3> HIDE DEF n
      <3> QED
        BY <1>1, <2>1, <2>2 DEF RunStates, Summaries
    <2>4. GoesOn(r, "raw_upsert", u)
      BY <1>3
    <2> HIDE DEF u, n
    <2> QED
      BY <1>1, <1>2, <2>2, <2>3, <2>4, SoundlyGoesOn DEF InTry
  <1>4. ASSUME NEW outcome \in {"safety_aborted", "failed"},
               Raises(r, outcome, "fetch", run[r])
        PROVE  SoundStep(r)
    BY <1>1, <1>2, <1>4, SoundlyRaises DEF InTry, Phases
  <1> QED
    BY <1>3, <1>4 DEF Fetches

LEMMA RawSkipsSound ==
    ASSUME RunTyped, AllSound, NEW r \in Runs, RawSkips(r)
    PROVE  SoundStep(r)
  <1> DEFINE none == Classify(NoRow, NoRow)
             u == [run[r] EXCEPT !.summary.raw = none, !.effect = none]
  <1>1. run[r] \in RunStates /\ RunSound(run[r]) /\ run[r].at = "raw_upsert"
    BY DEF RunTyped, AllSound, RawSkips
  <1>2. run[r].summary.fetched = Cardinality(DOMAIN run[r].batch)
    BY <1>1 DEF RunSound, Underway, WithBatch
  <1>3. /\ none \in RawCounts
        /\ none # NoCounts
        /\ Sum(none) = Cardinality(DOMAIN NoRow)
    BY EmptyTyped, ClassifyTyped, ClassifySums
  <1>4. DOMAIN run[r].batch = {} /\ DOMAIN NoRow = {}
    BY DEF RawSkips, NoRow
  <1>5. /\ u \in RunStates
        /\ u.batch = run[r].batch
        /\ u.summary.raw = none
        /\ u.summary.fetched = run[r].summary.fetched
        /\ u.summary.outcome = run[r].summary.outcome
        /\ u.returned = run[r].returned
        /\ u.loaded = run[r].loaded
        /\ u.effect = none
    <2> HIDE DEF none
    <2> QED
      BY <1>1, <1>3 DEF RunStates, Summaries
  <1>6. GoesOn(r, "screening", u)
    BY DEF RawSkips
  <1> HIDE DEF u, none
  <1> QED
    BY <1>1, <1>2, <1>3, <1>4, <1>5, <1>6, SoundlyGoesOn DEF InTry, BeforeUpsert

LEMMA RawLocksSound ==
    ASSUME RunTyped, OthersTyped, AllSound, NEW r \in Runs, RawLocks(r)
    PROVE  SoundStep(r)
  <1> DEFINE u == [run[r] EXCEPT !.known = Payloads]
  <1>1. run[r] \in RunStates /\ RunSound(run[r]) /\ run[r].at = "raw_upsert"
    BY DEF RunTyped, AllSound, RawLocks
  <1>2. run[r].summary.fetched = Cardinality(DOMAIN run[r].batch)
          /\ run[r].effect = NoCounts
    BY <1>1 DEF RunSound, Underway, WithBatch, BeforeUpsert
  <1>3. Payloads \in Batches
    BY PayloadsTyped DEF OthersTyped
  <1>4. /\ u \in RunStates
        /\ u.batch = run[r].batch
        /\ u.summary = run[r].summary
        /\ u.returned = run[r].returned
        /\ u.loaded = run[r].loaded
        /\ u.effect = run[r].effect
    BY <1>1, <1>3 DEF RunStates
  <1>5. GoesOn(r, "raw_locked", u)
    BY DEF RawLocks
  <1> HIDE DEF u
  <1> QED
    BY <1>1, <1>2, <1>4, <1>5, SoundlyGoesOn DEF InTry

\* Whichever way the commit ends, the payloads are landed; the counts reported
\* classify the whole batch, whatever the run had read.
LEMMA RawCommitsSound ==
    ASSUME RunTyped, OthersTyped, AllSound, NEW r \in Runs, RawCommits(r)
    PROVE  SoundStep(r)
  <1> DEFINE effect == Classify(Payloads, run[r].batch)
             counts == Classify(run[r].known, run[r].batch)
             done == [run[r] EXCEPT !.effect = effect]
             u == [done EXCEPT !.summary.raw = counts]
  <1>1. run[r] \in RunStates /\ RunSound(run[r]) /\ run[r].at = "raw_locked"
    BY DEF RunTyped, AllSound, RawCommits
  <1>2. /\ run[r].batch \in Batches
        /\ run[r].summary \in Summaries
    BY <1>1, RunFields
  <1>3. /\ run[r].summary.fetched = Cardinality(DOMAIN run[r].batch)
        /\ run[r].summary.outcome = "failed"
        /\ ~run[r].loaded
        /\ run[r].at \in InTry
    BY <1>1 DEF RunSound, Underway, WithBatch, InTry
  <1>4. /\ effect \in RawCounts
        /\ effect # NoCounts
        /\ counts \in RawCounts
        /\ Sum(counts) = Cardinality(DOMAIN run[r].batch)
    BY <1>2, ClassifyTyped, ClassifySums
  <1>5. /\ done \in RunStates
        /\ done.batch = run[r].batch
        /\ done.summary = run[r].summary
        /\ done.returned = run[r].returned
        /\ done.loaded = run[r].loaded
        /\ done.effect = effect
    <2> HIDE DEF effect
    <2> QED
      BY <1>1, <1>4 DEF RunStates
  <1>6. \/ GoesOn(r, "screening", u)
        \/ Raises(r, "failed", "raw_upsert", done)
        \/ Leaves(r, done.summary, FALSE, done)
    BY DEF RawCommits
  <1> HIDE DEF done, effect, counts
  <1>7. CASE GoesOn(r, "screening", u)
    <2>1. /\ u \in RunStates
          /\ u.batch = done.batch
          /\ u.summary.raw = counts
          /\ u.summary.fetched = done.summary.fetched
          /\ u.summary.outcome = done.summary.outcome
          /\ u.returned = done.returned
          /\ u.loaded = done.loaded
          /\ u.effect = done.effect
      BY <1>4, <1>5 DEF RunStates, Summaries
    <2> HIDE DEF u
    <2> QED
      BY <1>1, <1>3, <1>4, <1>5, <1>7, <2>1, SoundlyGoesOn DEF InTry, BeforeUpsert
  <1>8. CASE Raises(r, "failed", "raw_upsert", done)
    BY <1>1, <1>3, <1>5, <1>8, SoundlyRaises DEF Phases
  <1>9. CASE Leaves(r, done.summary, FALSE, done)
    BY <1>1, <1>2, <1>3, <1>5, <1>9, SoundlyLeaves
  <1> QED
    BY <1>6, <1>7, <1>8, <1>9

\* A run whose summary does not say "completed" fails in the upserts.
LEMMA RawFailsSound ==
    ASSUME RunTyped, AllSound, NEW r \in Runs, RawFails(r)
    PROVE  SoundStep(r)
  <1>1. run[r] \in RunStates /\ RunSound(run[r]) /\ run[r].at \in InTry
    BY DEF RunTyped, AllSound, RawFails, InTry
  <1>2. ~run[r].loaded
    BY <1>1 DEF RunSound, Underway
  <1> QED
    BY <1>1, <1>2, SoundlyRaises DEF RawFails, Phases

LEMMA CleanFailsSound ==
    ASSUME RunTyped, AllSound, NEW r \in Runs, CleanFails(r)
    PROVE  SoundStep(r)
  <1>1. run[r] \in RunStates /\ RunSound(run[r]) /\ run[r].at \in InTry
    BY DEF RunTyped, AllSound, CleanFails, InTry
  <1>2. ~run[r].loaded
    BY <1>1 DEF RunSound, Underway
  <1> QED
    BY <1>1, <1>2, SoundlyRaises DEF CleanFails, Phases

\* A run goes on to the clean upsert only with a batch that passed both gates.
LEMMA ScreensSound ==
    ASSUME RunTyped, AllSound, NEW r \in Runs, Screens(r)
    PROVE  SoundStep(r)
  <1> DEFINE batch == run[r].batch
             fetched == Cardinality(DOMAIN batch)
             rejected == Cardinality(Rejected(batch))
             u == [run[r] EXCEPT !.summary.skipped = rejected]
  <1>1. run[r] \in RunStates /\ RunSound(run[r]) /\ run[r].at = "screening"
    BY DEF RunTyped, AllSound, Screens
  <1>2. batch \in Batches
    BY <1>1, RunFields
  <1>3. /\ run[r].at \in InTry
        /\ run[r].effect # NoCounts
        /\ run[r].summary.fetched = fetched
        /\ run[r].summary.fetched = Sum(run[r].summary.raw)
        /\ ~run[r].loaded
    BY <1>1 DEF RunSound, Underway, InTry, WithBatch
  <1>4. fetched \in Nat /\ rejected \in Nat /\ (fetched = 0 => rejected = 0)
    BY <1>2, AcceptedSums
  <1>5. /\ u \in RunStates
        /\ u.batch = batch
        /\ u.summary.skipped = rejected
        /\ u.summary.raw = run[r].summary.raw
        /\ u.summary.fetched = run[r].summary.fetched
        /\ u.summary.outcome = run[r].summary.outcome
        /\ u.returned = run[r].returned
        /\ u.loaded = run[r].loaded
        /\ u.effect = run[r].effect
    <2> HIDE DEF rejected
    <2> QED
      BY <1>1, <1>4 DEF RunStates, Summaries, Counters
  <1>6. \/ Raises(r, "safety_aborted", "yield_check", run[r])
        \/ Raises(r, "safety_aborted", "row_quality_check", u)
        \/ /\ ~BelowYield(fetched)
           /\ ~AboveRatio(rejected, fetched)
           /\ GoesOn(r, "clean_upsert", u)
    BY DEF Screens
  <1>7. CASE Raises(r, "safety_aborted", "yield_check", run[r])
    BY <1>1, <1>3, <1>7, SoundlyRaises DEF Phases
  <1> HIDE DEF u
  <1>8. CASE Raises(r, "safety_aborted", "row_quality_check", u)
    BY <1>1, <1>3, <1>5, <1>8, SoundlyRaises DEF Phases
  <1>9. CASE /\ ~BelowYield(fetched)
             /\ ~AboveRatio(rejected, fetched)
             /\ GoesOn(r, "clean_upsert", u)
    <2>1. Passed(batch)
      <3>1. fetched >= MinYield
        BY <1>4, <1>9, SafetyAssumption DEF BelowYield
      <3>2. rejected * MaxRejected.den <= MaxRejected.num * fetched
        BY <1>4, <1>9, WithinRatio
      <3> QED
        BY <3>1, <3>2 DEF Passed
    <2> QED
      BY <1>1, <1>3, <1>5, <1>9, <2>1, SoundlyGoesOn DEF InTry, BeforeUpsert
  <1> QED
    BY <1>6, <1>7, <1>8, <1>9

\* The batch passed, so loading it is sound however the commit ends, and a
\* completed summary adds up.
LEMMA CleanCommitsSound ==
    ASSUME RunTyped, AllSound, NEW r \in Runs, CleanCommits(r)
    PROVE  SoundStep(r)
  <1> DEFINE batch == run[r].batch
             n == Cardinality(DOMAIN Accepted(batch))
             done == [run[r] EXCEPT !.loaded = TRUE]
             s == [done.summary EXCEPT !.outcome = "completed", !.clean = n]
  <1>1. run[r] \in RunStates /\ RunSound(run[r]) /\ run[r].at = "clean_upsert"
    BY DEF RunTyped, AllSound, CleanCommits
  <1>2. batch \in Batches /\ run[r].summary \in Summaries
    BY <1>1, RunFields
  <1>3. /\ run[r].at \in InTry
        /\ run[r].summary.outcome = "failed"
        /\ run[r].summary.fetched = Cardinality(DOMAIN batch)
        /\ run[r].summary.fetched = Sum(run[r].summary.raw)
        /\ run[r].summary.skipped = Cardinality(Rejected(batch))
        /\ Passed(batch)
    BY <1>1 DEF RunSound, Underway, InTry, WithBatch
  <1>4. /\ Cardinality(DOMAIN batch) \in Nat
        /\ Cardinality(Rejected(batch)) \in Nat
        /\ n = Cardinality(DOMAIN batch) - Cardinality(Rejected(batch))
    BY <1>2, AcceptedSums
  <1>5. n \in Counters
    BY <1>2, AcceptedTyped, CountOfBatch
  <1>6. /\ done \in RunStates
        /\ done.batch = batch
        /\ done.summary = run[r].summary
        /\ done.loaded
        /\ done.effect = run[r].effect
    BY <1>1 DEF RunStates
  <1>7. /\ s \in Summaries
        /\ s.outcome = "completed"
        /\ s.clean = n
        /\ s.raw = run[r].summary.raw
        /\ s.fetched = run[r].summary.fetched
        /\ s.skipped = run[r].summary.skipped
    <2> HIDE DEF done, n
    <2> QED
      BY <1>2, <1>5, <1>6 DEF Summaries, Outcomes
  <1>8. \/ \E returned \in BOOLEAN : Leaves(r, s, returned, done)
        \/ Leaves(r, done.summary, FALSE, done)
        \/ Raises(r, "failed", "clean_upsert", done)
    BY DEF CleanCommits
  <1> HIDE DEF s, done, n
  <1>9. AddsUp(s)
    BY <1>3, <1>4, <1>7 DEF AddsUp, Passed
  <1>10. ASSUME NEW returned \in BOOLEAN, Leaves(r, s, returned, done)
         PROVE  SoundStep(r)
    BY <1>1, <1>3, <1>6, <1>7, <1>9, <1>10, SoundlyLeaves
  <1>11. CASE Leaves(r, done.summary, FALSE, done)
    BY <1>1, <1>2, <1>3, <1>6, <1>11, SoundlyLeaves
  <1>12. CASE Raises(r, "failed", "clean_upsert", done)
    BY <1>1, <1>3, <1>6, <1>12, SoundlyRaises DEF Phases
  <1> QED
    BY <1>8, <1>10, <1>11, <1>12

LEMMA InterruptedSound ==
    ASSUME RunTyped, AllSound, NEW r \in Runs, Interrupted(r)
    PROVE  SoundStep(r)
  <1>1. run[r] \in RunStates /\ RunSound(run[r]) /\ run[r].at \in InTry
    BY DEF RunTyped, AllSound, Interrupted
  <1>2. /\ run[r].summary \in Summaries
        /\ run[r].summary.outcome = "failed"
        /\ ~run[r].loaded
    BY <1>1, RunFields DEF RunSound, Underway
  <1>3. Leaves(r, run[r].summary, FALSE, run[r])
    BY DEF Interrupted
  <1> QED
    BY <1>1, <1>2, <1>3, SoundlyLeaves

\* Once out of the `try` a run changes only its place.
LEMMA OutOfTry ==
    ASSUME RunTyped, AllSound, NEW r \in Runs, NEW place \in Ended,
           run[r].at \in Ended => place = "dead" \/ place = "exited",
           place = "reporting" => run[r].returned,
           GoesOn(r, place, run[r])
    PROVE  SoundStep(r)
  <1>1. run[r] \in RunStates /\ RunSound(run[r])
    BY DEF RunTyped, AllSound
  <1>2. PICK v \in RunStates :
          /\ run' = [run EXCEPT ![r] = v]
          /\ v.at = place
          /\ v.batch = run[r].batch
          /\ v.summary = run[r].summary
          /\ v.returned = run[r].returned
          /\ v.effect = run[r].effect
          /\ v.loaded = run[r].loaded
    BY <1>1, GoesOnKeeps, PlacesOfSteps DEF Ended
  <1>3. Underway(v)
    BY <1>2 DEF Underway, Ended, InTry, BeforeUpsert, WithBatch
  <1>4. Decided(v) /\ Follows(run[r], v)
    BY <1>1, <1>2 DEF RunSound, Decided, Follows, Ended
  <1> QED
    BY <1>2, <1>3, <1>4 DEF SoundStep, RunSound

LEMMA PersistsSound ==
    ASSUME RunTyped, AllSound, NEW r \in Runs, Persists(r)
    PROVE  SoundStep(r)
  <1>1. run[r].at \notin Ended
    BY DEF Persists, Ended
  <1>2. CASE run[r].returned
    BY <1>1, <1>2, OutOfTry DEF Persists, Ended
  <1>3. CASE ~run[r].returned
    BY <1>1, <1>3, OutOfTry DEF Persists, Ended
  <1> QED
    BY <1>2, <1>3

LEMMA PingsSound ==
    ASSUME RunTyped, AllSound, NEW r \in Runs, Pings(r)
    PROVE  SoundStep(r)
  BY OutOfTry DEF Pings, Ended

LEMMA KilledSound ==
    ASSUME RunTyped, AllSound, NEW r \in Runs, Killed(r)
    PROVE  SoundStep(r)
  BY OutOfTry DEF Killed, Ended

-----------------------------------------------------------------------------
(* What ties the tables to the runs that wrote them.                        *)

\* A row of clean_jobs is what its run accepted and loaded.
CleanOfLoaded ==
    \A k \in DOMAIN clean :
        LET u == run[clean[k].by]
        IN  /\ u.loaded
            /\ k \in DOMAIN Accepted(u.batch)
            /\ clean[k].content = u.batch[k]

\* A row of ingestion_runs is the summary its run ended with.
RowsOfEnded ==
    \A row \in rows :
        run[row.run].at \in Ended /\ row.summary = run[row.run].summary

\* Only a run that returned has pinged.
PingedReturned == \A r \in pinged : run[r].returned

GateInv == AllSound /\ CleanOfLoaded /\ RowsOfEnded /\ PingedReturned

\* A sound step of a run, and what it says of the run after it.
LEMMA StepOfRun ==
    ASSUME RunTyped, NEW r \in Runs, SoundStep(r)
    PROVE  /\ RunSound(run'[r])
           /\ \A s \in Runs : Follows(run[s], run'[s])
           /\ \A s \in Runs \ {r} : run'[s] = run[s]
  <1>1. PICK v \in RunStates :
          run' = [run EXCEPT ![r] = v] /\ RunSound(v) /\ Follows(run[r], v)
    BY DEF SoundStep
  <1>2. run'[r] = v /\ \A s \in Runs \ {r} : run'[s] = run[s]
    BY <1>1 DEF RunTyped
  <1>3. \A s \in Runs \ {r} : Follows(run[s], run'[s])
    BY <1>2 DEF Follows
  <1> QED
    BY <1>1, <1>2, <1>3

\* A sound step that leaves a table alone keeps what is said of it.
LEMMA KeepsSound ==
    ASSUME RunTyped, AllSound, NEW r \in Runs, SoundStep(r)
    PROVE  AllSound'
  BY StepOfRun DEF AllSound

LEMMA KeepsClean ==
    ASSUME RunTyped, OthersTyped, CleanOfLoaded, NEW r \in Runs, SoundStep(r),
           clean' = clean
    PROVE  CleanOfLoaded'
  <1> SUFFICES ASSUME NEW k \in DOMAIN clean
               PROVE  LET u == run'[clean[k].by]
                      IN  /\ u.loaded
                          /\ k \in DOMAIN Accepted(u.batch)
                          /\ clean[k].content = u.batch[k]
    BY DEF CleanOfLoaded
  <1>1. clean[k].by \in Runs
    BY TableShape DEF OthersTyped
  <1>2. Follows(run[clean[k].by], run'[clean[k].by])
    BY <1>1, StepOfRun
  <1> QED
    BY <1>2 DEF CleanOfLoaded, Follows

LEMMA KeepsRows ==
    ASSUME RunTyped, OthersTyped, RowsOfEnded, NEW r \in Runs, SoundStep(r),
           rows' = rows
    PROVE  RowsOfEnded'
  <1> SUFFICES ASSUME NEW row \in rows
               PROVE  run'[row.run].at \in Ended
                        /\ row.summary = run'[row.run].summary
    BY DEF RowsOfEnded
  <1>1. row.run \in Runs
    BY DEF OthersTyped
  <1>2. Follows(run[row.run], run'[row.run])
    BY <1>1, StepOfRun
  <1> QED
    BY <1>2 DEF RowsOfEnded, Follows

LEMMA KeepsPinged ==
    ASSUME RunTyped, OthersTyped, PingedReturned, NEW r \in Runs, SoundStep(r),
           pinged' = pinged
    PROVE  PingedReturned'
  <1> SUFFICES ASSUME NEW s \in pinged
               PROVE  run'[s].returned
    BY DEF PingedReturned
  <1>1. Follows(run[s], run'[s])
    BY StepOfRun DEF OthersTyped
  <1> QED
    BY <1>1 DEF PingedReturned, Follows

LEMMA KeepsGates ==
    ASSUME RunTyped, OthersTyped, GateInv, NEW r \in Runs, SoundStep(r),
           clean' = clean, rows' = rows, pinged' = pinged
    PROVE  GateInv'
  BY KeepsSound, KeepsClean, KeepsRows, KeepsPinged DEF GateInv

\* The rows that are loaded are the accepted ones of a run that is loaded now.
LEMMA CleanCommitsKeeps ==
    ASSUME RunTyped, OthersTyped, GateInv, NEW r \in Runs, CleanCommits(r)
    PROVE  GateInv'
  <1> DEFINE accepted == Accepted(run[r].batch)
             done == [run[r] EXCEPT !.loaded = TRUE]
  <1>1. AllSound /\ CleanOfLoaded /\ RowsOfEnded /\ PingedReturned
    BY DEF GateInv
  <1>2. SoundStep(r)
    BY <1>1, CleanCommitsSound
  <1>3. AllSound' /\ RowsOfEnded' /\ PingedReturned'
    BY <1>1, <1>2, KeepsSound, KeepsRows, KeepsPinged DEF CleanCommits
  <1>4. run'[r].loaded /\ run'[r].batch = run[r].batch
    <2>1. \E s, b : Leaves(r, s, b, done)
      BY DEF CleanCommits, Raises
    <2>2. PICK s, b : run' = [run EXCEPT ![r] =
                         [done EXCEPT !.at = "persisting", !.summary = s,
                                      !.returned = b]]
      BY <2>1 DEF Leaves
    <2> QED
      BY <2>2 DEF RunTyped, RunStates
  <1>5. clean' = Upsert(clean, accepted, r)
    BY DEF CleanCommits
  <1>6. CleanOfLoaded'
    <2> SUFFICES ASSUME NEW k \in DOMAIN clean'
                 PROVE  LET u == run'[clean'[k].by]
                        IN  /\ u.loaded
                            /\ k \in DOMAIN Accepted(u.batch)
                            /\ clean'[k].content = u.batch[k]
      BY DEF CleanOfLoaded
    <2>1. CASE k \in DOMAIN accepted
      <3>1. clean'[k] = [content |-> accepted[k], by |-> r]
        BY <1>5, <2>1 DEF Upsert
      <3>2. accepted[k] = run[r].batch[k]
        BY <2>1 DEF Accepted
      <3> QED
        BY <1>4, <2>1, <3>1, <3>2
    <2>2. CASE k \notin DOMAIN accepted
      <3>1. k \in DOMAIN clean /\ clean'[k] = clean[k]
        BY <1>5, <2>2 DEF Upsert
      <3>2. clean[k].by \in Runs
        BY <3>1, TableShape DEF OthersTyped
      <3>3. Follows(run[clean[k].by], run'[clean[k].by])
        BY <1>2, <3>2, StepOfRun
      <3> QED
        BY <1>1, <3>1, <3>3 DEF CleanOfLoaded, Follows
    <2> QED
      BY <2>1, <2>2
  <1> QED
    BY <1>3, <1>6 DEF GateInv

\* The row that is appended is the summary the run has ended with.
LEMMA PersistsKeeps ==
    ASSUME RunTyped, OthersTyped, GateInv, NEW r \in Runs, Persists(r)
    PROVE  GateInv'
  <1>1. AllSound /\ CleanOfLoaded /\ RowsOfEnded /\ PingedReturned
    BY DEF GateInv
  <1>2. SoundStep(r)
    BY <1>1, PersistsSound
  <1>3. AllSound' /\ CleanOfLoaded' /\ PingedReturned'
    BY <1>1, <1>2, KeepsSound, KeepsClean, KeepsPinged DEF Persists
  <1>4. run'[r].at \in Ended /\ run'[r].summary = run[r].summary
    BY DEF Persists, GoesOn, Ended, RunTyped, RunStates
  <1>5. CASE rows' = rows
    BY <1>1, <1>2, <1>3, <1>5, KeepsRows DEF GateInv
  <1>6. CASE rows' = rows \cup {[run |-> r, summary |-> run[r].summary]}
    <2> SUFFICES ASSUME NEW row \in rows'
                 PROVE  run'[row.run].at \in Ended
                          /\ row.summary = run'[row.run].summary
      BY <1>3 DEF GateInv, RowsOfEnded
    <2>1. CASE row \in rows
      <3>1. row.run \in Runs
        BY <2>1 DEF OthersTyped
      <3>2. Follows(run[row.run], run'[row.run])
        BY <1>2, <3>1, StepOfRun
      <3> QED
        BY <1>1, <2>1, <3>2 DEF RowsOfEnded, Follows
    <2>2. CASE row = [run |-> r, summary |-> run[r].summary]
      BY <1>4, <2>2
    <2> QED
      BY <1>6, <2>1, <2>2
  <1> QED
    BY <1>5, <1>6 DEF Persists

\* A run that reports has returned.
LEMMA PingsKeeps ==
    ASSUME RunTyped, OthersTyped, GateInv, NEW r \in Runs, Pings(r)
    PROVE  GateInv'
  <1>1. AllSound /\ CleanOfLoaded /\ RowsOfEnded /\ PingedReturned
    BY DEF GateInv
  <1>2. SoundStep(r)
    BY <1>1, PingsSound
  <1>3. AllSound' /\ CleanOfLoaded' /\ RowsOfEnded'
    BY <1>1, <1>2, KeepsSound, KeepsClean, KeepsRows DEF Pings
  <1>4. run[r].returned
    BY <1>1 DEF Pings, AllSound, RunSound, Decided
  <1>5. PingedReturned'
    <2> SUFFICES ASSUME NEW s \in pinged \cup {r}
                 PROVE  run'[s].returned
      BY DEF PingedReturned, Pings
    <2>1. s \in Runs /\ run[s].returned
      BY <1>1, <1>4 DEF PingedReturned, OthersTyped
    <2> QED
      BY <1>2, <2>1, StepOfRun DEF Follows
  <1> QED
    BY <1>3, <1>5 DEF GateInv

-----------------------------------------------------------------------------
(* The specification.                                                       *)

LEMMA InitGates == Init => GateInv
  <1> SUFFICES ASSUME Init PROVE GateInv
    OBVIOUS
  <1>1. ASSUME NEW r \in Runs
        PROVE  RunSound(run[r])
    BY <1>1 DEF Init, EmptySummary, RunSound, Underway, Decided, InTry, BeforeUpsert,
       WithBatch
  <1>2. AllSound
    BY <1>1 DEF AllSound
  <1>3. CleanOfLoaded
    BY DEF Init, CleanOfLoaded, NoRow
  <1>4. RowsOfEnded /\ PingedReturned
    BY DEF Init, RowsOfEnded, PingedReturned
  <1> QED
    BY <1>2, <1>3, <1>4 DEF GateInv

LEMMA StepKeepsGates == IngestionInv /\ GateInv /\ [Next]_vars => GateInv'
  <1> SUFFICES ASSUME IngestionInv, GateInv, [Next]_vars PROVE GateInv'
    OBVIOUS
  <1>1. RunTyped /\ OthersTyped /\ AllSound
    BY DEF IngestionInv, GateInv
  <1>2. CASE UNCHANGED vars
    BY <1>2 DEF vars, tables, GateInv, AllSound, CleanOfLoaded, RowsOfEnded,
       PingedReturned
  <1>3. ASSUME NEW r \in Runs, Starts(r)
        PROVE  GateInv'
    BY <1>1, <1>3, StartsSound, KeepsGates DEF Starts, tables
  <1>4. ASSUME NEW r \in Runs, Progresses(r)
        PROVE  GateInv'
    <2>1. CASE ChecksSchema(r)
      BY <1>1, <2>1, ChecksSchemaSound, KeepsGates DEF ChecksSchema, tables
    <2>2. CASE OpensSource(r)
      BY <1>1, <2>2, OpensSourceSound, KeepsGates DEF OpensSource, tables
    <2>3. CASE Fetches(r)
      BY <1>1, <2>3, FetchesSound, KeepsGates DEF Fetches, tables
    <2>4. CASE RawSkips(r)
      BY <1>1, <2>4, RawSkipsSound, KeepsGates DEF RawSkips, tables
    <2>5. CASE RawLocks(r)
      BY <1>1, <2>5, RawLocksSound, KeepsGates DEF RawLocks, tables
    <2>6. CASE RawCommits(r)
      BY <1>1, <2>6, RawCommitsSound, KeepsGates DEF RawCommits
    <2>7. CASE Screens(r)
      BY <1>1, <2>7, ScreensSound, KeepsGates DEF Screens, tables
    <2>8. CASE CleanCommits(r)
      BY <1>1, <2>8, CleanCommitsKeeps
    <2>9. CASE Persists(r)
      BY <1>1, <2>9, PersistsKeeps
    <2>10. CASE Pings(r)
      BY <1>1, <2>10, PingsKeeps
    <2> QED
      BY <1>4, <2>1, <2>2, <2>3, <2>4, <2>5, <2>6, <2>7, <2>8, <2>9, <2>10
         DEF Progresses
  <1>5. ASSUME NEW r \in Runs, RawFails(r) \/ CleanFails(r)
        PROVE  GateInv'
    BY <1>1, <1>5, RawFailsSound, CleanFailsSound, KeepsGates
       DEF RawFails, CleanFails, tables
  <1>6. ASSUME NEW r \in Runs, Interrupted(r) \/ Killed(r)
        PROVE  GateInv'
    BY <1>1, <1>6, InterruptedSound, KilledSound, KeepsGates
       DEF Interrupted, Killed, tables
  <1>7. CASE AllOver
    BY <1>2, <1>7 DEF AllOver
  <1> QED
    BY <1>2, <1>3, <1>4, <1>5, <1>6, <1>7 DEF Next

LEMMA AlwaysGateInv == Spec => [](IngestionInv /\ GateInv)
  BY InitEstablishes, StepKeeps, InitGates, StepKeepsGates, PTL DEF Spec

\* The row of a completed run accounts for every posting that run_ingestion
\* (services/ingestion/loader.py) fetched, within both safety bounds, whatever
\* other runs did to the tables meanwhile.
THEOREM CompletedAlwaysAddsUp == Spec => []CompletedAddsUp
  <1>1. IngestionInv /\ GateInv => CompletedAddsUp
    <2> SUFFICES ASSUME IngestionInv, GateInv, NEW row \in rows,
                        row.summary.outcome = "completed"
                 PROVE  AddsUp(row.summary)
      BY DEF CompletedAddsUp, AddsUp, Sum
    <2>1. row.run \in Runs /\ row.summary = run[row.run].summary
      BY DEF IngestionInv, OthersTyped, GateInv, RowsOfEnded
    <2> QED
      BY <2>1 DEF GateInv, AllSound, RunSound, Decided
  <1> QED
    BY <1>1, AlwaysGateInv, PTL

\* The agent reads only rows that passed the row rules, from a batch that passed
\* the yield floor and the rejection ratio (services/ingestion/safety.py),
\* however runs overlap, fail or die between the tables.
THEOREM CleanOnlyEverFromPassedRuns == Spec => []CleanOnlyFromPassedRuns
  <1>1. IngestionInv /\ GateInv => CleanOnlyFromPassedRuns
    <2> SUFFICES ASSUME IngestionInv, GateInv PROVE CleanOnlyFromPassedRuns
      OBVIOUS
    <2> SUFFICES ASSUME NEW k \in DOMAIN clean
                 PROVE  LET batch == run[clean[k].by].batch
                        IN  /\ k \in DOMAIN batch \ Rejected(batch)
                            /\ clean[k].content = batch[k]
                            /\ Passed(batch)
      BY DEF CleanOnlyFromPassedRuns, Rejected, Passed
    <2>1. clean[k].by \in Runs
      BY TableShape DEF IngestionInv, OthersTyped
    <2>2. /\ run[clean[k].by].loaded
          /\ k \in DOMAIN Accepted(run[clean[k].by].batch)
          /\ clean[k].content = run[clean[k].by].batch[k]
      BY DEF GateInv, CleanOfLoaded
    <2>3. Passed(run[clean[k].by].batch)
      BY <2>1, <2>2 DEF GateInv, AllSound, RunSound, Decided
    <2> QED
      BY <2>2, <2>3 DEF Accepted
  <1> QED
    BY <1>1, AlwaysGateInv, PTL

\* docs/modules/ingestion.md, "What an abort leaves behind": a run that a gate
\* aborted has landed its payloads and not touched clean_jobs; one aborted
\* before the gates has touched neither (services/ingestion/loader.py).
THEOREM SafetyAbortAlwaysKeepsPayloads == Spec => []SafetyAbortKeepsPayloads
  <1>1. IngestionInv /\ GateInv => SafetyAbortKeepsPayloads
    <2> SUFFICES ASSUME IngestionInv, GateInv, NEW row \in rows,
                        row.summary.outcome = "safety_aborted"
                 PROVE  /\ ~run[row.run].loaded
                        /\ row.summary.phase \in {"yield_check", "row_quality_check"}
                             <=> run[row.run].effect # NoCounts
      BY DEF SafetyAbortKeepsPayloads
    <2>1. row.run \in Runs /\ row.summary = run[row.run].summary
      BY DEF IngestionInv, OthersTyped, GateInv, RowsOfEnded
    <2>2. Decided(run[row.run])
      BY <2>1 DEF GateInv, AllSound, RunSound
    <2> QED
      BY <2>1, <2>2 DEF Decided
  <1> QED
    BY <1>1, AlwaysGateInv, PTL

\* The dead-man monitor hears only of runs that loaded clean_jobs, and no row of
\* such a run says otherwise (main() in services/ingestion/loader.py).
THEOREM PingAlwaysMeansLoaded == Spec => []PingMeansLoaded
  <1>1. IngestionInv /\ GateInv => PingMeansLoaded
    <2> SUFFICES ASSUME IngestionInv, GateInv, NEW r \in pinged
                 PROVE  /\ run[r].loaded
                        /\ \A row \in rows :
                             row.run = r => row.summary.outcome = "completed"
      BY DEF PingMeansLoaded
    <2>1. r \in Runs /\ run[r].returned
      BY DEF IngestionInv, OthersTyped, GateInv, PingedReturned
    <2>2. run[r].summary.outcome = "completed" /\ run[r].loaded
      BY <2>1 DEF GateInv, AllSound, RunSound, Decided
    <2> QED
      BY <2>2 DEF GateInv, RowsOfEnded
  <1> QED
    BY <1>1, AlwaysGateInv, PTL

-----------------------------------------------------------------------------
(* Runs that do not overlap: a run that has landed its payloads and has not  *)
(* ended is the last writer of their rows, so what it loads is what raw_jobs *)
(* holds.                                                                    *)

AfterUpsert == {"screening", "clean_upsert"}

\* A row of raw_jobs is what its run landed, and what a run landed stays there.
RawOfLanded ==
    /\ \A k \in DOMAIN raw :
         LET u == run[raw[k].by]
         IN  /\ u.effect # NoCounts
             /\ k \in DOMAIN u.batch
             /\ raw[k].content = u.batch[k]
    /\ \A r \in Runs : run[r].effect # NoCounts => DOMAIN run[r].batch \subseteq DOMAIN raw
    /\ \A r \in Runs : run[r].loaded => run[r].effect # NoCounts

OneActive == \A r, s \in Runs : Active(r) /\ Active(s) => r = s
LastWriter ==
    \A r \in Runs : run[r].at \in AfterUpsert =>
        \A k \in DOMAIN run[r].batch : raw[k].by = r
LoadedIsCurrent ==
    \A r \in Runs : run[r].loaded =>
        \A k \in DOMAIN Accepted(run[r].batch) :
            raw[k].by = r => k \in DOMAIN clean /\ clean[k].by = r

LagInv ==
    /\ RawOfLanded
    /\ ~overlapped => OneActive /\ LastWriter /\ LoadedIsCurrent

\* After a step of r: where it is, with the batch and the history of u.
MovesAs(r, place, u) ==
    /\ run'[r].at = place
    /\ run'[r].batch = u.batch
    /\ run'[r].effect = u.effect
    /\ run'[r].loaded = u.loaded
    /\ \A s \in Runs \ {r} : run'[s] = run[s]

LEMMA GoesOnAs ==
    ASSUME RunTyped, NEW r \in Runs, NEW u \in RunStates, NEW place,
           GoesOn(r, place, u)
    PROVE  MovesAs(r, place, u)
  BY DEF GoesOn, MovesAs, RunTyped, RunStates

LEMMA LeavesAs ==
    ASSUME RunTyped, NEW r \in Runs, NEW u \in RunStates, NEW s, NEW b,
           Leaves(r, s, b, u)
    PROVE  MovesAs(r, "persisting", u)
  BY DEF Leaves, MovesAs, RunTyped, RunStates

LEMMA RaisesAs ==
    ASSUME RunTyped, NEW r \in Runs, NEW u \in RunStates, NEW outcome, NEW phase,
           Raises(r, outcome, phase, u)
    PROVE  MovesAs(r, "persisting", u)
  BY LeavesAs DEF Raises

\* A step of a run that keeps what it fetched, landed and loaded.
Carries(r) ==
    /\ \E place : /\ MovesAs(r, place, run[r])
                  /\ place \in AfterUpsert => run[r].at \in AfterUpsert
    /\ Active(r)
    /\ raw' = raw /\ clean' = clean /\ overlapped' = overlapped

\* Such a step keeps the invariant.
LEMMA CarriesKeepsLag ==
    ASSUME RunTyped, OthersTyped, LagInv, NEW r \in Runs, Carries(r)
    PROVE  LagInv'
  <1>1. PICK place : /\ MovesAs(r, place, run[r])
                     /\ place \in AfterUpsert => run[r].at \in AfterUpsert
    BY DEF Carries
  <1>2. \A s \in Runs : /\ run'[s].batch = run[s].batch
                        /\ run'[s].effect = run[s].effect
                        /\ run'[s].loaded = run[s].loaded
                        /\ run'[s].at \in AfterUpsert => run[s].at \in AfterUpsert
                        /\ run'[s].at \notin Idle => run[s].at \notin Idle
    BY <1>1 DEF MovesAs, Carries, Active
  <1>3. raw' = raw /\ clean' = clean /\ overlapped' = overlapped
    BY DEF Carries
  <1>4. \A k \in DOMAIN raw : raw[k].by \in Runs
    BY TableShape DEF OthersTyped
  <1>5. RawOfLanded'
    BY <1>2, <1>3, <1>4 DEF LagInv, RawOfLanded
  <1>6. OneActive => OneActive'
    BY <1>2 DEF OneActive, Active
  <1>7. LastWriter => LastWriter'
    BY <1>2, <1>3 DEF LastWriter
  <1>8. LoadedIsCurrent => LoadedIsCurrent'
    BY <1>2, <1>3 DEF LoadedIsCurrent
  <1> QED
    BY <1>3, <1>5, <1>6, <1>7, <1>8 DEF LagInv

\* A run that starts is alone, or the runs overlap.
LEMMA StartsKeepsLag ==
    ASSUME RunTyped, OthersTyped, LagInv, NEW r \in Runs, Starts(r)
    PROVE  LagInv'
  <1>1. MovesAs(r, "schema_check", run[r])
    BY GoesOnAs DEF Starts, RunTyped
  <1>2. raw' = raw /\ clean' = clean
    BY DEF Starts, tables
  <1>3. \A s \in Runs : /\ run'[s].batch = run[s].batch
                        /\ run'[s].effect = run[s].effect
                        /\ run'[s].loaded = run[s].loaded
                        /\ run'[s].at \in AfterUpsert => run[s].at \in AfterUpsert
    BY <1>1 DEF MovesAs, AfterUpsert
  <1>4. \A k \in DOMAIN raw : raw[k].by \in Runs
    BY TableShape DEF OthersTyped
  <1>5. RawOfLanded'
    BY <1>2, <1>3, <1>4 DEF LagInv, RawOfLanded
  <1>6. ~overlapped' => ~overlapped /\ \A s \in Runs : ~Active(s)
    BY DEF Starts
  <1>7. ~overlapped' => OneActive'
    BY <1>1, <1>6 DEF OneActive, Active, MovesAs
  <1>8. LastWriter => LastWriter'
    BY <1>2, <1>3 DEF LastWriter
  <1>9. LoadedIsCurrent => LoadedIsCurrent'
    BY <1>2, <1>3 DEF LoadedIsCurrent
  <1> QED
    BY <1>5, <1>6, <1>7, <1>8, <1>9 DEF LagInv

\* The rows of raw_jobs are of other runs than one that has not landed its own.
LEMMA NotYetLanded ==
    ASSUME OthersTyped, LagInv, NEW r \in Runs, run[r].effect = NoCounts
    PROVE  \A k \in DOMAIN raw : raw[k].by \in Runs \ {r}
  BY TableShape DEF OthersTyped, LagInv, RawOfLanded

\* A run that fetches has landed nothing; nor has it loaded.
LEMMA FetchesKeepsLag ==
    ASSUME RunTyped, OthersTyped, AllSound, LagInv, NEW r \in Runs, Fetches(r)
    PROVE  LagInv'
  <1>1. run[r] \in RunStates /\ run[r].at = "fetch"
    BY DEF RunTyped, Fetches
  <1>2. run[r].effect = NoCounts /\ ~run[r].loaded
    BY <1>1 DEF AllSound, RunSound, Underway, BeforeUpsert, InTry
  <1>3. raw' = raw /\ clean' = clean /\ overlapped' = overlapped
    BY DEF Fetches, tables
  <1>4. \A k \in DOMAIN raw : raw[k].by \in Runs \ {r}
    BY <1>2, NotYetLanded
  <1>5. ASSUME NEW keys \in SUBSET Keys, NEW batch \in [keys -> Contents],
               GoesOn(r, "raw_upsert",
                      [run[r] EXCEPT !.batch = batch,
                                     !.summary.fetched = Cardinality(keys)])
        PROVE  LagInv'
    <2>1. /\ run'[r].at = "raw_upsert"
          /\ run'[r].effect = NoCounts
          /\ run'[r].loaded = run[r].loaded
          /\ \A s \in Runs \ {r} : run'[s] = run[s]
      BY <1>1, <1>2, <1>5 DEF GoesOn, RunTyped, RunStates
    <2>2. RawOfLanded'
      BY <1>2, <1>3, <1>4, <2>1 DEF LagInv, RawOfLanded
    <2>3. OneActive => OneActive'
      BY <1>1, <2>1 DEF OneActive, Active, Idle
    <2>4. LastWriter => LastWriter'
      BY <1>3, <2>1 DEF LastWriter, AfterUpsert
    <2>5. LoadedIsCurrent => LoadedIsCurrent'
      BY <1>2, <1>3, <2>1 DEF LoadedIsCurrent
    <2> QED
      BY <1>3, <2>2, <2>3, <2>4, <2>5 DEF LagInv
  <1>6. ASSUME NEW outcome \in {"safety_aborted", "failed"},
               Raises(r, outcome, "fetch", run[r])
        PROVE  LagInv'
    <2>1. MovesAs(r, "persisting", run[r]) /\ Active(r)
      BY <1>1, <1>6, RaisesAs DEF Active, Idle
    <2>2. Carries(r)
      BY <1>3, <2>1 DEF Carries, AfterUpsert
    <2> QED
      BY <2>2, CarriesKeepsLag
  <1> QED
    BY <1>5, <1>6 DEF Fetches

\* An empty batch has landed as soon as it is there.
LEMMA RawSkipsKeepsLag ==
    ASSUME RunTyped, OthersTyped, AllSound, LagInv, NEW r \in Runs, RawSkips(r)
    PROVE  LagInv'
  <1> DEFINE none == Classify(NoRow, NoRow)
             u == [run[r] EXCEPT !.summary.raw = none, !.effect = none]
  <1>1. run[r] \in RunStates /\ run[r].at = "raw_upsert" /\ DOMAIN run[r].batch = {}
    BY DEF RunTyped, RawSkips
  <1>2. run[r].effect = NoCounts /\ ~run[r].loaded
    BY <1>1 DEF AllSound, RunSound, Underway, BeforeUpsert, InTry
  <1>3. raw' = raw /\ clean' = clean /\ overlapped' = overlapped
    BY DEF RawSkips, tables
  <1>4. \A k \in DOMAIN raw : raw[k].by \in Runs \ {r}
    BY <1>2, NotYetLanded
  <1>5. /\ run'[r].at = "screening"
        /\ run'[r].batch = run[r].batch
        /\ run'[r].loaded = run[r].loaded
        /\ \A s \in Runs \ {r} : run'[s] = run[s]
    <2>1. GoesOn(r, "screening", u)
      BY DEF RawSkips
    <2> HIDE DEF none
    <2> QED
      BY <1>1, <2>1 DEF GoesOn, RunTyped, RunStates
  <1>6. RawOfLanded'
    BY <1>1, <1>2, <1>3, <1>4, <1>5 DEF LagInv, RawOfLanded
  <1>7. OneActive => OneActive'
    BY <1>1, <1>5 DEF OneActive, Active, Idle
  <1>8. LastWriter => LastWriter'
    BY <1>1, <1>3, <1>5 DEF LastWriter
  <1>9. LoadedIsCurrent => LoadedIsCurrent'
    BY <1>2, <1>3, <1>5 DEF LoadedIsCurrent
  <1> QED
    BY <1>3, <1>6, <1>7, <1>8, <1>9 DEF LagInv

\* The run is the last writer of every row it lands, and no other run that does
\* not overlap it is between the two tables.
LEMMA RawCommitsKeepsLag ==
    ASSUME RunTyped, OthersTyped, AllSound, LagInv, NEW r \in Runs, RawCommits(r)
    PROVE  LagInv'
  <1> DEFINE batch == run[r].batch
             effect == Classify(Payloads, batch)
             done == [run[r] EXCEPT !.effect = effect]
             u == [done EXCEPT !.summary.raw = Classify(run[r].known, batch)]
  <1>1. run[r] \in RunStates /\ run[r].at = "raw_locked" /\ batch \in Batches
    BY RunFields DEF RunTyped, RawCommits
  <1>2. run[r].effect = NoCounts /\ ~run[r].loaded
    BY <1>1 DEF AllSound, RunSound, Underway, BeforeUpsert, InTry
  <1>3. raw' = Upsert(raw, batch, r) /\ clean' = clean /\ overlapped' = overlapped
    BY DEF RawCommits
  <1>4. /\ DOMAIN raw' = DOMAIN raw \cup DOMAIN batch
        /\ \A k \in DOMAIN batch : raw'[k].content = batch[k] /\ raw'[k].by = r
        /\ \A k \in DOMAIN raw \ DOMAIN batch : raw'[k] = raw[k]
    BY <1>3 DEF Upsert
  <1>5. effect # NoCounts /\ effect \in RawCounts
    BY <1>1, ClassifySums, ClassifyTyped
  <1>6. \A k \in DOMAIN raw : raw[k].by \in Runs \ {r}
    BY <1>2, NotYetLanded
  <1>7. /\ run'[r].batch = batch
        /\ run'[r].effect = effect
        /\ run'[r].loaded = run[r].loaded
        /\ \A s \in Runs \ {r} : run'[s] = run[s]
    <2>1. /\ done \in RunStates
          /\ done.batch = batch
          /\ done.effect = effect
          /\ done.loaded = run[r].loaded
      <3> HIDE DEF effect
      <3> QED
        BY <1>1, <1>5 DEF RunStates
    <2>2. \/ GoesOn(r, "screening", u)
          \/ Raises(r, "failed", "raw_upsert", done)
          \/ Leaves(r, done.summary, FALSE, done)
      BY DEF RawCommits
    <2> HIDE DEF done
    <2>3. CASE GoesOn(r, "screening", u)
      <3>1. run' = [run EXCEPT ![r] = [u EXCEPT !.at = "screening"]]
        BY <2>3 DEF GoesOn
      <3> QED
        BY <2>1, <3>1 DEF RunTyped, RunStates
    <2>4. CASE Raises(r, "failed", "raw_upsert", done)
      BY <2>1, <2>4, RaisesAs DEF MovesAs
    <2>5. CASE Leaves(r, done.summary, FALSE, done)
      BY <2>1, <2>5, LeavesAs DEF MovesAs
    <2> QED
      BY <2>2, <2>3, <2>4, <2>5
  <1> HIDE DEF effect
  <1>8. RawOfLanded'
    <2>1. ASSUME NEW k \in DOMAIN raw'
          PROVE  LET w == run'[raw'[k].by]
                 IN  /\ w.effect # NoCounts
                     /\ k \in DOMAIN w.batch
                     /\ raw'[k].content = w.batch[k]
      <3>1. CASE k \in DOMAIN batch
        BY <1>4, <1>5, <1>7, <3>1
      <3>2. CASE k \notin DOMAIN batch
        BY <1>4, <1>6, <1>7, <3>2 DEF LagInv, RawOfLanded
      <3> QED
        BY <3>1, <3>2
    <2>2. ASSUME NEW s \in Runs
          PROVE  /\ run'[s].effect # NoCounts => DOMAIN run'[s].batch \subseteq DOMAIN raw'
                 /\ run'[s].loaded => run'[s].effect # NoCounts
      <3>1. CASE s = r
        BY <1>2, <1>4, <1>7, <3>1
      <3>2. CASE s # r
        BY <1>4, <1>7, <3>2 DEF LagInv, RawOfLanded
      <3> QED
        BY <3>1, <3>2
    <2> QED
      BY <2>1, <2>2 DEF RawOfLanded
  <1>9. Active(r) /\ \A s \in Runs \ {r} : Active(s)' => Active(s)
    BY <1>1, <1>7 DEF Active, Idle
  <1>10. OneActive => OneActive'
    BY <1>9 DEF OneActive
  <1>11. OneActive => LastWriter'
    <2> SUFFICES ASSUME OneActive, NEW s \in Runs, run'[s].at \in AfterUpsert,
                        NEW k \in DOMAIN run'[s].batch
                 PROVE  raw'[k].by = s
      BY DEF LastWriter
    <2>1. s = r
      <3>1. CASE s # r
        <4>1. Active(s)
          BY <1>7, <3>1 DEF Active, AfterUpsert, Idle
        <4> QED
          BY <1>9, <4>1, <3>1 DEF OneActive
      <3> QED
        BY <3>1
    <2> QED
      BY <1>4, <1>7, <2>1
  <1>12. LoadedIsCurrent => LoadedIsCurrent'
    <2> SUFFICES ASSUME LoadedIsCurrent, NEW s \in Runs, run'[s].loaded,
                        NEW k \in DOMAIN Accepted(run'[s].batch), raw'[k].by = s
                 PROVE  k \in DOMAIN clean' /\ clean'[k].by = s
      BY DEF LoadedIsCurrent
    <2>1. s # r /\ run'[s] = run[s]
      BY <1>2, <1>7
    <2>2. k \in DOMAIN run[s].batch
      BY <2>1 DEF Accepted
    <2>3. k \in DOMAIN raw
      BY <2>1, <2>2 DEF LagInv, RawOfLanded
    <2>4. raw'[k] = raw[k]
      BY <1>4, <2>1, <2>3
    <2> QED
      BY <1>3, <2>1, <2>4 DEF LoadedIsCurrent
  <1> QED
    BY <1>3, <1>8, <1>10, <1>11, <1>12 DEF LagInv

\* What the run loads is what raw_jobs holds, unless the runs overlap.
LEMMA CleanCommitsKeepsLag ==
    ASSUME RunTyped, OthersTyped, AllSound, LagInv, NEW r \in Runs, CleanCommits(r)
    PROVE  LagInv'
  <1> DEFINE accepted == Accepted(run[r].batch)
             done == [run[r] EXCEPT !.loaded = TRUE]
  <1>1. run[r] \in RunStates /\ run[r].at = "clean_upsert"
    BY DEF RunTyped, CleanCommits
  <1>2. run[r].effect # NoCounts
    BY <1>1 DEF AllSound, RunSound, Underway
  <1>3. raw' = raw /\ overlapped' = overlapped
    BY DEF CleanCommits
  <1>4. /\ DOMAIN clean' = DOMAIN clean \cup DOMAIN accepted
        /\ \A k \in DOMAIN accepted : clean'[k].by = r
        /\ \A k \in DOMAIN clean \ DOMAIN accepted : clean'[k] = clean[k]
    BY DEF CleanCommits, Upsert
  <1>5. /\ run'[r].at = "persisting"
        /\ run'[r].batch = run[r].batch
        /\ run'[r].effect = run[r].effect
        /\ run'[r].loaded
        /\ \A s \in Runs \ {r} : run'[s] = run[s]
    <2>1. \E s, b : Leaves(r, s, b, done)
      BY DEF CleanCommits, Raises
    <2>2. /\ done \in RunStates
          /\ done.batch = run[r].batch
          /\ done.effect = run[r].effect
          /\ done.loaded
      BY <1>1 DEF RunStates
    <2> HIDE DEF done
    <2>3. MovesAs(r, "persisting", done)
      BY <2>1, <2>2, LeavesAs
    <2> QED
      BY <2>2, <2>3 DEF MovesAs
  <1>6. \A k \in DOMAIN raw : raw[k].by \in Runs
    BY TableShape DEF OthersTyped
  <1>7. RawOfLanded'
    BY <1>2, <1>3, <1>5, <1>6 DEF LagInv, RawOfLanded
  <1>8. OneActive => OneActive'
    BY <1>1, <1>5 DEF OneActive, Active, Idle
  <1>9. LastWriter => LastWriter'
    BY <1>3, <1>5 DEF LastWriter, AfterUpsert
  <1>10. LastWriter /\ LoadedIsCurrent => LoadedIsCurrent'
    <2> SUFFICES ASSUME LastWriter, LoadedIsCurrent,
                        NEW s \in Runs, run'[s].loaded,
                        NEW k \in DOMAIN Accepted(run'[s].batch), raw[k].by = s
                 PROVE  k \in DOMAIN clean' /\ clean'[k].by = s
      BY <1>3 DEF LoadedIsCurrent
    <2>1. CASE s = r
      BY <1>4, <1>5, <2>1
    <2>2. CASE s # r
      <3>1. k \in DOMAIN clean /\ clean[k].by = s
        BY <1>5, <2>2 DEF LoadedIsCurrent
      <3>2. k \notin DOMAIN accepted
        <4>1. \A j \in DOMAIN run[r].batch : raw[j].by = r
          BY <1>1 DEF LastWriter, AfterUpsert
        <4> QED
          BY <2>2, <4>1 DEF Accepted
      <3> QED
        BY <1>4, <3>1, <3>2
    <2> QED
      BY <2>1, <2>2
  <1> QED
    BY <1>3, <1>7, <1>8, <1>9, <1>10 DEF LagInv

\* All other steps of a run carry on with what it has.
LEMMA OthersCarry ==
    ASSUME RunTyped, OthersTyped, NEW r \in Runs,
           \/ ChecksSchema(r) \/ OpensSource(r) \/ RawLocks(r) \/ RawFails(r)
           \/ Screens(r) \/ CleanFails(r) \/ Persists(r) \/ Pings(r)
           \/ Interrupted(r) \/ Killed(r)
    PROVE  Carries(r)
  <1> USE DEF Active, Idle, AfterUpsert, InTry, tables
  <1>1. run[r] \in RunStates
    BY DEF RunTyped
  <1>2. CASE ChecksSchema(r)
    BY <1>1, <1>2, GoesOnAs, RaisesAs DEF ChecksSchema, Carries
  <1>3. CASE OpensSource(r)
    BY <1>1, <1>3, GoesOnAs, RaisesAs DEF OpensSource, Carries
  <1>4. CASE RawLocks(r)
    <2> DEFINE u == [run[r] EXCEPT !.known = Payloads]
    <2>1. Payloads \in Batches
      BY PayloadsTyped DEF OthersTyped
    <2>2. /\ u \in RunStates
          /\ u.batch = run[r].batch
          /\ u.effect = run[r].effect
          /\ u.loaded = run[r].loaded
      BY <1>1, <2>1 DEF RunStates
    <2>3. GoesOn(r, "raw_locked", u)
      BY <1>4 DEF RawLocks
    <2> HIDE DEF u
    <2>4. MovesAs(r, "raw_locked", u)
      BY <2>2, <2>3, GoesOnAs
    <2> QED
      BY <1>4, <2>2, <2>4 DEF RawLocks, Carries, MovesAs
  <1>5. CASE RawFails(r)
    BY <1>1, <1>5, RaisesAs DEF RawFails, Carries
  <1>6. CASE Screens(r)
    <2> DEFINE rejected == Cardinality(Rejected(run[r].batch))
               u == [run[r] EXCEPT !.summary.skipped = rejected]
    <2>1. rejected \in Counters
      BY <1>1, RunFields, CountOfBatch DEF Rejected
    <2>2. /\ u \in RunStates
          /\ u.batch = run[r].batch
          /\ u.effect = run[r].effect
          /\ u.loaded = run[r].loaded
      <3> HIDE DEF rejected
      <3> QED
        BY <1>1, <2>1 DEF RunStates, Summaries
    <2>3. \/ Raises(r, "safety_aborted", "yield_check", run[r])
          \/ Raises(r, "safety_aborted", "row_quality_check", u)
          \/ GoesOn(r, "clean_upsert", u)
      BY <1>6 DEF Screens
    <2> HIDE DEF u
    <2>4. PICK place \in {"persisting", "clean_upsert"} : MovesAs(r, place, run[r])
      BY <1>1, <2>2, <2>3, GoesOnAs, RaisesAs DEF MovesAs
    <2> QED
      BY <1>6, <2>4 DEF Screens, Carries
  <1>7. CASE CleanFails(r)
    BY <1>1, <1>7, RaisesAs DEF CleanFails, Carries
  <1>8. CASE Persists(r)
    <2>1. PICK place \in {"reporting", "exited"} : GoesOn(r, place, run[r])
      BY <1>8 DEF Persists
    <2> QED
      BY <1>1, <1>8, <2>1, GoesOnAs DEF Persists, Carries
  <1>9. CASE Pings(r)
    BY <1>1, <1>9, GoesOnAs DEF Pings, Carries
  <1>10. CASE Interrupted(r)
    <2>1. MovesAs(r, "persisting", run[r])
      BY <1>1, <1>10 DEF Interrupted, Leaves, MovesAs, RunTyped, RunStates
    <2> QED
      BY <1>10, <2>1 DEF Interrupted, Carries
  <1>11. CASE Killed(r)
    BY <1>1, <1>11, GoesOnAs DEF Killed, Carries
  <1> QED
    BY <1>2, <1>3, <1>4, <1>5, <1>6, <1>7, <1>8, <1>9, <1>10, <1>11

LEMMA InitLag == Init => LagInv
  <1> SUFFICES ASSUME Init PROVE LagInv
    OBVIOUS
  <1>1. RawOfLanded
    BY DEF Init, RawOfLanded, NoRow
  <1>2. OneActive /\ LastWriter /\ LoadedIsCurrent
    BY DEF Init, OneActive, LastWriter, LoadedIsCurrent, Active, Idle, AfterUpsert
  <1> QED
    BY <1>1, <1>2 DEF LagInv

LEMMA StepKeepsLag == IngestionInv /\ GateInv /\ LagInv /\ [Next]_vars => LagInv'
  <1> SUFFICES ASSUME IngestionInv, GateInv, LagInv, [Next]_vars PROVE LagInv'
    OBVIOUS
  <1>1. RunTyped /\ OthersTyped /\ AllSound
    BY DEF IngestionInv, GateInv
  <1>2. CASE UNCHANGED vars
    BY <1>2 DEF vars, tables, LagInv, RawOfLanded, OneActive, LastWriter,
       LoadedIsCurrent, Active
  <1>3. ASSUME NEW r \in Runs, Starts(r)
        PROVE  LagInv'
    BY <1>1, <1>3, StartsKeepsLag
  <1>4. ASSUME NEW r \in Runs,
               Progresses(r) \/ RawFails(r) \/ CleanFails(r) \/ Interrupted(r) \/ Killed(r)
        PROVE  LagInv'
    <2>1. CASE Fetches(r)
      BY <1>1, <2>1, FetchesKeepsLag
    <2>2. CASE RawSkips(r)
      BY <1>1, <2>2, RawSkipsKeepsLag
    <2>3. CASE RawCommits(r)
      BY <1>1, <2>3, RawCommitsKeepsLag
    <2>4. CASE CleanCommits(r)
      BY <1>1, <2>4, CleanCommitsKeepsLag
    <2>5. CASE \/ ChecksSchema(r) \/ OpensSource(r) \/ RawLocks(r) \/ RawFails(r)
               \/ Screens(r) \/ CleanFails(r) \/ Persists(r) \/ Pings(r)
               \/ Interrupted(r) \/ Killed(r)
      <3>1. Carries(r)
        BY <1>1, <2>5, OthersCarry
      <3> QED
        BY <1>1, <3>1, CarriesKeepsLag
    <2> QED
      BY <1>4, <2>1, <2>2, <2>3, <2>4, <2>5 DEF Progresses
  <1>5. CASE AllOver
    BY <1>2, <1>5 DEF AllOver
  <1> QED
    BY <1>2, <1>3, <1>4, <1>5 DEF Next

LEMMA AlwaysLagInv == Spec => [](IngestionInv /\ GateInv /\ LagInv)
  BY InitEstablishes, StepKeeps, InitGates, StepKeepsGates, InitLag, StepKeepsLag, PTL
     DEF Spec

\* Unless runs overlap, the agent reads an older version of a posting than
\* raw_jobs holds only where the run that landed the newer one dropped it or did
\* not get to load it (run_ingestion in services/ingestion/loader.py).
THEOREM CleanOnlyLagsDropped == Spec => []CleanLagsOnlyDropped
  <1>1. IngestionInv /\ GateInv /\ LagInv => CleanLagsOnlyDropped
    <2> SUFFICES ASSUME IngestionInv, GateInv, LagInv, ~overlapped,
                        NEW k \in DOMAIN clean
                 PROVE  /\ k \in DOMAIN raw
                        /\ raw[k].content # clean[k].content =>
                             \/ ~run[raw[k].by].loaded
                             \/ raw[k].content \in Malformed \cup LowQuality
      BY DEF CleanLagsOnlyDropped
    <2>1. /\ clean[k].by \in Runs
          /\ run[clean[k].by].loaded
          /\ k \in DOMAIN run[clean[k].by].batch
          /\ clean[k].content = run[clean[k].by].batch[k]
      BY TableShape DEF IngestionInv, OthersTyped, GateInv, CleanOfLoaded, Accepted
    <2>2. k \in DOMAIN raw
      BY <2>1 DEF LagInv, RawOfLanded
    <2>3. /\ raw[k].by \in Runs
          /\ k \in DOMAIN run[raw[k].by].batch
          /\ raw[k].content = run[raw[k].by].batch[k]
      BY <2>2, TableShape DEF IngestionInv, OthersTyped, LagInv, RawOfLanded
    <2>4. ASSUME run[raw[k].by].loaded,
                 raw[k].content \notin Malformed \cup LowQuality
          PROVE  raw[k].content = clean[k].content
      <3>1. k \in DOMAIN Accepted(run[raw[k].by].batch)
        BY <2>3, <2>4 DEF Accepted, Rejected
      <3>2. clean[k].by = raw[k].by
        BY <2>3, <2>4, <3>1 DEF LagInv, LoadedIsCurrent
      <3> QED
        BY <2>1, <2>3, <3>2
    <2> QED
      BY <2>2, <2>4
  <1> QED
    BY <1>1, AlwaysLagInv, PTL

=============================================================================
