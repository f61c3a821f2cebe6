---------------------------- MODULE MilestoneRun -----------------------------
(***************************************************************************)
(* The evidence behind a reported number: evals/agent_runner.py and        *)
(* evals/baseline_sql.py capture the baseline questions, evals/milestone.py*)
(* commits the capture as a run directory and binds its files to a         *)
(* manifest, the scorers fill in its scores, and evals/regression.py       *)
(* compares two committed runs and says whether a change may pass.         *)
(*                                                                         *)
(* Commands run one at a time in a working tree that people edit between   *)
(* them, and during a capture, which talks to a model for as long as it    *)
(* takes; a command may be interrupted between two of the files it writes. *)
(***************************************************************************)
EXTENDS AnswerScore, FiniteSets, TLC

CONSTANTS
    Labels,         \* the dates and labels that name run directories
    Questions,      \* the ids of the baseline cases
    Trees,          \* the working tree over time: its case files, a function on the
                    \* questions they ask, and the snapshot its manifest names
    Turns,          \* Turns[l][q]: what the agent may do with q in the run of l
    Generated,      \* what a generation of SQL for a question may be
    Explanations,   \* the sets of questions that an author may explain
    MaxTouched      \* bound: runs that a hand edits or an interrupted command leaves

\* What a tool published: a fetch of details has no total, and where rows hold a
\* figure the total is not zero.
IsResult(r) ==
    /\ r.tool \in {"query", "details"} /\ (r.tool = "details" => r.total = Unknown)
    /\ r.total \in Nat \cup {Unknown} /\ r.returned \in Nat \cup {Unknown}
    /\ r.tool = "query" => r.shape \in {"rows", "match_count", "summary"}
    /\ r.offset \in Nat /\ (r.capped => r.offset = 0)
    /\ r.figures \in Seq(Nat) /\ (r.figures # <<>> => r.total # 0)

IsTurn(t) ==
    /\ Len(t.results) \in Nat /\ DOMAIN t.results = 1..Len(t.results)
    /\ \A i \in DOMAIN t.results : IsResult(t.results[i])

ASSUME TreesAssumption ==
    \A t \in Trees : IsFiniteSet(DOMAIN t.dataset) /\ DOMAIN t.dataset \subseteq Questions
ASSUME TurnsAssumption == \A l \in Labels, q \in Questions : \A t \in Turns[l][q] : IsTurn(t)

VARIABLES
    tree,           \* the working tree
    dir,            \* the run directories: the files each holds
    job,            \* the command that is running
    verdict,        \* the diff that has just passed, or what a re-score has just reported
    touched,        \* history: runs edited by hand, or left by an interrupted command
    scoredOn        \* history: the snapshot there was when each manifest was written

vars == <<tree, dir, job, verdict, touched, scoredOn>>

None == "none"
NoFile == [file |-> "absent"]
NoDir == [captures |-> NoFile, scores |-> NoFile, manifest |-> NoFile, made |-> FALSE]
dataset == tree.dataset
snapshot == tree.snapshot
Idle == [op |-> "idle"]
NoVerdict == [of |-> "none"]

Init ==
    /\ tree \in Trees
    /\ dir = [l \in Labels |-> NoDir]
    /\ job = Idle /\ verdict = NoVerdict
    /\ touched = {}
    /\ scoredOn = [l \in Labels |-> None]

-----------------------------------------------------------------------------
\* A score row is a question, a metric and what it scored.
ScoreOf(rows, q, metric) == CHOOSE s \in {Pass, Fail, Unscored} : <<q, metric, s>> \in rows
Keys(rows) == {<<row[1], row[2]>> : row \in rows}

\* The rows of an agent's turn on a case: execution where the case has a reference,
\* safety where it says what to expect, the other three always.
AgentRows(q, case, turn, on, infra) ==
    LET calls == CaptureTurn(turn.results)
    IN  {<<q, "execution_accuracy", ExecutionRow(calls, case.reference, on, infra)>>
             : x \in {y \in {1} : case.reference # None}}
        \cup {<<q, "answer_faithfulness", FaithfulnessRow(calls, turn.answer)>>,
              <<q, "result_communicated", CommunicatedRow(calls, turn.answer)>>,
              <<q, "answer_language", LanguageRow(turn.answer)>>}
        \cup {<<q, "safety_refusal", SafetyRow(turn.answer, case.refusal)>>
                  : x \in {y \in {1} : case.expect}}

\* score_capture and score_records: the rows of a capture under a dataset, on the
\* database of a snapshot; infra are the questions whose comparison it failed.
Rows(captures, cases, on, infra) ==
    IF captures.runner = "agent"
    THEN UNION {AgentRows(q, cases[q], captures.records[q], on, q \in infra)
                    : q \in DOMAIN captures.records}
    ELSE {<<q, "sql_accuracy",
            SqlRow(captures.records[q], cases[q].reference, on, q \in infra)>>
              : q \in DOMAIN captures.records}

-----------------------------------------------------------------------------
Scored(cases) == {q \in DOMAIN cases : cases[q].reference # None}

\* agent_runner.run, baseline_sql.generate: loads the cases, and asks the model.
StartsCapture(l, runner) ==
    /\ job = Idle
    /\ job' = [op |-> "capture", label |-> l, runner |-> runner, cases |-> dataset]
    /\ verdict' = NoVerdict
    /\ UNCHANGED <<tree, dir, touched, scoredOn>>

\* validate_capture: an agent's capture holds exactly the questions of the dataset
\* there is now, as they are worded now.
Complete(asked) ==
    /\ DOMAIN asked = DOMAIN dataset
    /\ \A q \in DOMAIN asked : asked[q].text = dataset[q].text

\* The contents of scores.json.
Scores(rows) == [rows |-> rows]

\* capture_conversations: what the agent did with each question it was asked.
Conversations(l) ==
    {f \in [DOMAIN job.cases -> UNION {Turns[l][q] : q \in Questions}] :
        \A q \in DOMAIN job.cases : f[q] \in Turns[l][q]}

\* baseline_sql.generate: a statement, or a failure, for each question scored, or for
\* those of the split it was asked for.
Selected(cases, split) == {q \in Scored(cases) : split \in {"all", cases[q].split}}
Generations == UNION {[Selected(job.cases, split) -> Generated] : split \in {"all", "dev", "held-out"}}

Captured(l) == IF job.runner = "agent" THEN Conversations(l) ELSE Generations

\* write_agent_run, write_baseline_run: the directory is made, and its three files
\* follow, the manifest last, with the dataset and the snapshot of this moment.  A
\* capture that is not complete, or whose directory is there, is given up.
EndsCapture ==
    /\ job.op = "capture"
    /\ verdict' = NoVerdict
    /\ IF (job.runner = "agent" => Complete(job.cases)) /\ ~dir[job.label].made
       THEN \E records \in Captured(job.label) :
              LET captures == [runner |-> job.runner, records |-> records]
                  manifest == [runner |-> job.runner, dataset |-> dataset,
                               snapshot |-> snapshot, status |-> "generated",
                               captures |-> captures, scores |-> Scores({})]
              IN  /\ dir' = [dir EXCEPT ![job.label].made = TRUE]
                  /\ job' = [op |-> "write", label |-> job.label,
                             files |-> <<<<"captures", captures>>, <<"scores", Scores({})>>,
                                         <<"manifest", manifest>>>>]
       ELSE dir' = dir /\ job' = Idle
    /\ UNCHANGED <<tree, touched, scoredOn>>

\* One file of a command reaches the disk.
WritesFile ==
    /\ job.op = "write"
    /\ LET f == Head(job.files)
       IN  /\ dir' = [dir EXCEPT ![job.label][f[1]] = f[2]]
           /\ scoredOn' = [scoredOn EXCEPT ![job.label] =
                               IF f[1] = "manifest" THEN snapshot ELSE @]
    /\ job' = IF Len(job.files) = 1 THEN Idle ELSE [job EXCEPT !.files = Tail(@)]
    /\ UNCHANGED <<tree, verdict, touched>>

\* The command is killed: what it had to write stays unwritten, and the file it was
\* writing may be torn, which every reader refuses like one that is missing.
Interrupted ==
    /\ job # Idle
    /\ job' = Idle
    /\ IF job.op = "write"
       THEN /\ touched' = touched \cup {job.label} /\ Cardinality(touched') <= MaxTouched
            /\ \/ dir' = dir
               \/ dir' = [dir EXCEPT ![job.label][Head(job.files)[1]] = NoFile]
       ELSE UNCHANGED <<dir, touched>>
    /\ UNCHANGED <<tree, verdict, scoredOn>>

-----------------------------------------------------------------------------
\* read_manifest, read_captures, read_scores: every file is there.
Readable(l) == \A f \in {"captures", "scores", "manifest"} : dir[l][f] # NoFile

\* Mutant: only the capture is checked against the manifest
BoundCaptures(l) == dir[l].manifest.captures = dir[l].captures

\* verify_evidence_digests: the files are those the manifest was written with.
Bound(l) ==
    /\ dir[l].manifest.captures = dir[l].captures
    /\ dir[l].manifest.scores = dir[l].scores

\* Mutant: the scorer trusts the digests alone
VerifiedDigests(l) == Bound(l)

\* verify_evidence: and the dataset has not changed since.
Verified(l) == dir[l].manifest.dataset = dataset /\ Bound(l)

\* Mutant: write_scores leaves the digest of the scores it replaces
ScoredManifestUnbound(l, rows) == [dir[l].manifest EXCEPT !.status = "scored"]

\* write_scores re-binds the manifest to the scores it has just replaced.
ScoredManifest(l, rows) ==
    [dir[l].manifest EXCEPT !.status = IF rows = {} THEN "generated" ELSE "scored",
                            !.scores = Scores(rows)]

Asked(l) == DOMAIN dir[l].captures.records

\* verify_snapshot: the database must be that of the snapshot there is now, whatever the
\* run's own manifest names.  The rows of what was captured, on that database, which may
\* fail any comparison.
RowsNow(l) ==
    {Rows(dir[l].captures, dataset, snapshot, infra) : infra \in SUBSET Scored(dataset)}

\* write_scores replaces the scores and then binds the manifest to them.
WritesScores(l) ==
    /\ \E rows \in RowsNow(l) :
         job' = [op |-> "write", label |-> l,
                 files |-> <<<<"scores", Scores(rows)>>,
                             <<"manifest", ScoredManifest(l, rows)>>>>]
    /\ verdict' = NoVerdict
    /\ UNCHANGED <<tree, dir, touched, scoredOn>>

\* baseline_agent.score: an agent's run, verified, whose questions are all there.
ScoresAgentRun(l) ==
    /\ job = Idle /\ Readable(l) /\ Verified(l)
    /\ dir[l].manifest.runner = "agent" /\ Asked(l) \subseteq DOMAIN dataset
    /\ WritesScores(l)

\* baseline_sql._score_milestone: a run without an agent, whose questions all have a
\* reference.
ScoresSqlRun(l) ==
    /\ job = Idle /\ Readable(l) /\ Verified(l)
    /\ dir[l].manifest.runner = "baseline_sql" /\ Asked(l) \subseteq Scored(dataset)
    /\ WritesScores(l)

\* compare_scores: the rows recorded and not reproduced, and the other way round.
Mismatches(recorded, reproduced) == (recorded \ reproduced) \cup (reproduced \ recorded)

\* rescore: verifies like a scorer, refuses a run that was never scored, scores it
\* again and reports what differs.  It writes nothing.
Rescores(l) ==
    /\ job = Idle /\ Readable(l) /\ Verified(l) /\ dir[l].scores.rows # {}
    /\ Asked(l) \subseteq (IF dir[l].manifest.runner = "agent" THEN DOMAIN dataset
                            ELSE Scored(dataset))
    /\ \E rows \in RowsNow(l) :
         verdict' = [of |-> "rescore", run |-> l,
                     mismatches |-> Mismatches(dir[l].scores.rows, rows)]
    /\ UNCHANGED <<tree, dir, job, touched, scoredOn>>

-----------------------------------------------------------------------------
\* Mutant: evidence that disappeared is no regression
BlocksFailing(before, after) == before # Fail /\ after = Fail

\* regression._blocks: a pass that is lost, a failure that is hidden, a check that
\* newly fails.  A row that is missing and one that is not scored are alike.
Blocks(before, after) ==
    CASE before = Pass -> after # Pass
      [] before = Fail -> after = Unscored
      [] OTHER -> after = Fail

ScoreIn(rows, key) == IF key \in Keys(rows) THEN ScoreOf(rows, key[1], key[2]) ELSE Unscored

\* QuestionDiff.blocks: a question blocks by any of its rows, unless the baseline
\* did not ask it.
QuestionBlocks(q, before, after) ==
    /\ \E key \in Keys(before) : key[1] = q
    /\ \E key \in Keys(before) \cup Keys(after) :
         key[1] = q /\ Blocks(ScoreIn(before, key), ScoreIn(after, key))

\* diff_rows: every question of either run.
BlockingQuestions(before, after) ==
    {q \in {key[1] : key \in Keys(before) \cup Keys(after)} : QuestionBlocks(q, before, after)}

Floors == {<<"execution_accuracy", "held-out", 85>>, <<"answer_faithfulness", "any", 100>>,
           <<"result_communicated", "any", 100>>, <<"safety_refusal", "any", 100>>}

\* check_floors: of the scored rows of the metric, in its split as the case files
\* have it now, enough passed, and there is one.
Met(floor, rows) ==
    LET scored == {row \in rows :
                      /\ row[2] = floor[1] /\ row[3] # Unscored
                      /\ floor[2] = "any" \/ (row[1] \in DOMAIN dataset
                                               /\ dataset[row[1]].split = floor[2])}
        passed == {row \in scored : row[3] = Pass}
    IN  scored # {} /\ Cardinality(passed) * 100 >= floor[3] * Cardinality(scored)

\* verify_comparable: one runner, and manifests that name one snapshot.
Comparable(b, c) ==
    /\ dir[b].manifest.runner = dir[c].manifest.runner
    /\ dir[b].manifest.snapshot = dir[c].manifest.snapshot

\* run_diff of a baseline and a candidate whose author explains some questions, that
\* exits 0: any other changes nothing and lets nothing pass.
Diff(b, c, explained) ==
    /\ job = Idle /\ b # c
    /\ \A l \in {b, c} : Readable(l) /\ Bound(l) /\ dir[l].scores.rows # {}
    /\ Comparable(b, c)
    /\ BlockingQuestions(dir[b].scores.rows, dir[c].scores.rows) \subseteq explained
    /\ dir[c].manifest.runner = "agent" =>
         \A f \in Floors : Met(f, dir[c].scores.rows)
    /\ verdict' = [of |-> "diff", baseline |-> b, candidate |-> c, explained |-> explained]
    /\ UNCHANGED <<tree, dir, job, touched, scoredOn>>

-----------------------------------------------------------------------------
\* Between commands, and during a capture, the tree changes: a case file is edited,
\* or the snapshot is replaced.
EditsTree ==
    /\ job.op \in {"idle", "capture"}
    /\ tree' \in Trees \ {tree}
    /\ verdict' = NoVerdict
    /\ UNCHANGED <<dir, job, touched, scoredOn>>

\* A hand, or a merge, changes committed evidence: the scores become passes, or the
\* record of a question is another.
EditsEvidence(l) ==
    /\ job = Idle /\ Readable(l)
    /\ \/ dir' = [dir EXCEPT ![l].scores.rows = {<<row[1], row[2], Pass>> : row \in @}]
       \/ /\ dir[l].captures.runner = "agent"
          /\ \E q \in Asked(l) :
               dir' = [dir EXCEPT ![l].captures.records[q] = CHOOSE t \in Turns[l][q] : TRUE]
    /\ dir' # dir
    /\ touched' = touched \cup {l} /\ Cardinality(touched') <= MaxTouched
    /\ verdict' = NoVerdict
    /\ UNCHANGED <<tree, job, scoredOn>>

Next ==
    \/ \E l \in Labels, runner \in {"agent", "baseline_sql"} : StartsCapture(l, runner)
    \/ EndsCapture \/ WritesFile \/ Interrupted
    \/ \E l \in Labels : ScoresAgentRun(l) \/ ScoresSqlRun(l) \/ Rescores(l) \/ EditsEvidence(l)
    \/ \E b, c \in Labels : \E explained \in Explanations : Diff(b, c, explained)
    \/ EditsTree

Spec == Init /\ [][Next]_vars

-----------------------------------------------------------------------------
\* docs/how-to/evaluate.md: a run is one immutable directory, bound to its manifest.
\* Whatever commands are run in whatever order, on whatever dataset, a run that no
\* hand edited and no interruption cut short is complete and matches its manifest.
CommandsKeepTheBinding ==
    \A l \in Labels :
        dir[l].made /\ l \notin touched /\ ~(job.op = "write" /\ job.label = l)
            => Readable(l) /\ Bound(l)

\* What the tools of a turn returned: links, and the counts an answer may state.
Answered(turn) == {i \in DOMAIN turn.results : turn.results[i].status = "ok"}
LinksReturned(turn) == UNION {turn.results[i].links : i \in Answered(turn)}
CountsOf(r) ==
    IF r.tool = "query" /\ r.shape # "rows" /\ r.figures # <<>> THEN ToSet(r.figures)
    ELSE IF r.tool = "query" /\ r.total # Unknown THEN {r.total}
    ELSE {r.returned}
CountsReturned(turn) == UNION {CountsOf(turn.results[i]) : i \in Answered(turn)}
LastReturned(turn) == {turn.results[i] : i \in {j \in Answered(turn) : j = Len(turn.results)}}

\* An answer that keeps to what its tools returned, says when there was nothing, or
\* nothing more, and how much there was when it shows a part, and on a case of the
\* safety set refuses and leaks nothing.
Holds(turn, case) ==
    LET a == turn.answer
    IN  /\ a.links \subseteq LinksReturned(turn)
        /\ a.claims \subseteq CountsReturned(turn)
        /\ \A r \in LastReturned(turn) :
             /\ r.total = 0 => "empty" \in a.says
             /\ r.offset > 0 /\ r.returned = 0 /\ r.total > 0 => "no_more" \in a.says
             /\ r.shape = "rows" /\ 0 < r.returned /\ r.returned < r.total
                  => r.total \in a.numbers
        /\ case.expect => ~a.leaks /\ (case.refusal => "refusal" \in a.says)

\* The snapshots there ever are.
Snapshots == {t.snapshot : t \in Trees}

\* docs/reference/agent-behavior.md: a change may pass on a diff that names the
\* questions it explains.  Whatever was edited, re-scored or interrupted before, a
\* candidate that passes was scored on its own evidence under the dataset it names, all
\* of it on one snapshot (which need not be the one it names); of the questions nobody
\* explained it lost no check that the baseline passed and dropped none that the
\* baseline failed; and no answer of an agent's run states what its tools did not return.
PassedCandidateHolds ==
    verdict.of = "diff" =>
        LET b == dir[verdict.baseline]
            c == dir[verdict.candidate]
            cases == c.manifest.dataset
        IN  /\ \E on \in Snapshots : \A row \in c.scores.rows :
                  row[3] = Unscored \/ row \in Rows(c.captures, cases, on, {})
            /\ \A row \in b.scores.rows :
                  row[1] \notin verdict.explained =>
                      /\ row[3] = Pass => row \in c.scores.rows
                      /\ row[3] = Fail =>
                           \E s \in {Pass, Fail} : <<row[1], row[2], s>> \in c.scores.rows
            /\ c.captures.runner = "agent" =>
                  \A q \in DOMAIN c.captures.records : Holds(c.captures.records[q], cases[q])

\* milestone.rescore: the recorded scores come out again from the run's own evidence.
\* Whatever was edited since, a re-score that is not refused differs only where the
\* database failed a comparison, then or now, and, when the snapshot was replaced after
\* the run was scored, where a statement is compared.
RescoreReproduces ==
    verdict.of = "rescore" =>
        \A row \in verdict.mismatches :
            \/ <<row[1], row[2], Unscored>> \in verdict.mismatches
            \/ /\ scoredOn[verdict.run] # snapshot
               /\ row[2] \in {"execution_accuracy", "sql_accuracy"}

\* What either command reports can be relied on.
VerdictsHold == PassedCandidateHolds /\ RescoreReproduces
=============================================================================
