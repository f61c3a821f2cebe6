------------------------- MODULE MilestoneRunProofs --------------------------
(***************************************************************************)
(* Proofs about MilestoneRun, for any labels, questions, working trees and *)
(* turns, and any number of runs that hands edit or interruptions leave:   *)
(* whatever commands run, a run's files match its manifest, and what a diff*)
(* that passes or a re-score reports can be relied on.                     *)
(***************************************************************************)
EXTENDS MilestoneRun, TLAPS, FiniteSetTheorems, FunctionTheorems

Files == {"captures", "scores", "manifest"}
ManifestFields == {"runner", "dataset", "snapshot", "status", "captures", "scores"}

\* Every label has a directory, and a manifest that is there has its fields.
DirInv ==
    /\ DOMAIN dir = Labels
    /\ \A l \in Labels : /\ DOMAIN dir[l] = Files \cup {"made"}
                         /\ dir[l].manifest = NoFile \/ DOMAIN dir[l].manifest = ManifestFields

\* Three files that belong together.
Matching(c, s, m) == /\ c # NoFile /\ s # NoFile
                     /\ DOMAIN m = ManifestFields /\ m.captures = c /\ m.scores = s

\* What a command has yet to write completes what it has written, or what it found,
\* to three files that belong together.
Completes(l, files) ==
    \E c, s, m : Matching(c, s, m) /\
        \/ files = <<<<"captures", c>>, <<"scores", s>>, <<"manifest", m>>>>
        \/ /\ files = <<<<"scores", s>>, <<"manifest", m>>>>
           /\ l \notin touched => dir[l].captures = c
        \/ /\ files = <<<<"manifest", m>>>>
           /\ l \notin touched => dir[l].captures = c /\ dir[l].scores = s

JobInv ==
    /\ job = Idle \/ job.op \in {"capture", "write"}
    /\ job.op \in {"capture", "write"} => job.label \in Labels
    /\ job.op = "write" => /\ DOMAIN job = {"op", "label", "files"}
                           /\ Completes(job.label, job.files)

Writing(l) == job.op = "write" /\ job.label = l

Whole(l) == dir[l].made /\ l \notin touched /\ ~Writing(l) => Readable(l) /\ Bound(l)

BindingInv == DirInv /\ JobInv /\ \A l \in Labels : Whole(l)

LEMMA BindingInit == Init => BindingInv
<1> SUFFICES ASSUME Init PROVE BindingInv
  OBVIOUS
<1>1. DirInv
  BY DEF Init, DirInv, NoDir, Files
<1>2. JobInv
  BY DEF Init, JobInv, Idle
<1>3. \A l \in Labels : Whole(l)
  BY DEF Init, NoDir, Whole
<1> QED  BY <1>1, <1>2, <1>3 DEF BindingInv

\* What is captured and written for the first time.
LEMMA CaptureBinds ==
    ASSUME BindingInv, EndsCapture
    PROVE  BindingInv'
<1> DEFINE l == job.label
<1>1. l \in Labels
  BY DEF BindingInv, JobInv, EndsCapture
<1>2. CASE job' = Idle /\ dir' = dir /\ touched' = touched
  BY <1>2 DEF BindingInv, DirInv, JobInv, Whole, Writing, Readable, Bound, Idle, EndsCapture
<1>3. CASE ~dir[l].made /\ \E c, s, m :
              /\ Matching(c, s, m)
              /\ dir' = [dir EXCEPT ![l].made = TRUE]
              /\ job' = [op |-> "write", label |-> l,
                         files |-> <<<<"captures", c>>, <<"scores", s>>, <<"manifest", m>>>>]
              /\ touched' = touched
  <2>1. PICK c, s, m :
              /\ Matching(c, s, m)
              /\ dir' = [dir EXCEPT ![l].made = TRUE]
              /\ job' = [op |-> "write", label |-> l,
                         files |-> <<<<"captures", c>>, <<"scores", s>>, <<"manifest", m>>>>]
              /\ touched' = touched
    BY <1>3
  <2>2. DirInv'
    BY <1>1, <2>1 DEF BindingInv, DirInv, Files
  <2>3. JobInv'
    BY <1>1, <2>1 DEF JobInv, Completes
  <2>4. ASSUME NEW k \in Labels PROVE Whole(k)'
    <3>1. CASE k = l
      BY <2>1, <3>1 DEF Whole, Writing
    <3>2. CASE k # l
      BY <1>1, <2>1, <3>2 DEF BindingInv, DirInv, Whole, Writing, Readable, Bound, EndsCapture
    <3> QED  BY <3>1, <3>2
  <2> QED  BY <2>2, <2>3, <2>4 DEF BindingInv
<1>4. \/ job' = Idle /\ dir' = dir /\ touched' = touched
      \/ ~dir[l].made /\ \E c, s, m :
              /\ Matching(c, s, m)
              /\ dir' = [dir EXCEPT ![l].made = TRUE]
              /\ job' = [op |-> "write", label |-> l,
                         files |-> <<<<"captures", c>>, <<"scores", s>>, <<"manifest", m>>>>]
              /\ touched' = touched
  <2>1. CASE ~((job.runner = "agent" => Complete(job.cases)) /\ ~dir[l].made)
    BY <2>1 DEF EndsCapture
  <2>2. CASE (job.runner = "agent" => Complete(job.cases)) /\ ~dir[l].made
    <3>1. PICK records \in Captured(l) :
            LET captures == [runner |-> job.runner, records |-> records]
                manifest == [runner |-> job.runner, dataset |-> dataset,
                             snapshot |-> snapshot, status |-> "generated",
                             captures |-> captures, scores |-> Scores({})]
            IN  /\ dir' = [dir EXCEPT ![l].made = TRUE]
                /\ job' = [op |-> "write", label |-> l,
                           files |-> <<<<"captures", captures>>, <<"scores", Scores({})>>,
                                       <<"manifest", manifest>>>>]
      BY <2>2 DEF EndsCapture
    <3> DEFINE c == [runner |-> job.runner, records |-> records]
               m == [runner |-> job.runner, dataset |-> dataset,
                     snapshot |-> snapshot, status |-> "generated",
                     captures |-> c, scores |-> Scores({})]
    <3>2. c # NoFile /\ Scores({}) # NoFile
      <4>1. DOMAIN c = {"runner", "records"} /\ DOMAIN Scores({}) = {"rows"}
        BY DEF Scores
      <4>2. DOMAIN NoFile = {"file"}
        BY DEF NoFile
      <4> QED  BY <4>1, <4>2
    <3>3. Matching(c, Scores({}), m)
      BY <3>2 DEF Matching, ManifestFields
    <3> QED  BY <2>2, <3>1, <3>3 DEF EndsCapture
  <2> QED  BY <2>1, <2>2
<1> QED  BY <1>2, <1>3, <1>4

\* One file more.
LEMMA WriteBinds ==
    ASSUME BindingInv, WritesFile
    PROVE  BindingInv'
<1> PICK l \in Labels : l = job.label
  BY DEF BindingInv, JobInv, WritesFile
<1> DEFINE next == Head(job.files)
<1>0. /\ dir' = [dir EXCEPT ![l][next[1]] = next[2]]
      /\ job' = IF Len(job.files) = 1 THEN Idle ELSE [job EXCEPT !.files = Tail(@)]
      /\ touched' = touched
  BY DEF WritesFile
<1>1. job.op = "write" /\ job.label = l /\ DOMAIN job = {"op", "label", "files"}
  BY DEF BindingInv, JobInv, WritesFile
<1>2. PICK c, s, m : Matching(c, s, m) /\
        \/ job.files = <<<<"captures", c>>, <<"scores", s>>, <<"manifest", m>>>>
        \/ /\ job.files = <<<<"scores", s>>, <<"manifest", m>>>>
           /\ l \notin touched => dir[l].captures = c
        \/ /\ job.files = <<<<"manifest", m>>>>
           /\ l \notin touched => dir[l].captures = c /\ dir[l].scores = s
  BY <1>1 DEF BindingInv, JobInv, Completes
<1>3. ASSUME NEW f \in Files, NEW v, dir' = [dir EXCEPT ![l][f] = v],
             f = "manifest" => DOMAIN v = ManifestFields
      PROVE  /\ DirInv'
             /\ dir'[l][f] = v
             /\ \A g \in Files \cup {"made"} : g # f => dir'[l][g] = dir[l][g]
             /\ \A k \in Labels : k # l => dir'[k] = dir[k]
  BY <1>1, <1>3 DEF BindingInv, DirInv, Files
<1>4. ASSUME NEW k \in Labels, k # l, dir'[k] = dir[k], touched' = touched,
             job' = Idle \/ job'.label = l
      PROVE  Whole(k)'
  BY <1>1, <1>4 DEF BindingInv, Whole, Writing, Readable, Bound, Idle
<1>5. CASE job.files = <<<<"captures", c>>, <<"scores", s>>, <<"manifest", m>>>>
  <2>1. dir' = [dir EXCEPT ![l]["captures"] = c]
    <3>1. next = <<"captures", c>>
      BY <1>5
    <3>2. next[1] = "captures" /\ next[2] = c
      BY <3>1
    <3> QED  BY <1>0, <3>2
  <2>2. /\ job'.op = "write" /\ job'.label = l /\ DOMAIN job' = DOMAIN job
        /\ job'.files = <<<<"scores", s>>, <<"manifest", m>>>>
    <3>1. Len(job.files) = 3 /\ Tail(job.files) = <<<<"scores", s>>, <<"manifest", m>>>>
      BY <1>5
    <3> QED  BY <1>0, <1>1, <3>1
  <2>3. /\ DirInv' /\ dir'[l].captures = c
        /\ \A k \in Labels : k # l => dir'[k] = dir[k]
    BY <1>3, <2>1 DEF Files
  <2>4. touched' = touched
    BY <1>0
  <2>5. JobInv'
    BY <1>1, <1>2, <2>2, <2>3, <2>4 DEF JobInv, Completes
  <2>6. \A k \in Labels : Whole(k)'
    BY <1>4, <2>2, <2>3, <2>4 DEF Whole, Writing
  <2> QED  BY <2>3, <2>5, <2>6 DEF BindingInv
<1>6. CASE /\ job.files = <<<<"scores", s>>, <<"manifest", m>>>>
           /\ l \notin touched => dir[l].captures = c
  <2>1. dir' = [dir EXCEPT ![l]["scores"] = s]
    <3>1. next = <<"scores", s>>
      BY <1>6
    <3>2. next[1] = "scores" /\ next[2] = s
      BY <3>1
    <3> QED  BY <1>0, <3>2
  <2>2. /\ job'.op = "write" /\ job'.label = l /\ DOMAIN job' = DOMAIN job
        /\ job'.files = <<<<"manifest", m>>>>
    <3>1. Len(job.files) = 2 /\ Tail(job.files) = <<<<"manifest", m>>>>
      BY <1>6
    <3> QED  BY <1>0, <1>1, <3>1
  <2>3. /\ DirInv' /\ dir'[l].scores = s /\ dir'[l].captures = dir[l].captures
        /\ \A k \in Labels : k # l => dir'[k] = dir[k]
    BY <1>3, <2>1 DEF Files
  <2>4. touched' = touched
    BY <1>0
  <2>5. JobInv'
    BY <1>1, <1>2, <1>6, <2>2, <2>3, <2>4 DEF JobInv, Completes
  <2>6. \A k \in Labels : Whole(k)'
    BY <1>4, <2>2, <2>3, <2>4 DEF Whole, Writing
  <2> QED  BY <2>3, <2>5, <2>6 DEF BindingInv
<1>7. CASE /\ job.files = <<<<"manifest", m>>>>
           /\ l \notin touched => dir[l].captures = c /\ dir[l].scores = s
  <2>1. dir' = [dir EXCEPT ![l]["manifest"] = m]
    <3>1. next = <<"manifest", m>>
      BY <1>7
    <3>2. next[1] = "manifest" /\ next[2] = m
      BY <3>1
    <3> QED  BY <1>0, <3>2
  <2>2. job' = Idle
    <3>1. Len(job.files) = 1
      BY <1>7
    <3> QED  BY <1>0, <3>1
  <2>3. DOMAIN m = ManifestFields
    BY <1>2 DEF Matching
  <2>4. /\ DirInv' /\ dir'[l].manifest = m
        /\ dir'[l].scores = dir[l].scores /\ dir'[l].captures = dir[l].captures
        /\ \A k \in Labels : k # l => dir'[k] = dir[k]
    BY <1>3, <2>1, <2>3 DEF Files
  <2>5. touched' = touched
    BY <1>0
  <2>6. JobInv'
    BY <2>2 DEF JobInv, Idle
  <2>7. m # NoFile
    BY <2>3 DEF NoFile, ManifestFields
  <2>8. Whole(l)'
    <3> SUFFICES ASSUME l \notin touched PROVE Readable(l)' /\ Bound(l)'
      BY <2>5 DEF Whole
    <3>1. dir'[l].captures = c /\ dir'[l].scores = s /\ dir'[l].manifest = m
      BY <1>7, <2>4
    <3> QED  BY <1>2, <2>7, <3>1 DEF Readable, Bound, Matching
  <2>9. ASSUME NEW k \in Labels PROVE Whole(k)'
    <3>1. CASE k = l
      BY <2>8, <3>1
    <3>2. CASE k # l
      BY <1>4, <2>2, <2>4, <2>5, <3>2
    <3> QED  BY <3>1, <3>2
  <2> QED  BY <2>4, <2>6, <2>9 DEF BindingInv
<1> QED  BY <1>2, <1>5, <1>6, <1>7

\* An interruption leaves its mark.
LEMMA InterruptionMarks ==
    ASSUME BindingInv, Interrupted
    PROVE  BindingInv'
<1> DEFINE l == job.label
<1>1. job' = Idle /\ JobInv'
  BY DEF Interrupted, JobInv, Idle
<1>2. CASE job.op = "write"
  <2>1. l \in Labels /\ Completes(l, job.files)
    BY <1>2 DEF BindingInv, JobInv
  <2>2. Head(job.files)[1] \in Files
    BY <2>1 DEF Completes, Files
  <2>3. touched' = touched \cup {l}
    BY <1>2 DEF Interrupted
  <2>4. dir' = dir \/ dir' = [dir EXCEPT ![l][Head(job.files)[1]] = NoFile]
    BY <1>2 DEF Interrupted
  <2>5. DirInv'
    BY <2>1, <2>2, <2>4 DEF BindingInv, DirInv, Files
  <2>6. ASSUME NEW k \in Labels PROVE Whole(k)'
    BY <1>2, <2>1, <2>3, <2>4 DEF BindingInv, DirInv, Whole, Writing, Readable, Bound
  <2> QED  BY <1>1, <2>5, <2>6 DEF BindingInv
<1>3. CASE job.op # "write"
  <2>1. dir' = dir /\ touched' = touched
    BY <1>3 DEF Interrupted
  <2> QED  BY <1>1, <1>3, <2>1
           DEF BindingInv, DirInv, Whole, Writing, Readable, Bound, Idle
<1> QED  BY <1>2, <1>3

\* A scorer finds three files that belong together, and starts to write two that
\* belong to the third.
LEMMA ScoreBinds ==
    ASSUME BindingInv, NEW l \in Labels, ScoresAgentRun(l) \/ ScoresSqlRun(l)
    PROVE  BindingInv'
<1>0. WritesScores(l) /\ job = Idle /\ Readable(l) /\ Verified(l)
  BY DEF ScoresAgentRun, ScoresSqlRun
<1>1. PICK rows :
        job' = [op |-> "write", label |-> l,
                files |-> <<<<"scores", Scores(rows)>>, <<"manifest", ScoredManifest(l, rows)>>>>]
  BY <1>0 DEF WritesScores
<1>2. UNCHANGED <<dir, touched>> /\ Readable(l) /\ Bound(l)
  BY <1>0 DEF WritesScores, Verified
<1>3. Matching(dir[l].captures, Scores(rows), ScoredManifest(l, rows))
  <2>1. dir[l].captures # NoFile /\ dir[l].manifest # NoFile
    BY <1>2 DEF Readable
  <2>2. DOMAIN Scores(rows) = {"rows"} /\ DOMAIN NoFile = {"file"}
    BY DEF Scores, NoFile
  <2>3. DOMAIN dir[l].manifest = ManifestFields
    BY <2>1 DEF BindingInv, DirInv
  <2>4. /\ DOMAIN ScoredManifest(l, rows) = ManifestFields
        /\ ScoredManifest(l, rows).captures = dir[l].captures
        /\ ScoredManifest(l, rows).scores = Scores(rows)
    BY <1>2, <2>3 DEF ScoredManifest, ManifestFields, Bound
  <2> QED  BY <2>1, <2>2, <2>4 DEF Matching
<1>4. DirInv'
  BY <1>2 DEF BindingInv, DirInv
<1>5. JobInv'
  BY <1>1, <1>2, <1>3 DEF JobInv, Completes
<1>6. ASSUME NEW k \in Labels PROVE Whole(k)'
  <2>1. ~Writing(k)
    BY <1>0 DEF Writing, Idle
  <2> QED  BY <1>1, <1>2, <2>1 DEF BindingInv, Whole, Writing, Readable, Bound
<1> QED  BY <1>4, <1>5, <1>6 DEF BindingInv

LEMMA EditMarks ==
    ASSUME BindingInv, NEW l \in Labels, EditsEvidence(l)
    PROVE  BindingInv'
<1>1. touched' = touched \cup {l} /\ job = Idle /\ job' = job
  BY DEF EditsEvidence
<1>2. /\ DOMAIN dir' = DOMAIN dir /\ DOMAIN dir'[l] = DOMAIN dir[l]
      /\ dir'[l].manifest = dir[l].manifest
      /\ \A k \in Labels : k # l => dir'[k] = dir[k]
  BY DEF EditsEvidence, BindingInv, DirInv, Files
<1>3. DirInv'
  BY <1>2 DEF BindingInv, DirInv
<1>4. JobInv'
  BY <1>1 DEF JobInv, Idle
<1>5. ASSUME NEW k \in Labels PROVE Whole(k)'
  BY <1>1, <1>2 DEF BindingInv, Whole, Writing, Readable, Bound
<1> QED  BY <1>3, <1>4, <1>5 DEF BindingInv

LEMMA BindingStep == BindingInv /\ [Next]_vars => BindingInv'
<1> SUFFICES ASSUME BindingInv, [Next]_vars PROVE BindingInv'
  OBVIOUS
<1>1. CASE UNCHANGED <<dir, job, touched>>
  BY <1>1 DEF BindingInv, DirInv, JobInv, Completes, Whole, Writing, Readable, Bound
<1>2. ASSUME NEW l \in Labels, NEW runner, StartsCapture(l, runner) PROVE BindingInv'
  <2>1. job' = [op |-> "capture", label |-> l, runner |-> runner, cases |-> dataset]
        /\ job = Idle /\ dir' = dir /\ touched' = touched
    BY <1>2 DEF StartsCapture
  <2> QED  BY <2>1 DEF BindingInv, DirInv, JobInv, Whole, Writing, Readable, Bound, Idle
<1>3. ASSUME NEW b, NEW c, NEW explained, Diff(b, c, explained) PROVE BindingInv'
  BY <1>1, <1>3 DEF Diff
<1>4. ASSUME EditsTree \/ UNCHANGED vars \/ \E l \in Labels : Rescores(l) PROVE BindingInv'
  BY <1>1, <1>4 DEF EditsTree, Rescores, vars
<1> QED  BY <1>2, <1>3, <1>4, CaptureBinds, WriteBinds, InterruptionMarks, ScoreBinds, EditMarks
         DEF Next

\* Whatever commands run in whatever order, on whatever tree, a run that no hand
\* edited and no interruption cut short is complete and matches its manifest
\* (docs/how-to/evaluate.md; milestone.py, write_milestone and write_scores).
THEOREM CommandsAlwaysKeepTheBinding == Spec => []CommandsKeepTheBinding
<1>1. BindingInv => CommandsKeepTheBinding
  BY DEF BindingInv, Whole, Writing, CommandsKeepTheBinding
<1> QED  BY <1>1, BindingInit, BindingStep, PTL DEF Spec

-----------------------------------------------------------------------------
Scorings == {Pass, Fail, Unscored}

\* A turn of which every check passed has no failing check.
LEMMA ChecksPassed ==
    ASSUME NEW checks, AllOf(checks) # Fail, NEW c \in checks
    PROVE  c[2]
  BY DEF AllOf, Verdict, Pass, Fail, Unscored

LEMMA ScoresOfTurns ==
    ASSUME NEW calls, NEW answer, NEW reference, NEW on, NEW infra \in BOOLEAN, NEW refusal,
           NEW r, NEW checks
    PROVE  /\ AllOf(checks) \in Scorings
           /\ ExecutionRow(calls, reference, on, infra) \in Scorings
           /\ FaithfulnessRow(calls, answer) \in Scorings
           /\ CommunicatedRow(calls, answer) \in Scorings
           /\ LanguageRow(answer) \in {Pass, Fail}
           /\ SafetyRow(answer, refusal) \in {Pass, Fail}
           /\ SqlRow(r, reference, on, infra) \in Scorings
<1>1. /\ \A s : AllOf(s) \in Scorings
      /\ \A b : Verdict(b) \in {Pass, Fail}
      /\ {Pass, Fail} \subseteq Scorings /\ Unscored \in Scorings
  BY DEF Scorings, AllOf, Verdict
<1>2. ExecutionRow(calls, reference, on, infra) \in Scorings
  <2> DEFINE c == CHOOSE x \in LastQueryCall(calls) : TRUE
             same == SameResult(c, reference, on)
  <2>1. ExecutionRow(calls, reference, on, infra) \in {Fail, Unscored, Verdict(same)}
    BY DEF ExecutionRow
  <2> QED  BY <1>1, <2>1
<1>3. FaithfulnessRow(calls, answer) \in Scorings
  BY <1>1, Zenon DEF FaithfulnessRow
<1>4. CommunicatedRow(calls, answer) \in Scorings
  BY <1>1, Zenon DEF CommunicatedRow
<1>5. LanguageRow(answer) \in {Pass, Fail} /\ SafetyRow(answer, refusal) \in {Pass, Fail}
  BY <1>1, Zenon DEF LanguageRow, SafetyRow
<1>6. SqlRow(r, reference, on, infra) \in Scorings
  <2> DEFINE same == <<on, reference>> \in r.matches
  <2>1. SqlRow(r, reference, on, infra) \in {Fail, Unscored, Verdict(same)}
    BY DEF SqlRow
  <2> QED  BY <1>1, <2>1
<1> QED  BY <1>1, <1>2, <1>3, <1>4, <1>5, <1>6, Zenon

\* The facts of a call, field by field.
LEMMA CapturedCall ==
    ASSUME NEW r, IsResult(r)
    PROVE  LET c == CaptureToolResult(r)
           IN  /\ c.error <=> r.status # "ok"
               /\ c.error => c.links = {}
               /\ ~c.error =>
                    /\ c.links = r.links /\ c.returned = r.returned
                    /\ r.tool = "details" => c.total = Unknown /\ c.counts = <<>>
                    /\ r.tool = "query" =>
                         /\ c.total = r.total /\ c.shape = r.shape /\ c.offset = r.offset
                         /\ c.truncated = IsTruncated(r) /\ c.counts = CountValues(r)
<1>1. CASE r.status # "ok"
  BY <1>1 DEF CaptureToolResult, FailedCall
<1>2. CASE r.status = "ok" /\ r.tool = "details"
  BY <1>2 DEF CaptureToolResult, FailedCall
<1>3. CASE r.status = "ok" /\ r.tool = "query"
  BY <1>3 DEF CaptureToolResult
<1> QED  BY <1>1, <1>2, <1>3 DEF IsResult

LEMMA CapturedTurn ==
    ASSUME NEW t, IsTurn(t)
    PROVE  /\ DOMAIN CaptureTurn(t.results) = 1..Len(t.results)
           /\ \A i \in 1..Len(t.results) :
                /\ CaptureTurn(t.results)[i] = CaptureToolResult(t.results[i])
                /\ IsResult(t.results[i])
  BY DEF IsTurn, CaptureTurn

\* A link that a tool result supports was returned.
LEMMA GroundedReturned ==
    ASSUME NEW t, IsTurn(t)
    PROVE  GroundedLinks(CaptureTurn(t.results)) \subseteq LinksReturned(t)
<1> DEFINE calls == CaptureTurn(t.results)
<1> SUFFICES ASSUME NEW x \in GroundedLinks(calls) PROVE x \in LinksReturned(t)
  OBVIOUS
<1>1. PICK i \in 1..Len(t.results) : x \in calls[i].links
  BY CapturedTurn DEF GroundedLinks
<1>2. calls[i] = CaptureToolResult(t.results[i]) /\ IsResult(t.results[i])
  BY CapturedTurn
<1>3. t.results[i].status = "ok" /\ calls[i].links = t.results[i].links
  BY <1>1, <1>2, CapturedCall
<1>4. i \in Answered(t)
  BY <1>3 DEF Answered, IsTurn
<1> QED  BY <1>1, <1>3, <1>4 DEF LinksReturned

LEMMA CountsOfCall ==
    ASSUME NEW r, IsResult(r), r.status = "ok"
    PROVE  CallCounts(CaptureToolResult(r)) \subseteq CountsOf(r)
<1> DEFINE c == CaptureToolResult(r)
<1>1. CASE r.tool = "details"
  <2>1. c.counts = <<>> /\ c.total = Unknown /\ c.returned = r.returned
    BY <1>1, CapturedCall
  <2>2. CallCounts(c) \subseteq {r.returned}
    BY <2>1 DEF CallCounts
  <2> QED  BY <1>1, <2>2 DEF CountsOf
<1>2. CASE r.tool = "query"
  <2>1. c.counts = CountValues(r) /\ c.total = r.total /\ c.returned = r.returned
    BY <1>2, CapturedCall
  <2> HIDE DEF c
  <2>2. CASE CountValues(r) = <<>>
    <3>1. CallCounts(c) = IF r.total # Unknown THEN {r.total}
                          ELSE {r.returned} \ {Unknown}
      BY <2>1, <2>2 DEF CallCounts
    <3>2. ~(r.shape # "rows" /\ r.figures # <<>>)
      BY <1>2, <2>2 DEF CountValues, IsResult
    <3> QED  BY <1>2, <3>1, <3>2 DEF CountsOf, c
  <2>3. CASE CountValues(r) # <<>>
    <3>1. CallCounts(c) = ToSet(CountValues(r))
      BY <2>1, <2>3 DEF CallCounts
    <3>2. r.shape \in {"match_count", "summary"} /\ r.figures # <<>>
      BY <2>3 DEF CountValues
    <3>3. CountsOf(r) = ToSet(r.figures)
      BY <1>2, <3>2 DEF CountsOf
    <3>4. ToSet(CountValues(r)) \subseteq ToSet(r.figures)
      <4>1. r.figures \in Seq(Nat)
        BY DEF IsResult
      <4>2. CountValues(r) \in {r.figures, <<Head(r.figures)>>}
        BY <3>2 DEF CountValues
      <4> QED  BY <3>2, <4>1, <4>2 DEF ToSet
    <3> QED  BY <3>1, <3>3, <3>4 DEF c
  <2> QED  BY <2>2, <2>3
<1> QED  BY <1>1, <1>2 DEF IsResult

LEMMA SupportedReturned ==
    ASSUME NEW t, IsTurn(t)
    PROVE  ObservedCounts(CaptureTurn(t.results)) \subseteq CountsReturned(t)
<1> DEFINE calls == CaptureTurn(t.results)
<1> SUFFICES ASSUME NEW x \in ObservedCounts(calls) PROVE x \in CountsReturned(t)
  OBVIOUS
<1>1. PICK i \in 1..Len(t.results) : ~calls[i].error /\ x \in CallCounts(calls[i])
  BY CapturedTurn DEF ObservedCounts
<1>2. calls[i] = CaptureToolResult(t.results[i]) /\ IsResult(t.results[i])
  BY CapturedTurn
<1>3. t.results[i].status = "ok"
  BY <1>1, <1>2, CapturedCall
<1>4. x \in CountsOf(t.results[i])
  BY <1>1, <1>2, <1>3, CountsOfCall
<1>5. i \in Answered(t)
  BY <1>3 DEF Answered, IsTurn
<1> QED  BY <1>4, <1>5 DEF CountsReturned

\* An answer that passes the faithfulness row keeps to what its tools returned.
LEMMA FaithfulReturned ==
    ASSUME NEW t, IsTurn(t), FaithfulnessRow(CaptureTurn(t.results), t.answer) # Fail
    PROVE  t.answer.links \subseteq LinksReturned(t) /\ t.answer.claims \subseteq CountsReturned(t)
<1> DEFINE calls == CaptureTurn(t.results)
           a == t.answer
           listed == \E i \in DOMAIN calls : Lists(calls[i])
           links == {x \in {<<"links_grounded", a.links \subseteq GroundedLinks(calls)>>}
                        : a.links # {}}
           cites == {x \in {<<"listing_cites_a_link", a.links # {}>>} : listed}
           counts == {x \in {<<"counts_grounded", a.claims \subseteq ObservedCounts(calls)>>}
                        : a.claims # {}}
           used == {x \in {<<"used_the_rows", FALSE>>}
                        : a.source = "fallback" /\ (listed \/ a.claims # {})}
           checks == links \cup cites \cup counts \cup used
<1>1. AllOf(checks) # Fail
  BY DEF FaithfulnessRow
<1>2. a.links \subseteq LinksReturned(t)
  <2>1. CASE a.links = {}
    BY <2>1
  <2>2. CASE a.links # {}
    <3> DEFINE c == <<"links_grounded", a.links \subseteq GroundedLinks(calls)>>
    <3>1. c \in checks
      BY <2>2
    <3>2. c[2] = (a.links \subseteq GroundedLinks(calls))
      OBVIOUS
    <3> HIDE DEF c, checks
    <3>3. c[2]
      BY <1>1, <3>1, ChecksPassed
    <3> QED  BY <3>2, <3>3, GroundedReturned
  <2> QED  BY <2>1, <2>2
<1>3. a.claims \subseteq CountsReturned(t)
  <2>1. CASE a.claims = {}
    BY <2>1
  <2>2. CASE a.claims # {}
    <3> DEFINE c == <<"counts_grounded", a.claims \subseteq ObservedCounts(calls)>>
    <3>1. c \in checks
      BY <2>2
    <3>2. c[2] = (a.claims \subseteq ObservedCounts(calls))
      OBVIOUS
    <3> HIDE DEF c, checks
    <3>3. c[2]
      BY <1>1, <3>1, ChecksPassed
    <3> QED  BY <3>2, <3>3, SupportedReturned
  <2> QED  BY <2>1, <2>2
<1> QED  BY <1>2, <1>3

\* A last result is what the communication row is about.
LEMMA LastResult ==
    ASSUME NEW t, IsTurn(t), NEW r \in LastReturned(t), r.total # Unknown
    PROVE  /\ LastResultCall(CaptureTurn(t.results)) = {CaptureToolResult(r)}
           /\ IsResult(r) /\ r.status = "ok" /\ r.tool = "query"
<1> DEFINE calls == CaptureTurn(t.results)
           n == Len(t.results)
           places == {i \in DOMAIN calls :
                         /\ ~calls[i].error
                         /\ calls[i].returned # Unknown \/ calls[i].total # Unknown}
<1>1. n \in Nat /\ n \in 1..n /\ r = t.results[n] /\ r.status = "ok"
  BY DEF LastReturned, Answered, IsTurn
<1>2. DOMAIN calls = 1..n /\ calls[n] = CaptureToolResult(r) /\ IsResult(r)
  BY <1>1, CapturedTurn
<1>3. r.tool = "query"
  BY <1>2 DEF IsResult
<1>4. ~calls[n].error /\ calls[n].total = r.total
  BY <1>1, <1>2, <1>3, CapturedCall
<1>5. n \in places /\ places \subseteq 1..n
  BY <1>1, <1>2, <1>4
<1>6. {j \in places : \A k \in places : k <= j} = {n}
  <2> HIDE DEF places, n, calls
  <2>1. n \in Int /\ \A k \in places : k \in Int /\ k <= n
    BY <1>1, <1>5
  <2>2. ASSUME NEW j \in places, n <= j PROVE j = n
    BY <2>1, <2>2
  <2> QED  BY <1>5, <2>1, <2>2
<1>7. LastResultCall(calls) = {calls[i] : i \in {n}}
  BY <1>6 DEF LastResultCall, LastOf
<1> QED  BY <1>1, <1>2, <1>3, <1>7

\* An answer that passes the communication row says what its last result needs said.
LEMMA CommunicatedSaid ==
    ASSUME NEW t, IsTurn(t), CommunicatedRow(CaptureTurn(t.results), t.answer) # Fail,
           NEW r \in LastReturned(t)
    PROVE  /\ r.total = 0 => "empty" \in t.answer.says
           /\ r.offset > 0 /\ r.returned = 0 /\ r.total > 0 => "no_more" \in t.answer.says
           /\ r.shape = "rows" /\ 0 < r.returned /\ r.returned < r.total
                => r.total \in t.answer.numbers
<1> DEFINE calls == CaptureTurn(t.results)
           a == t.answer
           c == CaptureToolResult(r)
           empty == {x \in {<<"empty_said", "empty" \in a.says>>} : IsEmpty(c)}
           more == {x \in {<<"no_more_said", "no_more" \in a.says>>} : NoMore(c)}
           cut == {x \in {<<"cut_off_said", SaysCutOff(c, a)>>} : CutOff(c)}
           next == {x \in {<<"continuation_said", "continuation" \in a.says>>}
                        : c.offset > 0 /\ c.returned > 0}
           checks == empty \cup more \cup cut \cup next
<1>0. IsResult(r)
  <2>1. PICK n \in DOMAIN t.results : r = t.results[n]
    BY DEF LastReturned, Answered
  <2> QED  BY <2>1 DEF IsTurn
<1>1. CASE r.total = Unknown
  BY <1>0, <1>1 DEF Unknown, IsResult
<1>2. CASE r.total # Unknown
  <2>1. LastResultCall(calls) = {c} /\ r.status = "ok" /\ r.tool = "query"
    BY <1>2, LastResult
  <2>2. AllOf(checks) # Fail
    <3>1. (CHOOSE x \in {c} : TRUE) = c
      OBVIOUS
    <3>2. CommunicatedRow(calls, a) = AllOf(checks)
      BY <2>1, <3>1 DEF CommunicatedRow
    <3> QED  BY <3>2
  <2>3. /\ c.total = r.total /\ c.shape = r.shape /\ c.offset = r.offset /\ c.returned = r.returned
        /\ c.truncated = IsTruncated(r) /\ c.counts = CountValues(r)
    BY <1>0, <2>1, CapturedCall
  <2>4. r.total \in Nat /\ r.returned \in Nat \cup {Unknown} /\ r.offset \in Nat
    BY <1>0, <1>2 DEF IsResult
  <2>5. ASSUME r.total = 0 PROVE "empty" \in a.says
    <3> DEFINE d == <<"empty_said", "empty" \in a.says>>
    <3>1. CountValues(r) = <<>>
      BY <1>0, <2>5 DEF IsResult, CountValues
    <3>2. IsEmpty(c)
      BY <2>3, <2>5, <3>1 DEF IsEmpty
    <3>3. d \in checks
      BY <3>2
    <3>4. d[2] = ("empty" \in a.says)
      OBVIOUS
    <3> HIDE DEF d, checks
    <3>5. d[2]
      BY <2>2, <3>3, ChecksPassed
    <3> QED  BY <3>4, <3>5
  <2>6. ASSUME r.offset > 0 /\ r.returned = 0 /\ r.total > 0 PROVE "no_more" \in a.says
    <3> DEFINE d == <<"no_more_said", "no_more" \in a.says>>
    <3>1. NoMore(c)
      BY <2>3, <2>6 DEF NoMore
    <3>2. d \in checks
      BY <3>1
    <3>3. d[2] = ("no_more" \in a.says)
      OBVIOUS
    <3> HIDE DEF d, checks
    <3>4. d[2]
      BY <2>2, <3>2, ChecksPassed
    <3> QED  BY <3>3, <3>4
  <2>7. ASSUME r.shape = "rows", 0 < r.returned, r.returned < r.total
        PROVE  r.total \in a.numbers
    <3> DEFINE d == <<"cut_off_said", SaysCutOff(c, a)>>
    <3>1. CutOff(c)
      BY <2>3, <2>4, <2>7 DEF CutOff, IsTruncated, Unknown
    <3>2. d \in checks
      BY <3>1
    <3>3. d[2] = SaysCutOff(c, a)
      OBVIOUS
    <3> HIDE DEF d, checks
    <3>4. d[2]
      BY <2>2, <3>2, ChecksPassed
    <3> QED  BY <2>3, <3>3, <3>4 DEF SaysCutOff
  <2> QED  BY <2>5, <2>6, <2>7
<1> QED  BY <1>1, <1>2

LEMMA TurnHolds ==
    ASSUME NEW t, NEW case, IsTurn(t),
           FaithfulnessRow(CaptureTurn(t.results), t.answer) # Fail,
           CommunicatedRow(CaptureTurn(t.results), t.answer) # Fail,
           case.expect => SafetyRow(t.answer, case.refusal) # Fail
    PROVE  Holds(t, case)
<1>1. case.expect => ~t.answer.leaks /\ (case.refusal => "refusal" \in t.answer.says)
  BY DEF SafetyRow, Verdict, Fail, Pass
<1> QED  BY <1>1, FaithfulReturned, CommunicatedSaid DEF Holds

-----------------------------------------------------------------------------
\* The metrics of a question, and what each scores.
MetricsOf(captures, cases, q) ==
    IF captures.runner = "agent"
    THEN {"answer_faithfulness", "result_communicated", "answer_language"}
         \cup {m \in {"execution_accuracy"} : cases[q].reference # None}
         \cup {m \in {"safety_refusal"} : cases[q].expect}
    ELSE {"sql_accuracy"}

TurnScore(case, turn, on, infra, m) ==
    LET calls == CaptureTurn(turn.results)
    IN  IF m = "execution_accuracy" THEN ExecutionRow(calls, case.reference, on, infra)
        ELSE IF m = "answer_faithfulness" THEN FaithfulnessRow(calls, turn.answer)
        ELSE IF m = "result_communicated" THEN CommunicatedRow(calls, turn.answer)
        ELSE IF m = "answer_language" THEN LanguageRow(turn.answer)
        ELSE SafetyRow(turn.answer, case.refusal)

RowScore(captures, cases, q, on, infra, m) ==
    IF captures.runner = "agent" THEN TurnScore(cases[q], captures.records[q], on, infra, m)
    ELSE SqlRow(captures.records[q], cases[q].reference, on, infra)

QuestionRows(captures, cases, q, on, infra) ==
    {<<q, m, RowScore(captures, cases, q, on, infra, m)>> : m \in MetricsOf(captures, cases, q)}

LEMMA AgentQuestionRows ==
    ASSUME NEW captures, NEW cases, NEW q, NEW on, NEW infra, captures.runner = "agent"
    PROVE  AgentRows(q, cases[q], captures.records[q], on, infra)
             = QuestionRows(captures, cases, q, on, infra)
<1> DEFINE case == cases[q]
           turn == captures.records[q]
           S(m) == RowScore(captures, cases, q, on, infra, m)
           R(m) == <<q, m, S(m)>>
           first == {R("execution_accuracy") : x \in {y \in {1} : case.reference # None}}
           last == {R("safety_refusal") : x \in {y \in {1} : case.expect}}
           middle == {R("answer_faithfulness"), R("result_communicated"), R("answer_language")}
<1>1. /\ S("execution_accuracy") = ExecutionRow(CaptureTurn(turn.results), case.reference, on, infra)
      /\ S("answer_faithfulness") = FaithfulnessRow(CaptureTurn(turn.results), turn.answer)
      /\ S("result_communicated") = CommunicatedRow(CaptureTurn(turn.results), turn.answer)
      /\ S("answer_language") = LanguageRow(turn.answer)
      /\ S("safety_refusal") = SafetyRow(turn.answer, case.refusal)
  BY DEF RowScore, TurnScore
<1>2. AgentRows(q, case, turn, on, infra) = first \cup middle \cup last
  <2> HIDE DEF S
  <2> QED  BY <1>1 DEF AgentRows
<1> HIDE DEF S
<1>3. QuestionRows(captures, cases, q, on, infra)
        = {R(m) : m \in MetricsOf(captures, cases, q)}
  BY DEF QuestionRows, S
<1> HIDE DEF R
<1>4. first = {R(m) : m \in {k \in {"execution_accuracy"} : case.reference # None}}
  OBVIOUS
<1>5. last = {R(m) : m \in {k \in {"safety_refusal"} : case.expect}}
  OBVIOUS
<1>6. middle = {R(m) : m \in {"answer_faithfulness", "result_communicated", "answer_language"}}
  OBVIOUS
<1> HIDE DEF first, middle, last
<1>7. MetricsOf(captures, cases, q)
        = {"answer_faithfulness", "result_communicated", "answer_language"}
          \cup {k \in {"execution_accuracy"} : case.reference # None}
          \cup {k \in {"safety_refusal"} : case.expect}
  BY DEF MetricsOf
<1>8. {R(m) : m \in MetricsOf(captures, cases, q)} = first \cup middle \cup last
  BY <1>4, <1>5, <1>6, <1>7
<1> QED  BY <1>2, <1>3, <1>8

LEMMA RowsAre ==
    ASSUME NEW captures, NEW cases, NEW on, NEW infra
    PROVE  Rows(captures, cases, on, infra)
             = UNION {QuestionRows(captures, cases, q, on, q \in infra) : q \in DOMAIN captures.records}
<1>1. CASE captures.runner = "agent"
  <2>1. Rows(captures, cases, on, infra)
          = UNION {AgentRows(q, cases[q], captures.records[q], on, q \in infra)
                       : q \in DOMAIN captures.records}
    BY <1>1 DEF Rows
  <2>2. \A q \in DOMAIN captures.records :
           AgentRows(q, cases[q], captures.records[q], on, q \in infra)
             = QuestionRows(captures, cases, q, on, q \in infra)
    BY <1>1, AgentQuestionRows
  <2> QED  BY <2>1, <2>2
<1>2. CASE captures.runner # "agent"
  <2> DEFINE R(q) == <<q, "sql_accuracy",
                       SqlRow(captures.records[q], cases[q].reference, on, q \in infra)>>
  <2>1. Rows(captures, cases, on, infra) = {R(q) : q \in DOMAIN captures.records}
    BY <1>2 DEF Rows
  <2>2. \A q \in DOMAIN captures.records :
           QuestionRows(captures, cases, q, on, q \in infra) = {R(q)}
    BY <1>2 DEF QuestionRows, RowScore, MetricsOf
  <2> HIDE DEF R
  <2> QED  BY <2>1, <2>2
<1> QED  BY <1>1, <1>2

\* A row of a capture is a question, one of its metrics, and what that scored.
LEMMA RowIs ==
    ASSUME NEW captures, NEW cases, NEW on, NEW infra
    PROVE  /\ \A row \in Rows(captures, cases, on, infra) :
                \E q \in DOMAIN captures.records : \E m \in MetricsOf(captures, cases, q) :
                    row = <<q, m, RowScore(captures, cases, q, on, q \in infra, m)>>
           /\ \A q \in DOMAIN captures.records : \A m \in MetricsOf(captures, cases, q) :
                <<q, m, RowScore(captures, cases, q, on, q \in infra, m)>>
                    \in Rows(captures, cases, on, infra)
<1> DEFINE S(q, m) == RowScore(captures, cases, q, on, q \in infra, m)
<1>1. Rows(captures, cases, on, infra)
        = UNION {QuestionRows(captures, cases, q, on, q \in infra) : q \in DOMAIN captures.records}
  BY RowsAre
<1>2. \A q : QuestionRows(captures, cases, q, on, q \in infra)
               = {<<q, m, S(q, m)>> : m \in MetricsOf(captures, cases, q)}
  BY DEF QuestionRows
<1> HIDE DEF S
<1>3. /\ \A row \in Rows(captures, cases, on, infra) :
            \E q \in DOMAIN captures.records : \E m \in MetricsOf(captures, cases, q) :
                row = <<q, m, S(q, m)>>
      /\ \A q \in DOMAIN captures.records : \A m \in MetricsOf(captures, cases, q) :
            <<q, m, S(q, m)>> \in Rows(captures, cases, on, infra)
  BY <1>1, <1>2
<1> QED  BY <1>3 DEF S

LEMMA ScoredOrNot ==
    ASSUME NEW captures, NEW cases, NEW q, NEW on, NEW infra \in BOOLEAN, NEW m
    PROVE  /\ RowScore(captures, cases, q, on, infra, m) \in Scorings
           /\ \/ RowScore(captures, cases, q, on, infra, m) = Unscored
              \/ RowScore(captures, cases, q, on, infra, m) = RowScore(captures, cases, q, on, FALSE, m)
<1>0. {Pass, Fail} \subseteq Scorings
  BY DEF Scorings
<1>1. RowScore(captures, cases, q, on, infra, m) \in Scorings
  BY <1>0, ScoresOfTurns DEF RowScore, TurnScore
<1>2. CASE infra = FALSE
  BY <1>1, <1>2
<1>3. CASE infra = TRUE
  <2>1. ASSUME NEW calls, NEW reference
        PROVE  \/ ExecutionRow(calls, reference, on, TRUE) = Unscored
               \/ ExecutionRow(calls, reference, on, TRUE) = ExecutionRow(calls, reference, on, FALSE)
    BY DEF ExecutionRow
  <2>2. ASSUME NEW r, NEW reference
        PROVE  \/ SqlRow(r, reference, on, TRUE) = Unscored
               \/ SqlRow(r, reference, on, TRUE) = SqlRow(r, reference, on, FALSE)
    BY DEF SqlRow
  <2> QED  BY <1>1, <1>3, <2>1, <2>2 DEF RowScore, TurnScore
<1> QED  BY <1>1, <1>2, <1>3

\* One score a question and metric.
LEMMA RowsUnique ==
    ASSUME NEW captures, NEW cases, NEW on, NEW infra
    PROVE  /\ \A row \in Rows(captures, cases, on, infra) :
                row = <<row[1], row[2], row[3]>> /\ row[3] \in Scorings
           /\ \A row, other \in Rows(captures, cases, on, infra) :
                row[1] = other[1] /\ row[2] = other[2] => row = other
<1> DEFINE S(q, m) == RowScore(captures, cases, q, on, q \in infra, m)
<1>1. ASSUME NEW row \in Rows(captures, cases, on, infra)
      PROVE  \E q, m : row = <<q, m, S(q, m)>>
  BY RowIs
<1>2. \A q, m : S(q, m) \in Scorings
  <2> TAKE q, m
  <2>1. (q \in infra) \in BOOLEAN
    OBVIOUS
  <2> QED  BY <2>1, ScoredOrNot
<1> HIDE DEF S
<1> QED  BY <1>1, <1>2

\* The metrics that compare a statement on a database.
Compared == {"execution_accuracy", "sql_accuracy"}

\* The others are read off the captured turn, whatever the snapshot.
LEMMA OnlyComparedDiffer ==
    ASSUME NEW captures, NEW cases, NEW q, NEW on, NEW then,
           NEW m \in MetricsOf(captures, cases, q), m \notin Compared
    PROVE  RowScore(captures, cases, q, on, FALSE, m)
             = RowScore(captures, cases, q, then, FALSE, m)
<1>1. captures.runner = "agent"
  BY DEF MetricsOf, Compared
<1>2. m # "execution_accuracy"
  BY DEF Compared
<1> QED  BY <1>1, <1>2 DEF RowScore, TurnScore

\* A row, scored on one snapshot, comes out again among the rows of another.
Reproduced(row, on, rows, then) ==
    \E other \in rows :
        /\ other = <<row[1], row[2], other[3]>>
        /\ on = then \/ row[2] \notin Compared
             => row = other \/ row[3] = Unscored \/ other[3] = Unscored

\* Under two outages the rows of a capture differ only where one is not scored, and on
\* two snapshots only in the metrics that compare.
LEMMA RowsReproduce ==
    ASSUME NEW captures, NEW cases, NEW on, NEW infra, NEW then, NEW again,
           NEW row \in Rows(captures, cases, on, infra)
    PROVE  /\ row[3] = Unscored \/ row \in Rows(captures, cases, on, {})
           /\ Reproduced(row, on, Rows(captures, cases, then, again), then)
<1> DEFINE S(q, m, w, lost) == RowScore(captures, cases, q, w, lost, m)
<1>0. PICK q \in DOMAIN captures.records :
         \E m \in MetricsOf(captures, cases, q) : row = <<q, m, S(q, m, on, q \in infra)>>
  BY RowIs
<1>1. PICK m \in MetricsOf(captures, cases, q) : row = <<q, m, S(q, m, on, q \in infra)>>
  BY <1>0
<1>2. /\ \/ S(q, m, on, q \in infra) = Unscored
         \/ S(q, m, on, q \in infra) = S(q, m, on, FALSE)
      /\ \/ S(q, m, then, q \in again) = Unscored
         \/ S(q, m, then, q \in again) = S(q, m, then, FALSE)
  <2>1. (q \in infra) \in BOOLEAN /\ (q \in again) \in BOOLEAN
    OBVIOUS
  <2>2. ASSUME NEW w, NEW lost \in BOOLEAN
        PROVE  S(q, m, w, lost) = Unscored \/ S(q, m, w, lost) = S(q, m, w, FALSE)
    BY ScoredOrNot
  <2> HIDE DEF S
  <2> QED  BY <2>1, <2>2
<1>3. /\ <<q, m, S(q, m, on, q \in {})>> \in Rows(captures, cases, on, {})
      /\ <<q, m, S(q, m, then, q \in again)>> \in Rows(captures, cases, then, again)
  BY <1>1, RowIs
<1>4. (q \in {}) = FALSE
  OBVIOUS
<1>5. <<q, m, S(q, m, on, FALSE)>> \in Rows(captures, cases, on, {})
  BY <1>3, <1>4
<1>6. on = then \/ m \notin Compared => S(q, m, on, FALSE) = S(q, m, then, FALSE)
  BY OnlyComparedDiffer
<1> HIDE DEF S
<1> QED  BY <1>1, <1>2, <1>3, <1>5, <1>6 DEF Reproduced

LEMMA RowsFinite ==
    ASSUME NEW captures, NEW cases, NEW on, NEW infra, IsFiniteSet(DOMAIN captures.records)
    PROVE  IsFiniteSet(Rows(captures, cases, on, infra))
<1> DEFINE D == DOMAIN captures.records
           QR(q) == QuestionRows(captures, cases, q, on, q \in infra)
<1>1. ASSUME NEW q \in D PROVE IsFiniteSet(QR(q))
  <2> DEFINE M == MetricsOf(captures, cases, q)
             R(m) == <<q, m, RowScore(captures, cases, q, on, q \in infra, m)>>
             three == {"answer_faithfulness", "result_communicated", "answer_language"}
             all == three \cup {"execution_accuracy"} \cup {"safety_refusal"} \cup {"sql_accuracy"}
  <2>1. M \subseteq all
    BY DEF MetricsOf
  <2>2. IsFiniteSet(all)
    <3>1. IsFiniteSet({})
      BY FS_EmptySet
    <3>2. IsFiniteSet({} \cup {"answer_faithfulness"})
      BY <3>1, FS_AddElement
    <3>3. IsFiniteSet({"answer_faithfulness"} \cup {"result_communicated"})
      BY <3>2, FS_AddElement
    <3>4. IsFiniteSet({"answer_faithfulness", "result_communicated"} \cup {"answer_language"})
      BY <3>3, FS_AddElement
    <3>5. IsFiniteSet(three)
      BY <3>4
    <3>6. IsFiniteSet(three \cup {"execution_accuracy"})
      BY <3>5, FS_AddElement
    <3>7. IsFiniteSet(three \cup {"execution_accuracy"} \cup {"safety_refusal"})
      BY <3>6, FS_AddElement
    <3>8. IsFiniteSet(three \cup {"execution_accuracy"} \cup {"safety_refusal"}
                        \cup {"sql_accuracy"})
      BY <3>7, FS_AddElement
    <3> QED  BY <3>8
  <2>3. IsFiniteSet(M)
    BY <2>1, <2>2, FS_Subset
  <2>4. QR(q) = {R(m) : m \in M}
    BY DEF QuestionRows
  <2> HIDE DEF R, M
  <2>5. IsFiniteSet({R(m) : m \in M})
    <3> DEFINE f == [m \in M |-> R(m)]
    <3>1. f \in Surjection(M, {R(m) : m \in M})
      BY DEF Surjection
    <3> QED  BY <2>3, <3>1, FS_Surjection
  <2> QED  BY <2>4, <2>5
<1>2. Rows(captures, cases, on, infra) = UNION {QR(q) : q \in D}
  BY RowsAre
<1> HIDE DEF QR
<1>3. IsFiniteSet({QR(q) : q \in D})
  <2> DEFINE f == [q \in D |-> QR(q)]
  <2>1. f \in Surjection(D, {QR(q) : q \in D})
    BY DEF Surjection
  <2> QED  BY <2>1, FS_Surjection
<1>4. IsFiniteSet(UNION {QR(q) : q \in D})
  BY <1>1, <1>3, FS_UNION
<1> QED  BY <1>2, <1>4

\* A floor of 100% is one that every scored row of its metric meets.
LEMMA FloorMet ==
    ASSUME NEW rows, IsFiniteSet(rows), NEW metric, Met(<<metric, "any", 100>>, rows),
           NEW row \in rows, row[2] = metric, row[3] # Unscored
    PROVE  row[3] = Pass
<1> DEFINE scored == {r \in rows : r[2] = metric /\ r[3] # Unscored}
           passed == {r \in scored : r[3] = Pass}
<1>1. Cardinality(passed) * 100 >= 100 * Cardinality(scored)
  <2> DEFINE floor == <<metric, "any", 100>>
             all == {r \in rows : /\ r[2] = floor[1] /\ r[3] # Unscored
                                  /\ floor[2] = "any" \/ (r[1] \in DOMAIN dataset
                                                          /\ dataset[r[1]].split = floor[2])}
  <2>1. all = scored
    OBVIOUS
  <2>2. Cardinality({r \in all : r[3] = Pass}) * 100 >= floor[3] * Cardinality(all)
    BY DEF Met
  <2> QED  BY <2>1, <2>2
<1>2. IsFiniteSet(scored) /\ passed \subseteq scored
  BY FS_Subset
<1>3. /\ Cardinality(passed) \in Nat /\ Cardinality(scored) \in Nat
      /\ Cardinality(passed) = Cardinality(scored) => passed = scored
      /\ Cardinality(passed) <= Cardinality(scored)
  <2> HIDE DEF passed, scored
  <2>1. IsFiniteSet(passed)
    BY <1>2, FS_Subset
  <2> QED  BY <1>2, <2>1, FS_Subset, FS_CardinalityType
<1>4. passed = scored
  BY <1>1, <1>3
<1> QED  BY <1>4

-----------------------------------------------------------------------------
CaptureSound(c) ==
    /\ IsFiniteSet(DOMAIN c.records)
    /\ c.runner = "agent" => \A q \in DOMAIN c.records : IsTurn(c.records[q])

\* A manifest binds a capture, and the scores that its dataset gives it on the snapshot
\* there was when it was scored.
ManifestSound(m, on) ==
    /\ m.captures.runner = m.runner /\ CaptureSound(m.captures)
    /\ \/ m.scores = Scores({})
       \/ \E infra : m.scores = Scores(Rows(m.captures, m.dataset, on, infra))

HeldInv ==
    /\ DOMAIN scoredOn = Labels
    /\ \A l \in Labels :
          \/ dir[l].manifest = NoFile
          \/ scoredOn[l] \in Snapshots /\ ManifestSound(dir[l].manifest, scoredOn[l])
PendingInv ==
    /\ job.op = "capture" => IsFiniteSet(DOMAIN job.cases) /\ DOMAIN job.cases \subseteq Questions
    /\ job.op = "write" => ManifestSound(job.files[Len(job.files)][2], snapshot)

SoundInv == tree \in Trees /\ HeldInv /\ PendingInv

\* What a diff or a re-score reported stands until the next command.
VerdictInv == (verdict.of # "none" => job = Idle) /\ VerdictsHold

LEMMA SoundInit == Init => SoundInv /\ VerdictInv
  BY DEF Init, SoundInv, HeldInv, PendingInv, VerdictInv, VerdictsHold, PassedCandidateHolds,
         RescoreReproduces, NoVerdict, Idle, NoDir

LEMMA CapturesSound ==
    ASSUME NEW l \in Labels, job.op = "capture", PendingInv, NEW records \in Captured(l)
    PROVE  CaptureSound([runner |-> job.runner, records |-> records])
<1>1. IsFiniteSet(DOMAIN job.cases) /\ DOMAIN job.cases \subseteq Questions
  BY DEF PendingInv
<1>2. CASE job.runner = "agent"
  <2>1. DOMAIN records = DOMAIN job.cases /\ \A q \in DOMAIN job.cases : records[q] \in Turns[l][q]
    BY <1>2 DEF Captured, Conversations
  <2>2. \A q \in DOMAIN records : IsTurn(records[q])
    BY <1>1, <2>1, TurnsAssumption
  <2> QED  BY <1>1, <2>1, <2>2 DEF CaptureSound
<1>3. CASE job.runner # "agent"
  <2>1. DOMAIN records \subseteq DOMAIN job.cases
    BY <1>3 DEF Captured, Generations, Selected, Scored
  <2>2. IsFiniteSet(DOMAIN records)
    BY <1>1, <2>1, FS_Subset
  <2> QED  BY <1>3, <2>2 DEF CaptureSound
<1> QED  BY <1>2, <1>3

LEMMA StartSound ==
    ASSUME SoundInv, NEW l \in Labels, NEW runner, StartsCapture(l, runner)
    PROVE  SoundInv'
<1>1. /\ job' = [op |-> "capture", label |-> l, runner |-> runner, cases |-> dataset]
      /\ UNCHANGED <<tree, dir, scoredOn>>
  BY DEF StartsCapture
<1>2. IsFiniteSet(DOMAIN dataset) /\ DOMAIN dataset \subseteq Questions
  BY TreesAssumption DEF SoundInv, dataset
<1>3. PendingInv'
  BY <1>1, <1>2 DEF PendingInv
<1> QED  BY <1>1, <1>3 DEF SoundInv, HeldInv

LEMMA CaptureWritesSound ==
    ASSUME BindingInv, SoundInv, EndsCapture
    PROVE  SoundInv'
<1> DEFINE l == job.label
<1>1. l \in Labels /\ job.op = "capture" /\ UNCHANGED <<tree, scoredOn>>
  BY DEF BindingInv, JobInv, EndsCapture
<1>2. CASE job' = Idle /\ dir' = dir
  BY <1>1, <1>2 DEF SoundInv, HeldInv, PendingInv, Idle
<1>3. CASE ~(job' = Idle /\ dir' = dir)
  <2>1. PICK records \in Captured(l) :
          LET captures == [runner |-> job.runner, records |-> records]
              manifest == [runner |-> job.runner, dataset |-> dataset,
                           snapshot |-> snapshot, status |-> "generated",
                           captures |-> captures, scores |-> Scores({})]
          IN  /\ dir' = [dir EXCEPT ![l].made = TRUE]
              /\ job' = [op |-> "write", label |-> l,
                         files |-> <<<<"captures", captures>>, <<"scores", Scores({})>>,
                                     <<"manifest", manifest>>>>]
    BY <1>3 DEF EndsCapture
  <2> DEFINE c == [runner |-> job.runner, records |-> records]
             m == [runner |-> job.runner, dataset |-> dataset,
                   snapshot |-> snapshot, status |-> "generated",
                   captures |-> c, scores |-> Scores({})]
  <2>2. ManifestSound(m, snapshot)
    <3>1. CaptureSound(c)
      BY <1>1, CapturesSound DEF SoundInv
    <3>2. m.captures = c /\ m.scores = Scores({}) /\ m.runner = c.runner
      OBVIOUS
    <3> HIDE DEF c, m
    <3> QED  BY <3>1, <3>2 DEF ManifestSound
  <2>3. \A k \in Labels : dir'[k].manifest = dir[k].manifest
    BY <1>1, <2>1 DEF BindingInv, DirInv, Files
  <2>4. /\ job'.op = "write"
        /\ job'.files = <<<<"captures", c>>, <<"scores", Scores({})>>, <<"manifest", m>>>>
    BY <2>1
  <2> HIDE DEF c, m
  <2>5. job'.files[Len(job'.files)][2] = m
    BY <2>4
  <2>6. HeldInv' /\ PendingInv'
    BY <1>1, <2>2, <2>3, <2>4, <2>5 DEF SoundInv, HeldInv, PendingInv, snapshot
  <2> QED  BY <1>1, <2>6 DEF SoundInv
<1> QED  BY <1>2, <1>3

\* Where a command is among its files.
LEMMA FilesLeft ==
    ASSUME NEW l, NEW files, Completes(l, files)
    PROVE  /\ files # <<>> /\ Len(files) \in {1, 2, 3}
           /\ Head(files)[1] \in Files
           /\ Head(files)[1] = "manifest" <=> Len(files) = 1
           /\ Len(files) = 1 => files[Len(files)] = Head(files)
           /\ Len(files) # 1 => Tail(files)[Len(Tail(files))] = files[Len(files)]
<1> PICK c, s, m :
        \/ files = <<<<"captures", c>>, <<"scores", s>>, <<"manifest", m>>>>
        \/ files = <<<<"scores", s>>, <<"manifest", m>>>>
        \/ files = <<<<"manifest", m>>>>
  BY DEF Completes
<1> DEFINE x == <<"captures", c>>
           y == <<"scores", s>>
           z == <<"manifest", m>>
<1>1. x[1] = "captures" /\ y[1] = "scores" /\ z[1] = "manifest"
  OBVIOUS
<1>2. files = <<x, y, z>> \/ files = <<y, z>> \/ files = <<z>>
  OBVIOUS
<1> HIDE DEF x, y, z
<1>3. CASE files = <<x, y, z>>
  BY <1>1, <1>3 DEF Files
<1>4. CASE files = <<y, z>>
  BY <1>1, <1>4 DEF Files
<1>5. CASE files = <<z>>
  BY <1>1, <1>5 DEF Files
<1> QED  BY <1>2, <1>3, <1>4, <1>5

LEMMA WriteSound ==
    ASSUME BindingInv, SoundInv, WritesFile
    PROVE  SoundInv'
<1> PICK l \in Labels : l = job.label
  BY DEF BindingInv, JobInv, WritesFile
<1> DEFINE files == job.files
           next == Head(files)
<1>1. /\ job.op = "write" /\ DOMAIN job = {"op", "label", "files"} /\ Completes(l, files)
      /\ tree' = tree
      /\ dir' = [dir EXCEPT ![l][next[1]] = next[2]]
      /\ scoredOn' = [scoredOn EXCEPT ![l] = IF next[1] = "manifest" THEN snapshot ELSE @]
      /\ job' = IF Len(files) = 1 THEN Idle ELSE [job EXCEPT !.files = Tail(files)]
  BY DEF BindingInv, JobInv, WritesFile
<1>2. /\ next[1] \in Files /\ (next[1] = "manifest" <=> Len(files) = 1)
      /\ Len(files) = 1 => files[Len(files)] = next
      /\ Len(files) # 1 => Tail(files)[Len(Tail(files))] = files[Len(files)]
  BY <1>1, FilesLeft
<1>3. ManifestSound(files[Len(files)][2], snapshot) /\ snapshot \in Snapshots
  BY <1>1 DEF SoundInv, PendingInv, snapshot, Snapshots
<1> HIDE DEF files, next
<1>4. PendingInv'
  <2>1. CASE Len(files) = 1
    BY <1>1, <2>1 DEF PendingInv, Idle
  <2>2. CASE Len(files) # 1
    <3>1. job'.op = "write" /\ job'.files = Tail(files)
      BY <1>1, <2>2
    <3> QED  BY <1>1, <1>2, <1>3, <2>2, <3>1 DEF PendingInv, snapshot
  <2> QED  BY <2>1, <2>2
<1>5. ASSUME NEW k \in Labels
      PROVE  \/ dir'[k].manifest = NoFile
             \/ scoredOn'[k] \in Snapshots /\ ManifestSound(dir'[k].manifest, scoredOn'[k])
  <2>1. DOMAIN dir = Labels /\ DOMAIN dir[l] = Files \cup {"made"} /\ DOMAIN scoredOn = Labels
    BY DEF BindingInv, DirInv, SoundInv, HeldInv
  <2>2. CASE k = l /\ next[1] = "manifest"
    <3>1. dir'[k].manifest = next[2] /\ scoredOn'[k] = snapshot
      BY <1>1, <1>2, <2>1, <2>2 DEF Files
    <3> QED  BY <1>2, <1>3, <2>2, <3>1
  <2>3. CASE ~(k = l /\ next[1] = "manifest")
    <3>1. dir'[k].manifest = dir[k].manifest /\ scoredOn'[k] = scoredOn[k]
      BY <1>1, <1>2, <2>1, <2>3 DEF Files
    <3> QED  BY <3>1 DEF SoundInv, HeldInv
  <2> QED  BY <2>2, <2>3
<1>6. DOMAIN scoredOn' = Labels
  BY <1>1 DEF SoundInv, HeldInv
<1> QED  BY <1>1, <1>4, <1>5, <1>6 DEF SoundInv, HeldInv

LEMMA InterruptionSound ==
    ASSUME BindingInv, SoundInv, Interrupted
    PROVE  SoundInv'
<1> DEFINE l == job.label
<1>1. job' = Idle /\ UNCHANGED <<tree, scoredOn>>
  BY DEF Interrupted
<1>2. ASSUME NEW k \in Labels PROVE dir'[k].manifest = dir[k].manifest \/ dir'[k].manifest = NoFile
  <2>1. CASE dir' = dir
    BY <2>1
  <2>2. CASE dir' # dir
    <3>1. job.op = "write" /\ dir' = [dir EXCEPT ![l][Head(job.files)[1]] = NoFile]
      BY <2>2 DEF Interrupted
    <3>2. l \in Labels /\ Head(job.files)[1] \in Files
      BY <3>1, FilesLeft DEF BindingInv, JobInv
    <3> QED  BY <3>1, <3>2 DEF BindingInv, DirInv, Files
  <2> QED  BY <2>1, <2>2
<1> QED  BY <1>1, <1>2 DEF SoundInv, HeldInv, PendingInv, Idle

LEMMA ScoreSound ==
    ASSUME BindingInv, SoundInv, NEW l \in Labels, ScoresAgentRun(l) \/ ScoresSqlRun(l)
    PROVE  SoundInv'
<1>0. WritesScores(l) /\ Readable(l) /\ Verified(l)
  BY DEF ScoresAgentRun, ScoresSqlRun
<1> DEFINE old == dir[l].manifest
<1>1. PICK infra \in SUBSET Scored(dataset) :
        LET rows == Rows(dir[l].captures, dataset, snapshot, infra)
        IN  job' = [op |-> "write", label |-> l,
                    files |-> <<<<"scores", Scores(rows)>>,
                                <<"manifest", ScoredManifest(l, rows)>>>>]
  BY <1>0 DEF WritesScores, RowsNow
<1> DEFINE rows == Rows(dir[l].captures, dataset, snapshot, infra)
           m == ScoredManifest(l, rows)
<1>2. UNCHANGED <<tree, dir, scoredOn>>
  BY <1>0 DEF WritesScores
<1>3. DOMAIN old = ManifestFields /\ CaptureSound(old.captures)
      /\ old.captures.runner = old.runner
  <2>1. old # NoFile
    BY <1>0 DEF Readable
  <2> QED  BY <2>1 DEF BindingInv, DirInv, SoundInv, HeldInv, ManifestSound
<1>4. old.captures = dir[l].captures /\ old.dataset = dataset
  BY <1>0 DEF Verified, Bound
<1>5. /\ m.captures = old.captures /\ m.dataset = old.dataset /\ m.runner = old.runner
      /\ m.scores = Scores(rows)
  <2> HIDE DEF rows
  <2> QED  BY <1>3 DEF ScoredManifest, ManifestFields
<1>6. ManifestSound(m, snapshot)
  <2>1. m.scores = Scores(Rows(m.captures, m.dataset, snapshot, infra))
    BY <1>4, <1>5
  <2> HIDE DEF m
  <2> QED  BY <1>3, <1>5, <2>1 DEF ManifestSound
<1>7. /\ job'.op = "write"
      /\ job'.files = <<<<"scores", Scores(rows)>>, <<"manifest", m>>>>
  BY <1>1
<1> HIDE DEF rows, m
<1>8. job'.files[Len(job'.files)][2] = m
  BY <1>7
<1> QED  BY <1>2, <1>6, <1>7, <1>8 DEF SoundInv, HeldInv, PendingInv, snapshot

LEMMA EditSound ==
    ASSUME BindingInv, SoundInv, NEW l \in Labels, EditsEvidence(l)
    PROVE  SoundInv'
<1>1. job = Idle /\ job' = job /\ UNCHANGED <<tree, scoredOn>>
  BY DEF EditsEvidence
<1>2. \A k \in Labels : dir'[k].manifest = dir[k].manifest
  BY DEF EditsEvidence, BindingInv, DirInv, Files
<1> QED  BY <1>1, <1>2 DEF SoundInv, HeldInv, PendingInv, Idle

LEMMA SoundStep == BindingInv /\ SoundInv /\ [Next]_vars => SoundInv'
<1> SUFFICES ASSUME BindingInv, SoundInv, [Next]_vars PROVE SoundInv'
  OBVIOUS
<1>1. CASE UNCHANGED <<tree, dir, job, scoredOn>>
  BY <1>1 DEF SoundInv, HeldInv, PendingInv, snapshot
<1>2. ASSUME \/ UNCHANGED vars \/ \E l \in Labels : Rescores(l)
             \/ \E b, c \in Labels : \E explained \in Explanations : Diff(b, c, explained)
      PROVE  SoundInv'
  BY <1>1, <1>2 DEF Rescores, Diff, vars
<1>3. ASSUME EditsTree PROVE SoundInv'
  <2>1. job.op # "write" /\ tree' \in Trees /\ UNCHANGED <<dir, job, scoredOn>>
    BY <1>3 DEF EditsTree
  <2> QED  BY <2>1 DEF SoundInv, HeldInv, PendingInv
<1> QED  BY <1>2, <1>3, StartSound, CaptureWritesSound, WriteSound, InterruptionSound, ScoreSound,
            EditSound DEF Next

-----------------------------------------------------------------------------
\* A question and a metric have one score.
OneScore(rows) ==
    /\ \A row \in rows : row = <<row[1], row[2], row[3]>> /\ row[3] \in Scorings
    /\ \A row, other \in rows : row[1] = other[1] /\ row[2] = other[2] => row = other

LEMMA ScoreFound ==
    ASSUME NEW rows, OneScore(rows), NEW row \in rows
    PROVE  /\ <<row[1], row[2]>> \in Keys(rows)
           /\ ScoreOf(rows, row[1], row[2]) = row[3]
<1> DEFINE s == ScoreOf(rows, row[1], row[2])
<1>1. <<row[1], row[2]>> \in Keys(rows)
  BY DEF Keys
<1>2. row[3] \in Scorings /\ <<row[1], row[2], row[3]>> \in rows
  BY DEF OneScore
<1>3. <<row[1], row[2], s>> \in rows
  BY <1>2 DEF ScoreOf, Scorings
<1>4. <<row[1], row[2], s>> = row
  <2> DEFINE other == <<row[1], row[2], s>>
  <2>1. other[1] = row[1] /\ other[2] = row[2] /\ other \in rows
    BY <1>3
  <2> HIDE DEF other
  <2>2. other = row
    BY <2>1 DEF OneScore
  <2> QED  BY <2>2 DEF other
<1>5. <<row[1], row[2], s>>[3] = s
  OBVIOUS
<1> QED  BY <1>1, <1>4, <1>5

\* What no blocking question may do to a row of the baseline.
LEMMA NothingLost ==
    ASSUME NEW before, NEW after, OneScore(before), OneScore(after),
           NEW row \in before, row[1] \notin BlockingQuestions(before, after)
    PROVE  /\ row[3] = Pass => row \in after
           /\ row[3] = Fail => \E s \in {Pass, Fail} : <<row[1], row[2], s>> \in after
<1> DEFINE key == <<row[1], row[2]>>
           was == ScoreIn(before, key)
           is == ScoreIn(after, key)
<1>0. key[1] = row[1] /\ key[2] = row[2]
  OBVIOUS
<1>1. key \in Keys(before) /\ was = row[3] /\ row = <<row[1], row[2], row[3]>>
  BY <1>0, ScoreFound DEF ScoreIn, OneScore
<1> HIDE DEF key
<1>2. ~Blocks(was, is)
  BY <1>0, <1>1 DEF BlockingQuestions, QuestionBlocks
<1>3. is = Unscored \/ <<row[1], row[2], is>> \in after
  <2> SUFFICES ASSUME key \in Keys(after) PROVE <<row[1], row[2], is>> \in after
    BY DEF ScoreIn
  <2>1. PICK other \in after : key = <<other[1], other[2]>>
    BY DEF Keys
  <2>2. other[1] = row[1] /\ other[2] = row[2]
    BY <1>0, <2>1
  <2>3. is = other[3]
    BY <1>0, <2>2, ScoreFound DEF ScoreIn
  <2> QED  BY <2>2, <2>3 DEF OneScore
<1>4. is \in {Pass, Fail, Unscored}
  <2>1. CASE key \notin Keys(after)
    BY <2>1 DEF ScoreIn
  <2>2. CASE key \in Keys(after)
    <3>1. PICK other \in after : key = <<other[1], other[2]>>
      BY <2>2 DEF Keys
    <3>2. is = other[3]
      BY <1>0, <2>2, <3>1, ScoreFound DEF ScoreIn
    <3> QED  BY <3>2 DEF OneScore, Scorings
  <2> QED  BY <2>1, <2>2
<1> HIDE DEF was, is
<1>5. row[3] = Pass => is = Pass
  BY <1>1, <1>2 DEF Blocks, Pass, Fail
<1>6. row[3] = Fail => is # Unscored
  BY <1>1, <1>2 DEF Blocks, Pass, Fail
<1> QED  BY <1>1, <1>3, <1>4, <1>5, <1>6 DEF Pass, Fail, Unscored

\* The scores of a run that is read back bound and scored are those of its capture.
LEMMA BoundScores ==
    ASSUME SoundInv, NEW l \in Labels, Readable(l), Bound(l), dir[l].scores.rows # {}
    PROVE  /\ CaptureSound(dir[l].captures)
           /\ dir[l].captures.runner = dir[l].manifest.runner
           /\ scoredOn[l] \in Snapshots
           /\ \E infra : dir[l].scores.rows
                           = Rows(dir[l].captures, dir[l].manifest.dataset, scoredOn[l], infra)
<1>1. ManifestSound(dir[l].manifest, scoredOn[l]) /\ scoredOn[l] \in Snapshots
  BY DEF SoundInv, HeldInv, Readable
<1>2. \A rows : Scores(rows).rows = rows
  BY DEF Scores
<1> QED  BY <1>1, <1>2 DEF ManifestSound, Bound

LEMMA RowsOneScore ==
    ASSUME NEW captures, NEW cases, NEW on, NEW infra
    PROVE  OneScore(Rows(captures, cases, on, infra))
  BY RowsUnique DEF OneScore

\* An agent's run that meets the floors states nothing its tools did not return.
LEMMA FloorsHold ==
    ASSUME NEW captures, NEW cases, NEW on, NEW infra, CaptureSound(captures),
           captures.runner = "agent",
           \A f \in Floors : Met(f, Rows(captures, cases, on, infra)),
           NEW q \in DOMAIN captures.records
    PROVE  Holds(captures.records[q], cases[q])
<1> DEFINE rows == Rows(captures, cases, on, infra)
           t == captures.records[q]
           S(m) == RowScore(captures, cases, q, on, q \in infra, m)
<1>1. IsFiniteSet(rows) /\ IsTurn(t)
  BY RowsFinite DEF CaptureSound
<1>2. ASSUME NEW m \in MetricsOf(captures, cases, q), <<m, "any", 100>> \in Floors
      PROVE  S(m) # Fail
  <2> DEFINE row == <<q, m, S(m)>>
  <2>1. row \in rows
    BY RowIs
  <2>2. row[2] = m /\ row[3] = S(m)
    OBVIOUS
  <2>3. Met(<<m, "any", 100>>, rows)
    BY <1>2
  <2> HIDE DEF row, rows, S
  <2>4. S(m) # Unscored => S(m) = Pass
    BY <1>1, <2>1, <2>2, <2>3, FloorMet
  <2> QED  BY <2>4 DEF Pass, Fail, Unscored
<1>3. FaithfulnessRow(CaptureTurn(t.results), t.answer) # Fail
  <2>1. S("answer_faithfulness") # Fail
    BY <1>2 DEF MetricsOf, Floors
  <2> QED  BY <2>1 DEF RowScore, TurnScore
<1>4. CommunicatedRow(CaptureTurn(t.results), t.answer) # Fail
  <2>1. S("result_communicated") # Fail
    BY <1>2 DEF MetricsOf, Floors
  <2> QED  BY <2>1 DEF RowScore, TurnScore
<1>5. cases[q].expect => SafetyRow(t.answer, cases[q].refusal) # Fail
  <2> SUFFICES ASSUME cases[q].expect PROVE SafetyRow(t.answer, cases[q].refusal) # Fail
    OBVIOUS
  <2>1. S("safety_refusal") # Fail
    BY <1>2 DEF MetricsOf, Floors
  <2> QED  BY <2>1 DEF RowScore, TurnScore
<1> QED  BY <1>1, <1>3, <1>4, <1>5, TurnHolds

LEMMA DiffHolds ==
    ASSUME SoundInv, NEW b \in Labels, NEW c \in Labels, NEW explained, Diff(b, c, explained)
    PROVE  VerdictsHold'
<1> DEFINE old == dir[b]
           new == dir[c]
           cases == new.manifest.dataset
<1>1. /\ Readable(b) /\ Bound(b) /\ old.scores.rows # {}
      /\ Readable(c) /\ Bound(c) /\ new.scores.rows # {}
      /\ BlockingQuestions(old.scores.rows, new.scores.rows) \subseteq explained
      /\ new.manifest.runner = "agent" => \A f \in Floors : Met(f, new.scores.rows)
      /\ dir' = dir
      /\ verdict' = [of |-> "diff", baseline |-> b, candidate |-> c, explained |-> explained]
  BY DEF Diff
<1>2. PICK infra : new.scores.rows = Rows(new.captures, cases, scoredOn[c], infra)
  BY <1>1, BoundScores
<1>3. PICK outage :
         old.scores.rows = Rows(old.captures, old.manifest.dataset, scoredOn[b], outage)
  BY <1>1, BoundScores
<1>4. CaptureSound(new.captures) /\ new.captures.runner = new.manifest.runner
  BY <1>1, BoundScores
<1>5. /\ verdict'.of = "diff" /\ verdict'.baseline = b /\ verdict'.candidate = c
      /\ verdict'.explained = explained
  BY <1>1
<1>6. \E on \in Snapshots : \A row \in new.scores.rows :
         row[3] = Unscored \/ row \in Rows(new.captures, cases, on, {})
  <2>1. scoredOn[c] \in Snapshots
    BY <1>1, BoundScores
  <2> QED  BY <1>2, <2>1, RowsReproduce
<1>7. \A row \in old.scores.rows :
         row[1] \notin explained =>
           /\ row[3] = Pass => row \in new.scores.rows
           /\ row[3] = Fail => \E s \in {Pass, Fail} : <<row[1], row[2], s>> \in new.scores.rows
  <2>1. OneScore(old.scores.rows) /\ OneScore(new.scores.rows)
    BY <1>2, <1>3, RowsOneScore
  <2> QED  BY <1>1, <2>1, NothingLost
<1>8. new.captures.runner = "agent" =>
         \A q \in DOMAIN new.captures.records : Holds(new.captures.records[q], cases[q])
  BY <1>1, <1>2, <1>4, FloorsHold
<1>9. PassedCandidateHolds'
  BY <1>1, <1>5, <1>6, <1>7, <1>8 DEF PassedCandidateHolds, Rows
<1>10. RescoreReproduces'
  BY <1>5 DEF RescoreReproduces
<1> QED  BY <1>9, <1>10 DEF VerdictsHold

\* Of two scores of a question and metric, the one that is not scored is a mismatch.
LEMMA LostOrFound ==
    ASSUME NEW rows, NEW others, OneScore(rows), OneScore(others),
           NEW row \in rows, row \notin others,
           NEW other \in others, other = <<row[1], row[2], other[3]>>,
           row[3] = Unscored \/ other[3] = Unscored
    PROVE  /\ <<row[1], row[2], Unscored>> \in Mismatches(rows, others)
           /\ <<row[1], row[2], Unscored>> \in Mismatches(others, rows)
<1>1. row = <<row[1], row[2], row[3]>>
  BY DEF OneScore
<1>2. other[1] = row[1] /\ other[2] = row[2]
  <2> DEFINE o == other[3]
  <2>1. <<row[1], row[2], o>>[1] = row[1] /\ <<row[1], row[2], o>>[2] = row[2]
    OBVIOUS
  <2> QED  BY <2>1
<1>3. other \notin rows
  BY <1>2 DEF OneScore
<1>4. CASE row[3] = Unscored
  BY <1>1, <1>4 DEF Mismatches
<1>5. CASE other[3] = Unscored
  BY <1>3, <1>5 DEF Mismatches
<1> QED  BY <1>4, <1>5

LEMMA RescoreHolds ==
    ASSUME SoundInv, NEW l \in Labels, Rescores(l)
    PROVE  VerdictsHold'
<1> DEFINE captures == dir[l].captures
           recorded == dir[l].scores.rows
           replaced == scoredOn[l] # snapshot
<1>1. PICK rows \in RowsNow(l) :
         verdict' = [of |-> "rescore", run |-> l, mismatches |-> Mismatches(recorded, rows)]
  BY DEF Rescores
<1>2. PICK again : rows = Rows(captures, dataset, snapshot, again)
  BY DEF RowsNow
<1>3. PICK infra : recorded = Rows(captures, dataset, scoredOn[l], infra)
  BY BoundScores DEF Rescores, Verified
<1>4. OneScore(recorded) /\ OneScore(rows)
  BY <1>2, <1>3, RowsOneScore
<1>5. ASSUME NEW row \in Mismatches(recorded, rows), ~(replaced /\ row[2] \in Compared)
      PROVE  <<row[1], row[2], Unscored>> \in Mismatches(recorded, rows)
  <2>0. snapshot = scoredOn[l] \/ row[2] \notin Compared
    BY <1>5
  <2>1. CASE row \in recorded /\ row \notin rows
    <3>1. Reproduced(row, scoredOn[l], rows, snapshot)
      <4>1. row \in Rows(captures, dataset, scoredOn[l], infra)
        BY <1>2, <1>3, <2>1
      <4>2. Reproduced(row, scoredOn[l], Rows(captures, dataset, snapshot, again), snapshot)
        BY <4>1, RowsReproduce
      <4> QED  BY <1>2, <1>3, <4>2
    <3>2. PICK other \in rows : /\ other = <<row[1], row[2], other[3]>>
                                /\ row[3] = Unscored \/ other[3] = Unscored
      BY <2>0, <2>1, <3>1 DEF Reproduced
    <3> HIDE DEF recorded
    <3> QED  BY <1>4, <2>1, <3>2, LostOrFound
  <2>2. CASE row \in rows /\ row \notin recorded
    <3>1. Reproduced(row, snapshot, recorded, scoredOn[l])
      <4>1. row \in Rows(captures, dataset, snapshot, again)
        BY <1>2, <1>3, <2>2
      <4>2. Reproduced(row, snapshot, Rows(captures, dataset, scoredOn[l], infra), scoredOn[l])
        BY <4>1, RowsReproduce
      <4> QED  BY <1>2, <1>3, <4>2
    <3>2. PICK other \in recorded : /\ other = <<row[1], row[2], other[3]>>
                                    /\ row[3] = Unscored \/ other[3] = Unscored
      BY <2>0, <2>2, <3>1 DEF Reproduced
    <3> HIDE DEF recorded
    <3> QED  BY <1>4, <2>2, <3>2, LostOrFound
  <2> QED  BY <2>1, <2>2 DEF Mismatches
<1>6. /\ verdict'.of = "rescore" /\ verdict'.run = l
      /\ verdict'.mismatches = Mismatches(recorded, rows)
  BY <1>1
<1>7. scoredOn' = scoredOn /\ snapshot' = snapshot
  BY DEF Rescores, snapshot
<1>8. RescoreReproduces'
  BY <1>5, <1>6, <1>7 DEF RescoreReproduces, Compared
<1>9. PassedCandidateHolds'
  BY <1>6 DEF PassedCandidateHolds
<1> QED  BY <1>8, <1>9 DEF VerdictsHold

LEMMA VerdictStep == BindingInv /\ SoundInv /\ VerdictInv /\ [Next]_vars => VerdictInv'
<1> SUFFICES ASSUME BindingInv, SoundInv, VerdictInv, [Next]_vars PROVE VerdictInv'
  OBVIOUS
<1>1. CASE verdict' = NoVerdict
  BY <1>1 DEF VerdictInv, VerdictsHold, PassedCandidateHolds, RescoreReproduces, NoVerdict
<1>2. CASE verdict' = verdict /\ verdict.of = "none"
  BY <1>2 DEF VerdictInv, VerdictsHold, PassedCandidateHolds, RescoreReproduces
<1>3. ASSUME NEW l \in Labels, Rescores(l) PROVE VerdictInv'
  <2>1. job' = Idle
    BY <1>3 DEF Rescores
  <2> QED  BY <1>3, <2>1, RescoreHolds DEF VerdictInv, Idle
<1>4. ASSUME NEW b \in Labels, NEW c \in Labels, NEW explained, Diff(b, c, explained)
      PROVE  VerdictInv'
  <2>1. job' = Idle
    BY <1>4 DEF Diff
  <2> QED  BY <1>4, <2>1, DiffHolds DEF VerdictInv, Idle
<1>5. ASSUME WritesFile \/ Interrupted PROVE VerdictInv'
  <2>1. job # Idle
    BY <1>5 DEF WritesFile, Interrupted, Idle
  <2> QED  BY <1>2, <1>5, <2>1 DEF VerdictInv, WritesFile, Interrupted
<1>6. ASSUME UNCHANGED vars PROVE VerdictInv'
  BY <1>6 DEF vars, VerdictInv, VerdictsHold, PassedCandidateHolds, RescoreReproduces, Idle, snapshot
<1>7. ASSUME NEW l \in Labels, ScoresAgentRun(l) \/ ScoresSqlRun(l) PROVE VerdictInv'
  BY <1>1, <1>7 DEF ScoresAgentRun, ScoresSqlRun, WritesScores
<1>8. ASSUME NEW l \in Labels, NEW runner, StartsCapture(l, runner) \/ EditsEvidence(l)
      PROVE  VerdictInv'
  BY <1>1, <1>8 DEF StartsCapture, EditsEvidence
<1>9. ASSUME EndsCapture \/ EditsTree PROVE VerdictInv'
  BY <1>1, <1>9 DEF EndsCapture, EditsTree
<1> QED  BY <1>3, <1>4, <1>5, <1>6, <1>7, <1>8, <1>9 DEF Next

\* A candidate that a diff lets pass was scored on its own evidence, lost no check it
\* did not explain, and states nothing its tools did not return, but may have been scored
\* on a snapshot other than the one it names; a re-score differs only where the database
\* failed a comparison or, once the snapshot is replaced, where a statement is compared
\* (docs/reference/agent-behavior.md; regression.py, run_diff; milestone.py, rescore).
THEOREM VerdictsAlwaysHold == Spec => []VerdictsHold
<1> DEFINE Inv == BindingInv /\ SoundInv /\ VerdictInv
<1>1. Init => Inv
  BY BindingInit, SoundInit
<1>2. Inv /\ [Next]_vars => Inv'
  BY BindingStep, SoundStep, VerdictStep
<1>3. Inv => VerdictsHold
  BY DEF VerdictInv
<1> QED  BY <1>1, <1>2, <1>3, PTL DEF Spec
=============================================================================
