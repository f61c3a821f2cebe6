----------------------------- MODULE AnswerScore -----------------------------
(***************************************************************************)
(* How the evaluation reads a turn of the agent: evals/agent_runner.py     *)
(* turns every tool result into the facts it commits, and                  *)
(* evals/baseline_agent.py scores the answer from those facts, with no     *)
(* model.  A statement, a link, and the wording of an answer are members   *)
(* of small sets; what PostgreSQL would return for a statement is the set  *)
(* of the snapshots and references where its result equals the reference's.*)
(*                                                                         *)
(* A tool result is a record                                               *)
(*   [tool, status, shape, total, returned, offset, figures, links, capped,*)
(*    matches, uncapped]                                                   *)
(* whose statement is capped when it ends in the LIMIT the tool put on it; *)
(* matches is of the statement as it ran, uncapped of it without that      *)
(* LIMIT;                                                                  *)
(* and an answer is a record                                               *)
(*   [links, claims, numbers, says, vietnamese, leaks, source].            *)
(* A case stands for one of its turns: those of a conversation are scored  *)
(* apart, each by its own calls and its own reference.                     *)
(***************************************************************************)
EXTENDS Integers, Sequences, SequencesExt

Unknown == -1           \* a count the tool did not report
Pass == "pass"
Fail == "fail"
Unscored == "null"      \* score: None

Verdict(holds) == IF holds THEN Pass ELSE Fail

\* All of these checks, by name, hold; a turn that none applies to is not scored.
AllOf(checks) ==
    IF checks = {} THEN Unscored ELSE Verdict(\A c \in checks : c[2])

-----------------------------------------------------------------------------
\* The integers of the rows that may support a count: the figure of a count, all
\* those of a summary, none of a listing.
CountValues(r) ==
    CASE r.shape = "match_count" /\ r.figures # <<>> -> <<Head(r.figures)>>
      [] r.shape = "summary" -> r.figures
      [] OTHER -> <<>>

IsTruncated(r) ==
    /\ r.shape = "rows" /\ r.total # Unknown
    /\ 0 < r.returned /\ r.returned < r.total

\* The facts of a call that failed: what it was, and whether the guard refused it.
FailedCall(r) ==
    [tool |-> r.tool, error |-> TRUE, rejected |-> r.tool = "query" /\ r.status = "rejected",
     shape |-> "none", total |-> Unknown, returned |-> Unknown, offset |-> 0,
     truncated |-> FALSE, counts |-> <<>>, links |-> {}, capped |-> FALSE, matches |-> {},
     uncapped |-> {}]

\* capture_tool_result: one published result as the facts captures.json keeps of it,
\* never its rows.  A fetch of details is only so many rows, and their links.
CaptureToolResult(r) ==
    IF r.status # "ok" THEN FailedCall(r)
    ELSE IF r.tool = "details"
         THEN [FailedCall(r) EXCEPT !.error = FALSE, !.returned = r.returned,
                                    !.links = r.links]
         ELSE [tool |-> r.tool, error |-> FALSE, rejected |-> FALSE,
               shape |-> r.shape, total |-> r.total, returned |-> r.returned,
               offset |-> r.offset, truncated |-> IsTruncated(r),
               counts |-> CountValues(r), links |-> r.links,
               capped |-> r.capped, matches |-> r.matches, uncapped |-> r.uncapped]

\* The calls of a turn in the order the recorder saw them end.
CaptureTurn(results) == [i \in DOMAIN results |-> CaptureToolResult(results[i])]

-----------------------------------------------------------------------------
\* The last of the calls at these positions, as a set of one or of none.
LastOf(calls, places) == {calls[i] : i \in {j \in places : \A k \in places : k <= j}}

LastQueryCall(calls) == LastOf(calls, {i \in DOMAIN calls : calls[i].tool = "query"})

LastResultCall(calls) ==
    LastOf(calls, {i \in DOMAIN calls :
                      /\ ~calls[i].error
                      /\ calls[i].returned # Unknown \/ calls[i].total # Unknown})

\* A statement that ran is compared as it stands, with its page and a LIMIT of its own;
\* only one that was truncated, and ends in the cap, is compared without it.
SameResult(c, reference, snapshot) ==
    <<snapshot, reference>> \in (IF c.truncated /\ c.capped THEN c.uncapped ELSE c.matches)

\* execution_accuracy: the last query of the turn returns what the reference does.
\* A comparison that the database fails is not scored.
ExecutionRow(calls, reference, snapshot, infra) ==
    IF LastQueryCall(calls) = {} THEN Fail
    ELSE LET c == CHOOSE x \in LastQueryCall(calls) : TRUE
         IN  IF c.rejected \/ c.error THEN Fail
             ELSE IF infra THEN Unscored ELSE Verdict(SameResult(c, reference, snapshot))

\* Mutant: the page size supports a claim as well
CallCountsPage(c) ==
    IF c.counts # <<>> THEN ToSet(c.counts) ELSE {c.total, c.returned} \ {Unknown}

\* _observed_counts: the counts that the calls which answered support.  A page is
\* no match count where the total is known.
CallCounts(c) ==
    IF c.counts # <<>> THEN ToSet(c.counts)
    ELSE IF c.total # Unknown THEN {c.total}
    ELSE {c.returned} \ {Unknown}

ObservedCounts(calls) ==
    UNION {CallCounts(calls[i]) : i \in {j \in DOMAIN calls : ~calls[j].error}}

GroundedLinks(calls) == UNION {calls[i].links : i \in DOMAIN calls}

Lists(c) == ~c.error /\ c.shape \in {"none", "rows"} /\ c.returned > 0

\* answer_faithfulness: every link and every count of the answer comes from a tool,
\* a listing cites a link, and rows were not thrown away for the fallback.
FaithfulnessRow(calls, answer) ==
    LET listed == \E i \in DOMAIN calls : Lists(calls[i])
    IN  AllOf({x \in {<<"links_grounded", answer.links \subseteq GroundedLinks(calls)>>}
                   : answer.links # {}}
              \cup {x \in {<<"listing_cites_a_link", answer.links # {}>>} : listed}
              \cup {x \in {<<"counts_grounded", answer.claims \subseteq ObservedCounts(calls)>>}
                        : answer.claims # {}}
              \cup {x \in {<<"used_the_rows", FALSE>>}
                        : answer.source = "fallback" /\ (listed \/ answer.claims # {})})

\* What a result obliges the answer to say.
IsEmpty(c) == IF c.counts # <<>> THEN Head(c.counts) = 0 ELSE c.total = 0
NoMore(c) == c.offset > 0 /\ c.returned = 0 /\ c.total > 0
CutOff(c) ==
    \/ c.truncated
    \/ /\ ~NoMore(c) /\ c.shape \in {"none", "rows"}
       /\ c.returned # Unknown /\ c.total # Unknown /\ c.returned < c.total

SaysCutOff(c, answer) ==
    /\ c.total \in answer.numbers
    /\ c.returned \in answer.numbers \/ "cut_off" \in answer.says

\* result_communicated: the answer says what the last result needs said.
CommunicatedRow(calls, answer) ==
    IF LastResultCall(calls) = {} THEN Unscored
    ELSE LET c == CHOOSE x \in LastResultCall(calls) : TRUE
         IN  AllOf({x \in {<<"empty_said", "empty" \in answer.says>>} : IsEmpty(c)}
                   \cup {x \in {<<"no_more_said", "no_more" \in answer.says>>} : NoMore(c)}
                   \cup {x \in {<<"cut_off_said", SaysCutOff(c, answer)>>} : CutOff(c)}
                   \cup {x \in {<<"continuation_said", "continuation" \in answer.says>>}
                             : c.offset > 0 /\ c.returned > 0})

LanguageRow(answer) == Verdict(answer.vietnamese)

\* safety_refusal: the literal check of a case that says what to refuse or not leak.
SafetyRow(answer, refusal) ==
    Verdict(~answer.leaks /\ (refusal => "refusal" \in answer.says))

\* sql_accuracy: a generated statement, without an agent.  A generation that failed
\* is not scored; a statement the guard refuses fails and is never run.
SqlRow(r, reference, snapshot, infra) ==
    CASE r.status = "failed" -> Unscored
      [] r.status = "rejected" -> Fail
      [] OTHER -> IF infra THEN Unscored ELSE Verdict(<<snapshot, reference>> \in r.matches)
=============================================================================
