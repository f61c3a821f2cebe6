# InternHunterAgent: TLA+ specifications and proofs

InternHunterAgent answers questions about Vietnamese internship postings. It
has two running programs: a FastAPI service in which an LLM agent answers one
chat turn at a time over Server-Sent Events, and a nightly ingestion job that
fetches the postings the agent queries. A third, run by hand, evaluates the
agent and keeps the evidence. This directory specifies them in TLA+,
model-checks them on small instances with TLC, and proves their safety
properties for every value of the constants with TLAPS. Paths below are
relative to the repository.

- [1. The system](#1-the-system)
- [2. The modules](#2-the-modules)
- [3. ChatTurn and TurnContract](#3-chatturn-and-turncontract)
- [4. Ingestion](#4-ingestion)
- [5. SourceFetch](#5-sourcefetch)
- [6. SqlStatement and QueryTool](#6-sqlstatement-and-querytool)
- [7. Serving](#7-serving)
- [8. Memory](#8-memory)
- [9. WebClient](#9-webclient)
- [10. AnswerScore and MilestoneRun](#10-answerscore-and-milestonerun)
- [11. The runs](#11-the-runs)
- [12. Fairness](#12-fairness)
- [13. The proofs](#13-the-proofs)
- [14. Divergences found](#14-divergences-found)
- [15. What is not modelled](#15-what-is-not-modelled)

## 1. The system

| Component | State it keeps | Operations | What makes it hard | What must hold |
| --- | --- | --- | --- | --- |
| Chat turn pipeline (`src/agents/service.py`, `src/agents/runtime/react_agent.py`, `src/api/routes/query.py`) | per turn: two one-slot queues, a completion event, a deadline, the flags `saw_token`, `fallback_injected`, `done_emitted`, `detach_runtime_task`; the trace span | the agent's producer task, tool observation, runtime generator, consume task, service generator, SSE reader, JSON reader | four asyncio tasks and two suspended generators, each cancellable at each await; deadline; disconnect; an agent library that may stall | the frames come in the order the contract allows; nothing lost, duplicated or reordered; the recorded outcome and the HTTP status match the stream; every connected turn ends; a disconnect takes the turn down |
| Conversation memory (`src/agents/runtime/middleware.py`, `src/core/checkpointer.py`, sweep in `src/serving/composition.py`) | the message list of each thread, as LangGraph checkpoints it | trim, repair interrupted tool calls, checkpoint after each step of the graph, sweep idle threads | two turns on one thread, each with the state it loaded; a turn cut at any step, with a batch of calls half answered; a sweep that selects and deletes later | what the model is sent is valid and whole; a turn that does not overlap loses no history |
| Query tools (`src/agents/tools`, `src/services/query/executor.py`, `row_bound.py`, `result_shape.py`) | one call: the statement, the page, the count | generate, check, bound, order, run read-only, count, shape; read postings by id | page and count are two statements over a table that ingestion replaces; a page that exactly fills its limit | truncated exactly when rows were left out; the count on the card is the count of the query |
| SQL guard (`src/services/query/statement.py`, `sql_validator.py`) | none | admit or refuse, find the statement's own LIMIT and OFFSET and cut them away | scope of common table expressions; bounds behind parentheses | an admitted statement reads `clean_jobs` only; cutting its bounds away leaves the statement it was |
| Ingestion run (`src/services/ingestion/loader.py`, the three stores, `safety.py`) | `raw_jobs`, `clean_jobs`, `ingestion_runs`, the run's summary | schema check, fetch, raw upsert, yield check, normalise, quality gate, clean upsert, summary, dead-man ping | runs that overlap; crash between two commits; safety aborts between raw and clean; a summary that itself cannot be saved | clean rows come only from runs that passed every gate; counts partition the batch; a ping means a completed run |
| Source fetch (`src/services/ingestion/sources/vietnamworks.py`, `compliance.py`) | page cursor, `pages_failed`, robots cache | gate, request, retry, back off, budget | off-by-one in the retry and page bounds; cached refusal | every request was permitted and paced; pages and postings are accounted for; the fetch ends in time |
| Prompt registry (`src/agents/tracing/prompt_registry.py`, `src/agents/runtime/prompts.py`) | the resolved links, a module global that outlives a lifespan; the bundle of each turn | refresh at boot and in the background, one lookup per surface, swap, fall back | a refresh between two reads of one turn; a surface whose lookup fails while another's succeeds | a turn reads one snapshot; a link never outlives the text it is for |
| Serving lifespan (`src/serving/composition.py`, `src/agents/tracing/langfuse.py`) | pool, Langfuse client and its project, three background tasks | guards, open, start the tasks, serve, tear down in reverse | a start that fails half-way; a task cancelled while its thread works; a second lifespan in the same process | what was opened is closed, after the last who uses it |
| Web client (`src/api/static/app.js`) | the transcript's last turn, its cards, the composer, the paint timer, the request in flight | send, read a chunk, render a frame, stop, fail, announce | frames cut by the network; Stop, a timer and a closing stream at every await | what is shown of a turn is what its stream said; it is announced once |
| Milestone evaluation (`evals/agent_runner.py`, `baseline_sql.py`, `baseline_agent.py`, `milestone.py`, `regression.py`) | run directories of three files bound by digests; the case files and the snapshot | capture, score, score again, diff against a baseline run | a command interrupted between two files; a tree edited between a capture and its score; metrics that read the same facts differently | evidence that commands made matches its manifest; a candidate that passes deserves to |
| API application (`src/api/app.py`, `src/api/routes/health.py`) | none | wiring, health probe | none | - |
| Recovery script (`scripts/recover_ingestion_workflow.py`) | the remote workflow's state | read, enable, dispatch | the second of two remote calls fails | a recovery that reports success has dispatched |
| Text normalisation (`src/services/ingestion/transform.py`, `normalize/`) | none | pure functions over text | string content | - |
| Dataset checks, migrations, other scripts | none | one-shot | none | - |

How they interact. The route pulls frames from the service generator. The
service creates a task that pulls items from the runtime generator and puts
them in the service's queue. The runtime creates the producer task, which
iterates the agent and puts into the runtime's queue; the tool-observation
middleware, running inside the agent, puts tool events into the same queue.
The service hands the runtime an `asyncio.Event` that it sets once the outcome
is recorded, so that the runtime's trace span is still open then. The page in
the browser reads those frames and knows nothing else of the turn. The agent
loads its thread's messages from the checkpointer, whose pool the lifespan owns,
and a turn reads its prompts from the registry that a background task of the
lifespan replaces. The agent's tools read `clean_jobs`, which the ingestion job
writes in another process. The ingestion job's runs share three tables and one
advisory lock; nothing else connects two runs, or the job and the service. The
evaluation drives the agent in a process of its own and meets the rest only
through the facts of each tool call.

Where the models meet: `ChatTurn` implements `TurnContract`, and the service in
`WebClient` *is* `TurnContract`, so the page is checked against every stream
that the pipeline can produce. `Ingestion!Fetches` takes what `SourceFetch`
guarantees. In `QueryTool` the ingestion job is the action `Ingests`, which sets
the table to anything.

## 2. The modules

| Module | What it is |
| --- | --- |
| `ChatTurn` | one chat turn: agent, tool observation, runtime, consume task, service, route |
| `TurnContract` | the abstract specification of the frames a turn yields; `ChatTurn` implements it |
| `Ingestion` | several ingestion runs over one database |
| `SourceFetch` | the fetches of one `VietnamWorksSource`, with its robots gate; checked as it stands |
| `SqlStatement` | operators: a statement, what the guard makes of it and what PostgreSQL makes of it |
| `QueryTool` | one call of either tool over a table that changes |
| `Serving` | lifespans of one process, its background tasks, the prompt registry and the turns that read it; checked as it stands |
| `Memory` | one thread, the turns on it and the retention sweep |
| `WebClient` | the page and its turns, over `TurnContract` |
| `AnswerScore` | operators: the facts of a tool call, and each metric over them |
| `MilestoneRun` | run directories, the commands on them and the tree they read |
| `MCChatTurn`, `MCIngestion`, `MCQueryTool`, `MCMemory`, `MCWebClient`, `MCMilestoneRun` | the same for TLC: symmetry, families of inputs, fractions |
| `ChatTurnProofs`, `IngestionProofs`, `SourceFetchProofs`, `QueryToolProofs`, `ServingProofs`, `WebClientProofs`, `MilestoneRunProofs`, `MemoryProofs` | theorems about the module they are named after, for any constants (section 13) |

Definitions marked `Mutant` in a module are plausible bugs of the definition
that follows them. No specification uses them: each is there to be put in the
place of that definition, to show that a property would notice
(`PROJECT.json`, `mutants`).

## 3. ChatTurn and TurnContract

A step of `ChatTurn` is the code one asyncio task runs between two awaits: the
event loop is single-threaded, so nothing interleaves inside a step.

| Variable | In the code |
| --- | --- |
| `producer`, `tokens` | the task of `_produce_stream` in `react_agent.py` and the agent it iterates |
| `tool` | where each `awrap_tool_call` of `ToolObservationMiddleware` is |
| `events` | the runtime's `asyncio.Queue(maxsize=1)` |
| `runtime` | the generator `AgentRuntime.astream`: its await, `stream_completed`, the exception in flight, the trace span |
| `consumer` | the task of `consume_runtime_stream` in `service.py` |
| `runtimeEvents` | the service's `asyncio.Queue(maxsize=1)` |
| `service` | the generator `stream_agent_response`: the yield or await it is at and its four flags |
| `expired`, `completion`, `observed` | the serving deadline, `completion_event`, the outcome given to the stream observation |
| `route`, `connected`, `reader` | the SSE or JSON route, its client, and its reading loop with the task around `__anext__` |
| `emitted`, `frames` | history: what was put on `events`, what the service yielded |

The actions keep the order of the code. An async generator moves only while
somebody awaits its next item, so the runtime moves only while the consume task
is at its `async for`, and the service only while the reader has an `__anext__`
pending (`RuntimeRunsAt`, `ResumedAt`). A cancellation is requested in one step
(`cancelled`) and delivered in another, at whatever await the task has reached
by then (`ProducerHonoursCancel`, `RuntimeCancelled`, `ConsumerCancelled`);
where it lands decides which `finally` blocks run. A put of the consume task that
had to wait remembers it (`consumer.blocked`): cancelled, it raises although its slot
may have become free meanwhile. A join that is cancelled still ends with its producer
but raises, so that the wait for the completion behind it is skipped. `ServiceDeadline` is the
`TimeoutError` of `wait_for` or the check at the top of the loop;
`ReaderSeesDisconnect`, `ReaderCancelsService` and `ReaderClosesService` are the
teardown of `_with_heartbeats` and of the response.

The agent library is the environment. It may write tokens, run batches of
parallel tool calls, end, fail with any kind of failure, stall, or die with a
`CancelledError` that no `except Exception` sees.

`TurnContract` knows nothing of tasks and queues: a stream opens with the
session, carries tokens and tool events, is summed up by one metadata frame or
cut by one error frame, and finishes with `done`; an answer left empty gets one
fallback token, and then the summary says "fallback". `ImplementsContract` is
the refinement, with `over` mapped to the service generator's being closed.

## 4. Ingestion

A step of `Ingestion` is one transaction, or the code between two of them. Each
run is a record of its place in `run_ingestion` (`loader.py`), the batch it
fetched, the hashes it read under the lock and its summary; `effect`, `loaded`
and the writer `by` of each row are history, read by no guard. `lock`, `raw`,
`clean`, `rows` and `pinged` are the advisory lock of `raw_store.py`,
`raw_jobs`, `clean_jobs`, `ingestion_runs` and the monitor.

| Action | In the code |
| --- | --- |
| `Starts`, `ChecksSchema`, `OpensSource`, `Fetches` | `run_ingestion` up to the list of postings |
| `RawSkips`, `RawLocks`, `RawCommits`, `RawFails` | `upsert_raw_postings`: the empty batch, the lock and the read, the write and the commit, the rollback |
| `Screens` | yield floor, normalisation, row quality, rejection ratio |
| `CleanCommits`, `CleanFails` | `upsert_clean_jobs`, the completed summary and the return |
| `Persists`, `Pings` | the `finally` block, and `main()` after a run that returned |
| `Interrupted`, `Killed` | `KeyboardInterrupt`, which passes every `except` clause and still runs `finally`; the end of the process |

`.github/workflows/ingestion.yml` keeps scheduled runs apart, but the job can be
started by hand next to one, and `docs/modules/ingestion.md` promises that the
counts survive an overlap. So runs overlap freely here, and `overlapped`
remembers whether they did.

A posting's content is a member of `Contents`; normalisation raises on those in
`Malformed` and the row rules drop those in `LowQuality`. `content_hash` is a
digest of the payload, so equal contents are equal hashes. `AboveRatio`
compares fractions where the code divides floats: division rounds correctly, so
a quotient equal to the configured ratio is the number the configuration parses
to, and any other quotient of two counts is further from it than the rounding.

Where the answer to a COMMIT is lost the transaction is committed and the client
sees an error. `RawCommits` and `CleanCommits` therefore also end in the
`except` branch, and an interrupt can come between a commit and the assignment
of the summary that reports it.

## 5. SourceFetch

`SourceFetch` is sequential: one source, whose `fetch()` is called several
times. What makes it worth a model is time. The clock is a natural number, a
step is one request with the sleep that follows it, and a request takes
anything up to `Operations` times `Timeout`: httpx applies `timeout=` to each
socket operation, not to the request.

| Variable | In the code |
| --- | --- |
| `at` | where the generator is: not begun, at the gate, at the top of a page, asking for it, over |
| `clock`, `start`, `exhausted` | `time.monotonic()`, `_deadline` less `max_elapsed_seconds`, `budget_exhausted` |
| `page`, `query`, `attempts` | the two loop variables and the local of `_post_with_retry` |
| `failed`, `seen`, `emitted` | `pages_failed`, `seen_ids`, how often each `external_id` was yielded |
| `cached` | `_cached_policy` of the gate |
| `requested`, `answered`, `delivered`, `lastEnd`, `permit` | history: pages asked for and answered, hits received, the end of the last request, the last permission |

| Action | In the code |
| --- | --- |
| `Starts` | `fetch` up to the gate |
| `GateRemembers`, `GateReadsPolicy`, `GateFindsNone` | `assert_allowed`: a policy still fresh, one fetched and parsed, a 404 or a refusal |
| `OpensPage`, `StopsEarly`, `RunsOut` | the two loop headers of `_collect` and the budget checks |
| `Answered`, `Retried`, `GivesUp`, `Breaks` | one try: a page of hits, a transient failure with a retry left, a page given up, an exception the adapter does not expect |

The consumer, `list(source.fetch())`, takes no time, so the generator is never
left suspended at a `yield`. A hit is a `jobId` and whether the job-function
filter wants it. `Retried` and `GivesUp` may each follow any failed try with a
retry left, since the site chooses between a transient and a permanent failure.
`Ingestion!Fetches` takes the result from here: each key at most once
(`EveryPostingOnce`), "aborted" as a safety abort, "failed" as a failed run.

## 6. SqlStatement and QueryTool

The agent asks its first tool a question; a second model writes a statement;
the guard reads it, the executor cuts it to a page and runs it. What can go
wrong lies between three readings of the same text: the guard's, the
executor's, which looks for the statement's own bounds by the depth of its
parentheses, and PostgreSQL's. `SqlStatement` states all three over one data
type. A statement is a tree of queries two levels deep (common table
expressions, subqueries, a derived table in FROM and the query itself), each with
the relations it names, the marks of what the guard refuses, its kind of select
list, and its bounds in layers, as in `((SELECT .. LIMIT 2) OFFSET 1)`. `Facts`, `Admitted`,
`WithoutOwnBound`, `Limit`, `Offset` and `Shape` are the code;
`TablesRead`, `Accepts`, `Left`, `Matches` and `Cell` are PostgreSQL's rules of
scope, of bounds and of results, and are marked external.

| Variable of `QueryTool` | In the code |
| --- | --- |
| `jobs` | the rows of `clean_jobs` that the statement's condition selects |
| `query` | the call of `query_clean_jobs`: where it is, the statement, what is left of it, the bounds taken from it, the transaction's snapshot, the page, the total, the facts of the result |
| `details` | the call of `get_job_details`: the ids asked for, the snapshot, what it tells of them |

| Action | In the code |
| --- | --- |
| `GenerationFails`, `Refuses`, `Accepted` | the SQL generator, `validate_sql`, `resolve_bounds` |
| `RefusesOrder`, `Opens` | a page past the first without an `id` tiebreak; the REPEATABLE READ transaction |
| `Fetches`, `FetchesTooMuch`, `RejectsSyntax`, `Counts`, `QueryFailsInDb` | the page, its size limit, PostgreSQL's refusal, the count, and each kind of database failure |
| `QueryReturns` | `classify_result_shape` and the facts of the card |
| `AsksDetails`, `DetailsReturn`, `DetailsFailInDb`, `DetailsTooLarge` | `get_job_details`, one statement |
| `Ingests` | an ingestion run commits, at any time |

`OnlyJobsRead` compares the guard's scope with PostgreSQL's. `PageExact` says
that the rows, the total and the word "truncated" are those of the statement as
it was written, in one snapshot. Its precondition `OwnBoundFound` names the
statements of which the guard finds the bounds it means to cut, and only of those is
anything said. `_bound_token`
takes the first of the shallowest bound keywords, so with
`(SELECT .. LIMIT 5) OFFSET 2` the inner LIMIT stays and a second is appended,
which PostgreSQL refuses, and with
`WITH c AS (.. LIMIT 3) (SELECT .. FROM c LIMIT 5)` it is the common table
expression that loses its LIMIT.

`CountHonest` is about the number on the card, which `result_shape.py` takes from
the first select list of the text. A list is one of these:

| `list` | For example | The classifier says | Rows |
| --- | --- | --- | --- |
| `rows` | `SELECT id, title` | rows | one for each it ranges over |
| `distinct` | `SELECT DISTINCT city` | rows | one for each different row, at most `Groups` |
| `expanded` | `SELECT unnest(..)` | rows | `Values` for each it ranges over |
| `count` | `SELECT COUNT(*)` | match count | one, with the number it ranges over |
| `figure` | `SELECT AVG(..)`, `COUNT(DISTINCT city)` | summary | one |
| `windowed` | `SELECT id, COUNT(*) OVER ()` | summary | one for each it ranges over |
| `aggregated` | `SELECT string_agg(..)` | rows | one |

Any of them may be grouped, which makes it a summary; may range over a relation,
over a relation times a set-returning function in FROM (`spread`), or over a
derived table with its own list and its own bounds. The number of a `COUNT(*)` over
`(SELECT DISTINCT city FROM clean_jobs)` is therefore that of the cities, and that
of `SELECT DISTINCT city` as well: `CountHonest` does not say that the number is one
of jobs. It says that there is a number only where the statement lists rows or
counts them, neither by group, and that it is how many rows the statement lists
without its own bounds, or how many it counts. It holds of statements without
common table expressions whose list is not `aggregated`; section 14 shows why no
more can be said, and section 15 lists the forms of a statement that are left out.

Abstractions: what a query matches depends on the number of rows and not on
their content, a query makes at most `Groups` groups or different rows, two calls
are never in flight (the tools share nothing), and the order of rows is that of
their ids.

## 7. Serving

A step is the code between two awaits of the lifespan, of a background task or
of a turn. `phase` is where `lifespan` is, from the three guards to the pool's
closing; `pool`, `client` and `project` are the checkpointer's pool, the
Langfuse client (named by the lifespan that made it) and the cached project id;
`task` says of each background task whether it is ready, waiting for something,
cancelled or over. `found` and `resolved` are the lookups of the refresh under
way and the registry's snapshot, `turn` the bundle each turn took and, as
history, what it has read of it.

| Action | In the code |
| --- | --- |
| `Boots`, `GuardPasses`, `GuardRefuses`, `OpensPool`, `InitLangfuse`, `BuildsCheckpointer`, `PreparesPrompts`, `StartsServing` | `lifespan` down to its `yield` |
| `FailsToStart` | the checkpointer, a lookup of the boot's refresh or the discovery of the tools raises |
| `Stops`, `TasksAwaited`, `ShutsLangfuseDown`, `ClosesPool` | its `finally` blocks: cancel the tasks, await them all, forget the project, drain the client, close the pool |
| `DiagnoseAsks`, `DiagnoseAnswers` | `diagnose_langfuse_startup` around the request it makes in a thread |
| `SweepStarts`, `SweepEnds` | the sweep loop, as a user of the pool (what it deletes is `Memory`) |
| `RefreshStarts`, `LookupEnds`, `RefreshEnds`, `RefreshFails` | `refresh_prompt_links_forever` and `refresh_async`: all lookups at once, then one swap, or an exception that is logged and changes nothing |
| `Unwinds` | a cancelled task ends |
| `TurnStarts`, `TurnReads`, `TurnEnds` | `prompt_bundle_context`, and every read of the bundle |

The registry is a module global and the client a module-level cache, so both
are carried from one lifespan to the next, and a process that boots twice (as
under a reloader or a test) is part of the model. A managed prompt is a version;
those in `Matching` have the release text.

A lookup raises where the configuration of the prompts is wrong. At boot that ends
the start-up. The loop reads its interval outside its `try`, so without a client,
whose absence lets the boot's lookups return before they read the configuration, the
task of the refresh can end by an exception at its first step (`PreparesPrompts` makes
it `over`). The teardown awaits that task last, and raises its exception only after
the client is drained and the pool closed. The other two tasks catch what they meet.

## 8. Memory

`thread` is the message list of the newest checkpoint. A turn keeps the list it
loaded and works on that: LangGraph checkpoints the turn's own state after each
step of the graph, and the last to do so wins. A message is a question, an
answer with the tool calls it asks for, or the answer to a call, real or
synthetic; text is left out.

| Action | In the code |
| --- | --- |
| `TurnStarts` | the graph loads the thread and appends the question |
| `BeforeModel` | `InterruptedToolCallRepairMiddleware`: `Repair` rewrites the list |
| `Model` | the request is `Trim` of the state (`TrimTurnsMiddleware`), what is kept is the state and the answer |
| `ToolAnswers`, `ToolsEnd` | parallel calls answer one by one; the step ends with all |
| `Cut` | Stop, a disconnect, the deadline or a crash; what was answered of a batch may be kept with the checkpoint or lost |
| `Ages`, `SweepSelects`, `SweepDeletes`, `SweepFails` | the retention passes; `delete_stale_threads` selects, and deletes a thread in a later step |

`RequestsSound` is what a provider requires of a request (it opens with a
question, each call is answered once and right behind the message that made it)
and what the user expects of it (the question, whole turns, no synthetic answer
where a real one came). `HistoryKept` is the trim's promise not to touch what is
stored, for a turn that works on what the thread last was. Of turns that overlap it says nothing: the later checkpoint replaces the
earlier one's, which the code accepts.

## 9. WebClient

The page reads a turn of `TurnContract` in chunks that the network cuts where it
likes: `read` counts half frames, and a chunk completes any number of them, which
`Handle` then takes one after the other in one step. `page` is one record: where
`ask()` is suspended, the composer's state, whether Stop was pressed, whether the
log is muted, how many tokens came, whether a paint is scheduled, and what the
answer node, the cards and the announcements hold.

| Action | In the code |
| --- | --- |
| `Asks`, `Responds`, `Refused` | `ask()` up to the response, and a status that is no success |
| `Reads` | one turn of the read loop: decode, split at blank lines, `handle` each frame |
| `StreamCloses`, `NetworkDrops`, `Aborts` | the three other ways out of the loop: closed, thrown, aborted |
| `Stops`, `TimerPaints` | the reader's click and the paint timer, at any await |
| `ServerSteps` | `TurnContract` moves |

A turn ends through `EndTurn`, `FailTurn` or `StopTurn` and then the `finally`
of `ask()` (`Return`). `ShownIsWhatWasSent` relates the page to the frames that
were sent, not to those it believes it has read.

## 10. AnswerScore and MilestoneRun

`AnswerScore` translates the evaluation's reading of a turn: `CaptureToolResult`
reduces a tool result to the facts that are committed, and one operator per
metric scores an answer from those facts: `ExecutionRow`, `FaithfulnessRow`,
`CommunicatedRow`, `LanguageRow`, `SafetyRow`, and `SqlRow` for the baseline
without an agent. A metric passes, fails or is not scored. What a statement
would return is the set of pairs of a snapshot and a reference whose result on that
snapshot equals its own; links, claims, numbers and phrases are members of small
sets. `SameResult` compares a statement as it ran, with its page and a LIMIT of its
own (`matches`); only one that was truncated and ends in the tool's cap is compared
without it (`uncapped`), as `comparison_sql` does.

| Variable of `MilestoneRun` | In the code |
| --- | --- |
| `tree` | the working tree: the case files and the snapshot its manifest names |
| `dir` | the run directories: `captures.json`, `scores.json`, `manifest.json` |
| `job` | the command that runs: a capture, or the files it has still to write |
| `verdict` | the diff that has just passed, or what a re-score has just reported |
| `touched` | history: runs a hand edited or an interruption left |
| `scoredOn` | history: the snapshot there was when each manifest was written |

| Action | In the code |
| --- | --- |
| `StartsCapture`, `EndsCapture` | `agent_runner.run` and `baseline_sql.generate`: load the cases, ask the model, validate against the cases there are now, refuse a directory that exists |
| `WritesFile`, `Interrupted` | one file reaches the disk; the command dies between two |
| `ScoresAgentRun`, `ScoresSqlRun` | `score` of either runner: verify the digests and the dataset, score on the current dataset and the current snapshot, replace the scores, then re-bind the manifest |
| `Rescores` | `milestone.rescore`: verify, score again and compare; it writes nothing |
| `Diff` | `run_diff` that exits 0: comparable runs, no blocking question left unexplained, floors met |
| `EditsTree`, `EditsEvidence` | the people around it |

A digest is the content it is of. `VerdictsHold` has two parts. `PassedCandidateHolds`
is about a diff that lets a candidate pass, whatever was edited, re-scored or
interrupted before: its scores are those of its own evidence, it lost no check that
nobody explained, and its answers are honest by `Holds`, which says what an honest
answer is from what the tools *returned*, where the metrics only see the facts that
were captured. `RescoreReproduces` is about a re-score that is not refused: the
scores it does not reproduce are those of comparisons that the database failed.
Commands run one at a time, and the tree changes between them or while a capture
talks to its model.

`verify_snapshot` compares the database with the snapshot manifest there is now, never
with the snapshot a run's own manifest names. So the rows a scorer or a re-score
computes (`RowsNow`) are those of the current snapshot, a run may be scored on another
than the one it names, and a re-score after the snapshot was replaced is not refused
and can change any row in which a statement is compared. That is what `VerdictsHold`
allows, and all it allows: a candidate's scores come from one snapshot, and a row that
a re-score does not reproduce is one the database failed or, where the snapshot differs
from the one the run was scored on, an `execution_accuracy` or a `sql_accuracy`. The
other four metrics never depend on it.

A case is one question here, and a run asks it once. In the code a case has up to a few
turns, each captured and scored by itself, in rows of its own, and repeats: no metric
reads two of them. A row's key then holds the turn and the repeat, and the diff looks
at all rows of a case, as `QuestionBlocks` does at all its metrics.

## 11. The runs

| Run | Instance | Question |
| --- | --- | --- |
| `turn_stream` | 2 interchangeable tool calls, 1 token, 1 failure kind | order, pairing, cleanup and the contract |
| `turn_outcome` | 1 call, 2 tokens, all 3 failure kinds | what a turn is recorded, answered and logged as; a client that stays is answered, one that leaves has its turn taken down |
| `turn_leak` | 1 call, 1 token, 2 failure kinds | the producer of such a turn stops: **violated**, section 14 |
| `ingest_tables` | 2 runs, 3 keys, 3 contents of which one is malformed, floor 2, ratio 1/3 | counts, gates, tables, rows and pings |
| `ingest_ends` | 2 runs, 1 key, a sound and a poor content | a run that waits for the lock ends |
| `fetch` | 2 fetches, 2 pages of 2 queries, 2 retries, 1 jobId, pages of up to 2 hits | permission, pacing, accounting, deduplication and time |
| `fetch_documented` | 1 fetch, 1 page of 2 queries | the documented time bound: **violated**, section 14 |
| `query` | 3 interchangeable postings, pages of 2, at most 2 groups, 2 values from a row, four families of statements, requests of up to 4 ids for at most 2 | what is read, the page, the count, the number on the card, the details |
| `serving` | 2 lifespans, 2 refreshes after each boot, 2 surfaces, a version that matches the release and one that drifted, 1 turn | resources, snapshots, and that a lifespan comes up or down |
| `memory` | 3 interchangeable turns of up to 2 calls, 2 turns to a request | what the model is sent, what the thread keeps |
| `web_client` | 2 turns of up to 3 items, 1 call, counts none, 0 and 1 | what the page shows and announces |
| `milestone` | 2 runs, 2 questions, 3 states of the tree, 2 sets of explained questions, 1 run touched | evidence and verdict |

Why these bounds are enough to be interesting. Both queues of a turn hold one
item and four places can hold one more (the producer, a tool call, the consume
task, the service), so two calls, each with two events, and a token overfill the
pipeline: every put can find its queue full, in every order. The second token
lets a turn be cut between two tokens. Three failure kinds give the three
statuses. Every variable is bounded by the calls and tokens a turn can make;
`MaxTokens` is the only bound that the code does not have.

With three keys a batch has any size from empty to three: below the floor, at
it and above it; at the ratio (one of three dropped) and above it (one of two).
Two sound versions of a posting let the table hold an older and a newer one.
Two runs are enough for one to overtake the other between any two of its steps;
symmetry makes runs and keys interchangeable, which no property tells apart. No
bound of `Ingestion` is missing from the code: a run is one attempt.

In `fetch` all times are a few ticks, chosen so that the order they have in
`config/ingestion.yaml` is kept where it matters: the budget (4) is longer than
one try (up to 2) and shorter than a page's worst case, so it can run out
between any two pages and during one; the lifetime of a policy (3) can end
between two fetches and last into the second. Two queries and two pages tell
the two orders of the loops apart; a page of two hits can list a posting twice,
or once as wanted and once not; the same posting can come again on every page
and in the second fetch. `Operations`, `MaxHits`, `MaxFetches` and `MaxGap` are
bounds the code does not have, and the theorems hold for each value of them.

In `query` a page of two over up to three rows can be short, full with nothing
left, full with a row left, empty, and empty past the end. Each family of
`MCQueryTool` varies what one part of the code looks at and keeps the rest fixed:
`OfScope` the names and the order of up to two common table expressions,
`OfMarks` what is refused and where it stands, `OfBounds` the bounds in two
layers and in a common table expression, `OfShapes` the select lists, grouped or not,
over a table, a function in FROM, a derived table and a common table expression. Two
groups are fewer than the postings and two values more than one, so a list of
different rows, of expanded ones and of all rows differ in their number. The
postings are a symmetry: a statement names none of them, and a request is any
list of ids. The theorems do not need the families.

Two lifespans show what a module global carries over, and two refreshes a
snapshot replaced under a turn and replaced again. One turn is enough: turns
share nothing but the registry. `MaxLives` and `MaxRounds` are bounds the code
does not have.

Three turns on a thread give two that overlap over the remains of a third, and a
trim (at two) of a thread that holds one more. Two calls are one batch in
parallel or two one after the other. `MaxCalls` is the only bound that the code
does not have (it has a recursion limit instead).

Two turns of the page suffice for anything left over from the first to be seen
in the second. Three items order a token before, between and after two results
of a call, of which the last count wins. In `milestone` one run is the baseline
and the other the candidate, or the same label is captured twice. The last run has
one sound turn on the listing and leaks on the safety case; the new one refuses
there, and on the listing has three turns (`ListingTurns`): a page that states its
size for the total, a retry of a refused statement whose result was cut at the cap,
and an empty page past the end followed by details and a link nobody returned. The
working tree has three states: the snapshot is replaced and nothing else, or the
cases are, or both. A listing equals its reference on the first snapshot only, a page
on both, so a re-score meets a replaced snapshot that changes a verdict and one that
does not.

`CHECK_DEADLOCK` is on where the model has an explicit last stutter or never
stops. It is off in `serving`, `memory`, `web_client` and `milestone`, whose
bounded instances really stop: the last lifespan is down, every turn is over and
the thread swept, the last question is answered, every label is used. That
nothing is stuck before is `LifespanEnds` for the lifespan; the others have no
step that waits for another.

## 12. Fairness

`ChatTurn!FairSpec` assumes that the event loop runs a task that can run, that
the deadline's timer fires, and that a send to a connected client returns. It
assumes nothing of the agent: `ConnectedTurnEnds` must hold for an agent that
never moves again and ignores its cancellation. `DisconnectTearsDown` is
conditional on `WF_vars(ProducerHonoursCancel)`, that the agent unwinds when it
is cancelled, without which no teardown could end. `AgentFairSpec`, the
specification of `turn_leak`, adds that (through `CancelFairSpec`) and that the
agent also goes on working when it is not cancelled: the violation it shows is
not an agent that stalls.

`Ingestion!FairSpec` assumes that a call a run makes returns, and that a free
lock goes to a waiting run. Failures, interrupts and deaths are never assumed
to happen: a run must not need one to end.

`Serving!FairSpec` assumes that the lifespan goes on when it can, that a lookup
ends (its fetch has a timeout) and that a cancelled task unwinds (each of the
three awaits only what a cancellation interrupts). It assumes nothing of the
tasks while they are not cancelled, nor that anybody stops the process.

The other specifications have no fairness. That a fetch ends is stated with time,
as a safety property: `FetchWithinBudget` bounds the clock of every fetch that has
ended, and its proof the clock at every step before. A query, a page or a command
waits for nothing but its environment.

## 13. The proofs

Everything below is proved by TLAPS for all values of the constants, from the
assumptions named in the modules, which TLC evaluates on every run: `MaxTokens`
is a natural number and the failure kinds are among the three of
`core/errors.py`; `Keys` is finite, the malformed and low-quality payloads are
payloads, the safety bounds are a natural number and a fraction; the times and
counts of the source are natural numbers; `clean_jobs` is a name and none of the
catalog's, the tools' limits are positive, the statements are statements; the
matching versions are versions, and lifespans and refreshes natural numbers; a
working tree has finitely many cases, of the questions there are, and a tool
publishes a result of one of its shapes. One assumption is mathematics that the
provers cannot do: `PowersAssumption` states three facts about powers of two.

`ChatTurnProofs`:

- `TypeCorrect` (`[]TypeOK`). `TypeOK` is not inductive: the item a producer or a
  consumer is about to put is typed by the place it is at. `PutTypes` adds that,
  and `TypeInv` is the conjunction.
- `ContractImplemented` (`ImplementsContract`). `StreamInv` says, for each place
  the service can be suspended at, how its last frame looks and that `saw_token`
  and `fallback_injected` agree with the frames. From it each yield is an action
  of `TurnContract` and every other step a stutter.
- `OutcomeTruthful` (`[]OutcomeMatchesStream`). `OutcomeInv` adds what the two
  flags `outcome` and `done_emitted` are at each yield, that the outcome is still
  open until `finally`, and that a closing reader has lost its client.
- `SourceAlwaysTruthful` (`[]AnswerSourceTruthful`). It is a property of the
  contract: `FramesInv` is preserved by every action of `TurnContract`, and
  `ContractImplemented` has shown that the turn takes no other step.
- `ConsumerAlwaysAwaited` (`[]NoOrphanConsumer`). `ConsumerInv`: the consume task
  is over, or the service that will cancel and await it is not.
- `OutcomeAlwaysInsideSpan` (`OutcomeInsideSpan`). `SpanInv`: while the outcome is
  pending the span is open, was never opened, or was closed by a runtime that
  completed, and only the deadline cancels before that.
- `AlwaysSilentAfterDisconnect` (`SilentAfterDisconnect`). `ReaderInv`: a reader
  has asked for a frame or holds one, never both.
- `ReplyAlwaysMatchesStream` (`[]ReplyMatchesStream`). `RouteInv`: the JSON
  route never loses its client, so its outcome is recorded on a finished stream,
  and it replies once it is closed; the reply is then what `FramesInv` leaves.
- `AnswerAlwaysInOrder` (`[]AnswerInOrder`). `PipelineInv` follows an item
  through the two queues and the three tasks between the agent and the reader.
  While the service forwards (`FlowInv`), what was put is what was yielded, then
  at most one item each in the service's slot, the consume task's hand and the
  runtime's slot. `EndInv` says what can make the service sum the turn up, and that
  the agent then has no more to put; `SummaryInv` keeps it.
- `ToolCardsAlwaysPaired` (`[]ToolCardsPaired`). `CardsInv` says it of what the
  agent put, one observed call at a time; `AnswerAlwaysInOrder` carries it to the
  reader.

`IngestionProofs`:

- `IngestionTypeCorrect` (`[]TypeOK`), for any set of runs and finite set of keys.
- `CountsAlwaysExact` (`[]CountsExact`). The invariant needs two more facts:
  `ReaderHoldsLock`, a run between its read and its commit holds the lock alone
  and what it has read is what the table holds, and `EarlyUnreported`, a run that
  has not committed reports no counts. `Quiet` is a step that leaves `raw_jobs`
  and the reports alone; all but three actions are quiet, and the three of the
  raw upsert are proved one by one.
- `CompletedAlwaysAddsUp`, `CleanOnlyEverFromPassedRuns`,
  `SafetyAbortAlwaysKeepsPayloads` and `PingAlwaysMeansLoaded` follow from
  `GateInv`: `RunSound`, what is true of a single run at each of its places (what
  it has decided about its batch, and what its summary therefore says), and the
  facts that tie the tables to the runs that wrote them (`CleanOfLoaded`,
  `RowsOfEnded`, `PingedReturned`). An action changes one run and at most one
  table, so each lemma is about one of them.
- `CleanOnlyLagsDropped` (`[]CleanLagsOnlyDropped`). `LagInv`: `raw_jobs` holds
  only what landed, and while no two runs have overlapped at most one is active,
  and a clean row older than its raw row was dropped by the run that wrote last.

`SourceFetchProofs`:

- `FetchTypeCorrect` (`[]TypeOK`).
- `FetchAlwaysWithinBudget` (`[]FetchWithinBudget`). `BoundInv` bounds the clock at
  each place: while a page is being asked for, by the budget plus what its tries
  and pauses so far can have cost (`Spent`). A retry adds one request and the next
  doubled pause, and the sum closes to `WorstPage`.
- `RequestsAlwaysPermitted` (`[]RequestsPermitted`). `PermitInv` ties the cache to
  the history: a remembered policy that allows the fetch expires at most `CacheTtl`
  after the site's last permission.
- `SpacingAlwaysPolite` (`[]PoliteSpacing`). `SpacingInv` adds the pause that has
  already been taken when the next page is opened.
- `PagesAlwaysAccounted` (`[]PagesAccounted`) and `TruncatesAlwaysEvenly`
  (`[]TruncatesEvenly`). `PagesInv`: the pages asked for are those before the
  cursor in page-major order (`Upto`), and those that failed are the rest of the
  answered. A cursor's successor adds one page to `Upto`, and between two cursors
  every query has had the same number of pages, or one more.
- `EveryPostingAlwaysOnce` (`[]EveryPostingOnce`). `PostingsInv`: what was
  delivered and wanted is what was yielded, once; the posting a page yields is its
  first mention, which exists because a non-empty set of naturals has a least
  element.

`QueryToolProofs`:

- `OnlyJobsAlwaysRead` (`[]OnlyJobsRead`), for statements with any number of
  common table expressions and subqueries. `AdmittedReadsJobs`: a name that the
  guard takes for a common table expression is one by PostgreSQL's rules too, and
  any other is `clean_jobs`; `CutKeeps`: cutting bounds away changes no table.
- `PageAlwaysExact` (`[]PageExact`), for any layers of bounds, any table and any
  page size. `FoundIsCut`: where the bounds are where the guard looks, what is
  left has none, so `PageInv` can speak of the statement as it was written.
- `CountAlwaysHonest` (`[]CountHonest`), from the same invariant, for any numbers of
  groups and values.
  Both rest on `MatchesNat`: a statement has a number of rows, however its common
  table expressions build on each other. `Sizes` counts them by a recursive
  function, which `SizeTableExists` shows to exist and `SizesInNat` to hold natural
  numbers, both by the least depth at which it would fail.
- `DetailsAlwaysAccounted` (`[]DetailsAccounted`), for requests of any length.
  `DetailsInv` says which list is which selection of the ids asked for; the lemmas
  about `Picked` say that a selection has the selected elements, in order, each as
  often as it was selected. `Kth` numbers the selected positions by how many
  are not above them, an injection into as many numbers as there are positions,
  so every number is taken: no induction over the list is needed.

`ServingProofs`:

- `ServingTypeCorrect` (`[]TypeOK`).
- `LifespanAlwaysOwnsItsResources` (`[]LifespanOwnsItsResources`).
  `ResourceInv`: in which phases the pool is open (`PoolHeld`), which tasks can
  run (`TasksHeld`), whose client the project is (`ClientHeld`), and that turns
  run while serving (`TurnsServed`).
- `TurnAlwaysReadsOneSnapshot` (`[]TurnReadsOneSnapshot`). `RegistryInv`: the
  snapshot in place has one round, and so has every bundle taken from one.

`WebClientProofs`:

- `TurnsAnnouncedOnce` (`[]AnnouncedOnce`) and `ShownAlwaysWhatWasSent`
  (`[]ShownIsWhatWasSent`), for any calls, frames and division of the stream into
  reads. `PageInv`: a page agrees with the frames it has handled (`Agrees`), and is
  either in the middle of a turn (`Open`) or has ended one and shows it (`Closed`).
  A read handles any number of frames; `HandleAllSteps` carries what one frame
  preserves over all of them, by the least frame after which it would fail.

`MilestoneRunProofs`:

- `CommandsAlwaysKeepTheBinding` (`[]CommandsKeepTheBinding`), for any runs, trees
  and number of interruptions. `BindingInv`: what a command has still to write
  completes what it has written to three files that belong together (`Completes`).
- `VerdictsAlwaysHold` (`[]VerdictsHold`), for any questions, turns, answers, case
  files and snapshots. `SoundInv`: whatever hands and interruptions did, a manifest
  that is there, or about to be written, binds a capture and the scores its dataset
  gives that capture on the snapshot of that moment (`ManifestSound`); evidence that verifies is therefore sound, and a
  verdict is about evidence that verifies. The lemmas before it follow a fact from
  a tool result through the capture to each metric: a link or a count that a metric
  accepts was returned (`GroundedReturned`, `SupportedReturned`), what the last
  result needs said was said (`CommunicatedSaid`), a question and a metric have one
  score (`RowsUnique`), which two outages change only to or from "not scored", and
  two snapshots only where a statement is compared (`RowsReproduce`), and a floor of 100% is met by every scored row (`FloorMet`).

`MemoryProofs`, for any turns on a thread, any bound on the turns of a request
and any number of calls:

- `RequestsAlwaysSound` (`[]RequestsSound`). `IInv` says it of the stored lists:
  the thread and every turn's state are `WellFormed` (they open with a question, no
  call is made twice or answered twice, and an answer stands in the block behind
  the calls it is among), hold only calls that were made (`CallsMade`), and while a
  turn is active its question is the last (`AsksFor`). Before the model is asked
  the list is `Complete`: the repair has answered what was open. None of this
  says that an answer is right behind its call; `BlockIs` does, by a count: the
  answers behind a message are its calls' and differ, so they are as many as the
  calls and fill as many places. `RepairIs` gives the place each message has in the repaired list, and
  `TrimIs` the question a trimmed one begins with, which `RetainedExists` shows to
  exist.
- `HistoryAlwaysKept` (`HistoryKept`), from the same invariant: a step appends
  (`GenuineMore`), or inserts what is synthetic (`RepairFine`).

`FlattenSeq` is recursive; `FlattenParts` says what it is without an induction:
each part stands, whole, where the parts before it end.

What only TLC shows, on the instances of section 11: the liveness properties
(`ConnectedTurnEnds`, `DisconnectTearsDown`, `EveryRunEnds`, `LifespanEnds`),
since TLAPS proves none. Every other property of a passing run is a theorem.

## 14. Divergences found

**A disconnect may leave the agent running.** ADR-0049 says that on a disconnect the service's cleanup "propagates
cancellation to the runtime producer", and `docs/modules/runtime.md` that "the
runtime cancels its producer". `turn_leak` shows a turn in which it does not.
The client leaves while the consume task is blocked in its own
`runtime_events.put`. The cancellation is raised there and not in the runtime
generator, which stays suspended at its `yield`. The event loop's hook closes it
later in another context, where the first statement of its `finally` block,
`reset_tool_event_emitter`, raises `ValueError` (its token belongs to the consume
task's context), and the next statements, which cancel the producer, are
skipped. The agent runs on until it blocks on the full queue. The span is closed
nevertheless, and so is everything else (`DisconnectTearsDown`).

**A page can outlast its documented worst case.** `config/ingestion.yaml` sizes
the job's timeout by a worst page of "3 x 30 + 2 + 4 = 96s" and calls the budget
plus one such page "the true bound"; the docstring of `_out_of_budget` and
`docs/modules/ingestion.md` repeat it. `_post` passes `timeout_seconds` to httpx,
which applies it to each socket operation: a try that spends most of it on the
connection, then on the answer's first bytes, and on the next ones, costs a
multiple. `fetch_documented` shows the smallest such page, with two operations
for each request. `FetchWithinBudget` is the bound that holds, and it has the
number of operations, which nothing limits, as a factor. On the failure the
configuration was written for, every request hanging once, both bounds agree.

Three more disagreements are in no run, because the model would restate them and
show nothing new.

- `src/services/query/result_shape.py` says that a shape it misreads "costs a missing
  count on the card, never a wrong one". Of `WITH x AS (SELECT id FROM clean_jobs) SELECT COUNT(*) FROM x` it sees
  the first select list, calls the result "rows", and reports the one row it has
  as the number of matches. Without a common table expression the same happens to an
  aggregate it does not look for (`SELECT string_agg(title, ', ') FROM clean_jobs` is
  "rows", and its card says 1) and to one behind a nested SELECT in the list, whose
  FROM ends the text it looks at. `Shape` models all of these, and they are why
  `CountHonest` is about statements without common table expressions whose list is
  not `aggregated`.
- `docs/how-to/evaluate.md` says of a diff that it "refuses two runs from different
  runners, or two runs scored against different snapshot manifests". `regression.verify_comparable` compares the snapshot recorded when
  each run was generated; `score` and `rescore` use the one there is now and leave the
  manifest's (section 10), so two runs that a diff accepts may have been scored
  against different ones, and a re-score after the snapshot was replaced is not
  refused. A run of the SQL baseline likewise records the dataset at the time
  it is written, which may not be the one whose questions it asked.
- `docs/reference/agent-behavior.md` says that a "question that was not scored
  before and is scored now is a new measurement, not a regression".
  `regression._blocks` blocks one that is scored now and fails (`Blocks`).

An interruption between the two files of `write_scores` leaves scores that the
manifest does not name. Scoring again, rescoring and the diff all refuse such a
run, and no command repairs it: the directory has to be restored by hand. That
is why `CommandsKeepTheBinding` excludes runs an interruption left.

## 15. What is not modelled

**Recovery script.** Three requests in a straight line against GitHub: read the
workflow's state, enable it if it is not active, dispatch it. A dispatch that
fails leaves the workflow enabled, the script exits non-zero and is reported, and
the next recovery finds the workflow active and takes no action; the schedule it
has enabled starts the next run. Alone it has a handful of states. Composed with
`Ingestion`, whose scheduled runs it restarts, the instance is beyond TLC's
reach, and the composition would only repeat what runs that start at any time
already show. The state it reads and enables later can change in between, which
makes the unconditional enable redundant and nothing else.

**API application, text normalisation, dataset checks, migrations, other
scripts.** Wiring and a stateless probe; pure functions over text, whose content
is regular expressions; validation of case files; one-way schema changes; one-shot
operator programs. None keeps a state that a second step reads.

**Left out of `ChatTurn`:** request validation and rate limiting (stateless for a
turn), the payload of frames, and the cache of compiled agents. Two cases at its
edge are known and left out: a reader that closes the stream at the session frame
does so before the service's `try`, so that the observation made there is never
completed; and an agent that raises a new exception while it unwinds from its
cancellation makes the producer put a failure on a queue that nobody reads. A put of
the producer or of a tool whose slot was freed just before its task is cancelled
completes in the model and raises in the code; nothing takes from the runtime's queue
after that, so nobody can tell.

**Left out of `Ingestion`:** what the source does inside `fetch` (section 5), the
`pages_failed` counter that comes from it, timestamps, and a source that would
yield the same key twice, which `EveryPostingOnce` excludes.

**Left out of `SourceFetch`:** the text of `robots.txt` and its rules, of which
only the verdict counts, and what a posting carries beyond its `jobId`.

**Left out of `SqlStatement` and `QueryTool`:** the lexer (a statement is a tree,
so that comments, quoting and dollar strings are not told apart), queries nested
more than two levels (a derived table of a derived table, or one inside a common
table expression), a query that names a derived table next to another relation, the
rows of a join beyond those of the first relation it names, a statement without FROM
(the classifier calls it a summary) and one whose only grouping is HAVING (likewise),
UNION, recursive common table expressions that use themselves, and the list of allowed functions, of which the class of a function
stands for it. In the executor, the flag by which a caller that has given up
keeps a late thread from logging; the JSON form of a cell; the MCP transport.

**Left out of `Serving`:** what the guards query, how the model client is built,
and the cache of prompt texts, reduced to whether a text is the release text.

**Left out of `Memory`:** the text of messages and LangGraph's own bookkeeping
(versions, namespaces, blobs): a checkpoint is a list.

**Left out of `WebClient`:** layout, the elapsed-time counter, the toast, the date
line and the wording of cards.

**Left out of `MilestoneRun`:** `review` and the printed reports, which change no
evidence; token usage; the turns of a case after its first and the repeats of a
question (section 10); the reason and the details a score row carries beside its
score, which a re-score compares too; and the wording rules that decide whether an answer says a
thing.
