------------------------------- MODULE Serving ------------------------------
(***************************************************************************)
(* The serving process: the lifespan that assembles the checkpointer pool, *)
(* the Langfuse client, the prompt links and the runtime, and takes them   *)
(* down; the three background tasks it starts; and the prompt registry,    *)
(* which turns read while a background refresh replaces it.  A process may *)
(* go through several lifespans; the registry is a module global and       *)
(* outlives them.  PostgreSQL, Langfuse and the moment uvicorn stops the   *)
(* lifespan are the environment.  A step is the code between two awaits.   *)
(***************************************************************************)
EXTENDS Integers, FiniteSets

CONSTANTS
    Surfaces,       \* the prompt surfaces
    Versions,       \* the versions of a managed prompt that the label can name
    Matching,       \* those whose text is the release text
    Turns,          \* the turns a process serves at once
    MaxLives,       \* bound: lifespans of the process
    MaxRounds       \* bound: refreshes of a lifespan, the one of its boot too

ASSUME VersionsAssumption == Matching \subseteq Versions /\ Versions \subseteq Nat \ {0}
ASSUME BoundsAssumption == MaxLives \in Nat /\ MaxRounds \in Nat \ {0}

VARIABLES
    phase,          \* where the lifespan is
    life,           \* how many lifespans have begun
    pool,           \* the checkpointer pool: "absent", "open" or "closed"
    client,         \* the Langfuse client, as the lifespan that made it; 0 is none
    project,        \* the cached project id, as the client it belongs to
    asked,          \* the client the diagnosis has asked
    task,           \* the state of each background task
    found,          \* the answer of each lookup of the refresh under way
    resolved,       \* the registry's snapshot: surface -> [link, round]
    round,          \* history: how many snapshots have been published
    turn            \* each turn: [bundle, seen], `seen` history

vars == <<phase, life, pool, client, project, asked, task, found, resolved, round, turn>>
tracing == <<client, project, asked>>
registry == <<found, resolved, round>>

-----------------------------------------------------------------------------
Background == {"diagnose", "sweep", "refresh"}
Guards == {"schema", "privileges", "credentials"}
Phases == Guards \cup {"down", "opening", "tracing", "checkpointer", "prompts", "tools",
                       "serving", "cancelling", "draining", "closing"}

NotAsked == -2
Awaited == -1
Release == 0        \* the release text without a link
NoTurn == [bundle |-> <<>>, seen |-> {}]
AllAwaited == [s \in Surfaces |-> Awaited]
NoLookups == [s \in Surfaces |-> NotAsked]

Init ==
    /\ phase = "down" /\ life = 0 /\ pool = "absent"
    /\ client = 0 /\ project = 0 /\ asked = 0
    /\ task = [k \in Background |-> "none"]
    /\ found = NoLookups
    /\ resolved = [s \in Surfaces |-> [link |-> Release, round |-> 0]]
    /\ round = 0
    /\ turn = [t \in Turns |-> NoTurn]

-----------------------------------------------------------------------------
(* The registry.                                                           *)

\* Mutant: a managed text is linked whether or not it drifted.
LookupDrifted(s) == IF client = 0 THEN {Release} ELSE {Release, resolved[s].link} \cup Versions

\* What a lookup can bring: no client or an SDK fallback drops the link, an
\* exception keeps the last one, and a managed text links only when it is the
\* release text.
Lookup(s) ==
    IF client = 0 THEN {Release}
    ELSE {Release, resolved[s].link} \cup {IF v \in Matching THEN v ELSE Release : v \in Versions}

\* Mutant: every lookup changes the snapshot it is made for.
LookupEndsInPlace(s) ==
    /\ found[s] = Awaited
    /\ \E l \in Lookup(s) :
         /\ found' = [found EXCEPT ![s] = l]
         /\ resolved' = [resolved EXCEPT ![s] = [link |-> l, round |-> round + 1]]
    /\ UNCHANGED <<phase, life, pool, tracing, task, round, turn>>

LookupEnds(s) ==
    /\ found[s] = Awaited
    /\ \E l \in Lookup(s) : found' = [found EXCEPT ![s] = l]
    /\ UNCHANGED <<phase, life, pool, tracing, task, resolved, round, turn>>

\* Swaps in the new snapshot, once every lookup has ended.
Publish ==
    /\ \A s \in Surfaces : found[s] \notin {NotAsked, Awaited}
    /\ resolved' = [s \in Surfaces |-> [link |-> found[s], round |-> round + 1]]
    /\ round' = round + 1
    /\ found' = NoLookups

-----------------------------------------------------------------------------
(* Start-up.                                                               *)

Boots ==
    /\ phase = "down" /\ life < MaxLives
    /\ phase' = "schema" /\ life' = life + 1
    /\ task' = [k \in Background |-> "none"]
    /\ UNCHANGED <<pool, tracing, registry, turn>>

AfterGuard == [schema |-> "privileges", privileges |-> "credentials", credentials |-> "opening"]

GuardPasses ==
    /\ phase \in Guards
    /\ phase' = AfterGuard[phase]
    /\ UNCHANGED <<life, pool, tracing, task, registry, turn>>

\* A refusal leaves nothing to tear down.
GuardRefuses ==
    /\ phase \in Guards
    /\ phase' = "down"
    /\ UNCHANGED <<life, pool, tracing, task, registry, turn>>

OpensPool ==
    /\ phase = "opening"
    /\ pool' = "open" /\ phase' = "tracing"
    /\ UNCHANGED <<life, tracing, task, registry, turn>>

\* A client that exists is kept; tracing that is off or fails leaves none.
InitLangfuse ==
    /\ phase = "tracing"
    /\ client' \in IF client = 0 THEN {0, life} ELSE {client}
    /\ phase' = "checkpointer"
    /\ UNCHANGED <<life, pool, project, asked, task, registry, turn>>

BuildsCheckpointer ==
    /\ phase = "checkpointer"
    /\ phase' = "prompts" /\ found' = AllAwaited
    /\ UNCHANGED <<life, pool, tracing, task, resolved, round, turn>>

\* The one refresh boot waits for, and the task that repeats it, which ends at once,
\* by an exception, when its interval is configured wrongly.  With a client, boot has
\* read the configuration before and failed.
PreparesPrompts ==
    /\ phase = "prompts"
    /\ Publish
    /\ phase' = "tools"
    /\ \E made \in {"ready"} \cup {s \in {"over"} : client = 0} :
         task' = [task EXCEPT !["refresh"] = made]
    /\ UNCHANGED <<life, pool, tracing, turn>>

StartsServing ==
    /\ phase = "tools"
    /\ phase' = "serving"
    /\ task' = [task EXCEPT !["diagnose"] = "ready", !["sweep"] = "ready"]
    /\ UNCHANGED <<life, pool, tracing, registry, turn>>

-----------------------------------------------------------------------------
(* Teardown, of a lifespan that is stopped and of one that fails to start. *)

\* Mutant: the task that was added last is awaited, not cancelled.
CancelsFirstTasks ==
    /\ phase' = "cancelling"
    /\ task' = [k \in Background |-> IF task[k] \in {"ready", "busy"} /\ k # "refresh"
                                     THEN "cancelled" ELSE task[k]]
    /\ UNCHANGED <<life, pool, tracing, resolved, round, turn>>

CancelsTasks ==
    /\ phase' = "cancelling"
    /\ task' = [k \in Background |-> IF task[k] \in {"ready", "busy"} THEN "cancelled" ELSE task[k]]
    /\ UNCHANGED <<life, pool, tracing, resolved, round, turn>>

\* The checkpointer, a lookup of a prompt or the discovery of the tools raises.  What
\* the other lookups still answer is dropped.
FailsToStart ==
    /\ \/ phase \in {"checkpointer", "tools"} /\ UNCHANGED found
       \/ /\ phase = "prompts" /\ \E s \in Surfaces : found[s] = Awaited
          /\ found' = NoLookups
    /\ CancelsTasks

\* Uvicorn stops a lifespan when the requests it serves have ended.
Stops ==
    /\ phase = "serving" /\ \A t \in Turns : turn[t] = NoTurn
    /\ CancelsTasks
    /\ UNCHANGED found

\* The task that was cancelled ends; what its threads still answer is dropped.
Unwinds(k) ==
    /\ task[k] = "cancelled"
    /\ task' = [task EXCEPT ![k] = "over"]
    /\ found' = IF k = "refresh" THEN NoLookups ELSE found
    /\ UNCHANGED <<phase, life, pool, tracing, resolved, round, turn>>

\* Mutant: nobody waits for the tasks.
TasksNotAwaited ==
    /\ phase = "cancelling"
    /\ project' = 0
    /\ phase' = IF client = 0 THEN "closing" ELSE "draining"
    /\ UNCHANGED <<life, pool, client, asked, task, registry, turn>>

\* Every task has ended: the project is forgotten and the client, if any, drained.
\* The exception of the refresh, which is awaited last, is raised once all is down.
TasksAwaited ==
    /\ phase = "cancelling"
    /\ \A k \in Background : task[k] \in {"none", "over"}
    /\ project' = 0
    /\ phase' = IF client = 0 THEN "closing" ELSE "draining"
    /\ UNCHANGED <<life, pool, client, asked, task, registry, turn>>

ShutsLangfuseDown ==
    /\ phase = "draining"
    /\ client' = 0 /\ phase' = "closing"
    /\ UNCHANGED <<life, pool, project, asked, task, registry, turn>>

ClosesPool ==
    /\ phase = "closing"
    /\ pool' = "closed" /\ phase' = "down"
    /\ UNCHANGED <<life, tracing, task, registry, turn>>

-----------------------------------------------------------------------------
(* The background tasks.                                                   *)

DiagnoseAsks ==
    /\ task["diagnose"] = "ready"
    /\ asked' = client
    /\ task' = [task EXCEPT !["diagnose"] = IF client = 0 THEN "over" ELSE "busy"]
    /\ UNCHANGED <<phase, life, pool, client, project, registry, turn>>

\* The credentials resolve to a project, to none, or the request fails.
DiagnoseAnswers ==
    /\ task["diagnose"] = "busy"
    /\ project' \in {asked, 0, project}
    /\ task' = [task EXCEPT !["diagnose"] = "over"]
    /\ UNCHANGED <<phase, life, pool, client, asked, registry, turn>>

SweepStarts ==
    /\ task["sweep"] = "ready"
    /\ task' = [task EXCEPT !["sweep"] = "busy"]
    /\ UNCHANGED <<phase, life, pool, tracing, registry, turn>>

\* Swept or failed, it sleeps for a day.
SweepEnds ==
    /\ task["sweep"] = "busy"
    /\ task' = [task EXCEPT !["sweep"] = "ready"]
    /\ UNCHANGED <<phase, life, pool, tracing, registry, turn>>

RefreshStarts ==
    /\ task["refresh"] = "ready" /\ round < life * MaxRounds
    /\ task' = [task EXCEPT !["refresh"] = "busy"]
    /\ found' = AllAwaited
    /\ UNCHANGED <<phase, life, pool, tracing, resolved, round, turn>>

RefreshEnds ==
    /\ task["refresh"] = "busy"
    /\ Publish
    /\ task' = [task EXCEPT !["refresh"] = "ready"]
    /\ UNCHANGED <<phase, life, pool, tracing, turn>>

\* A refresh that raises is logged, and the next interval is the retry.
RefreshFails ==
    /\ task["refresh"] = "busy" /\ \E s \in Surfaces : found[s] = Awaited
    /\ task' = [task EXCEPT !["refresh"] = "ready"]
    /\ found' = NoLookups
    /\ UNCHANGED <<phase, life, pool, tracing, resolved, round, turn>>

-----------------------------------------------------------------------------
(* A turn takes every surface from the registry once, and what it runs     *)
(* later, the SQL generation above all, reads that bundle.                 *)

TurnStarts(t) ==
    /\ phase = "serving" /\ turn[t] = NoTurn
    /\ turn' = [turn EXCEPT ![t] = [bundle |-> resolved, seen |-> {}]]
    /\ UNCHANGED <<phase, life, pool, tracing, task, registry>>

\* Mutant: a nested call reads the registry.
TurnReadsRegistry(t, s) ==
    /\ turn[t] # NoTurn
    /\ turn' = [turn EXCEPT ![t].seen = @ \cup {resolved[s]}]
    /\ UNCHANGED <<phase, life, pool, tracing, task, registry>>

TurnReads(t, s) ==
    /\ turn[t] # NoTurn
    /\ turn' = [turn EXCEPT ![t].seen = @ \cup {turn[t].bundle[s]}]
    /\ UNCHANGED <<phase, life, pool, tracing, task, registry>>

TurnEnds(t) ==
    /\ turn[t] # NoTurn
    /\ turn' = [turn EXCEPT ![t] = NoTurn]
    /\ UNCHANGED <<phase, life, pool, tracing, task, registry>>

-----------------------------------------------------------------------------
Lifespan ==
    \/ GuardPasses \/ GuardRefuses \/ OpensPool \/ InitLangfuse
    \/ BuildsCheckpointer \/ PreparesPrompts \/ StartsServing \/ FailsToStart
    \/ TasksAwaited \/ ShutsLangfuseDown \/ ClosesPool

Tasks ==
    \/ DiagnoseAsks \/ DiagnoseAnswers \/ SweepStarts \/ SweepEnds
    \/ RefreshStarts \/ RefreshEnds \/ RefreshFails
    \/ \E k \in Background : Unwinds(k)
    \/ \E s \in Surfaces : LookupEnds(s)

Serves ==
    \E t \in Turns :
        TurnStarts(t) \/ TurnEnds(t) \/ \E s \in Surfaces : TurnReads(t, s)

Next == Boots \/ Stops \/ Lifespan \/ Tasks \/ Serves

Spec == Init /\ [][Next]_vars

\* The lifespan goes on, a lookup ends (the fetch has a timeout), and a task
\* that was cancelled unwinds.
FairSpec ==
    /\ Spec
    /\ WF_vars(Lifespan)
    /\ \A s \in Surfaces : WF_vars(LookupEnds(s))
    /\ \A k \in Background : WF_vars(Unwinds(k))

-----------------------------------------------------------------------------
(* Properties.                                                             *)

Resolutions == [link : Matching \cup {Release}, round : Nat]

\* Every variable keeps its type; a served link names a text that is the
\* release text (prompt_registry.py, ResolvedPrompt).
TypeOK ==
    /\ phase \in Phases /\ life \in 0..MaxLives
    /\ pool \in {"absent", "open", "closed"}
    /\ client \in 0..MaxLives /\ project \in 0..MaxLives /\ asked \in 0..MaxLives
    /\ task \in [Background -> {"none", "ready", "busy", "cancelled", "over"}]
    /\ found \in [Surfaces -> Matching \cup {Release, Awaited, NotAsked}]
    /\ resolved \in [Surfaces -> Resolutions]
    /\ round \in Nat
    /\ turn \in [Turns -> {NoTurn} \cup [bundle : [Surfaces -> Resolutions],
                                         seen : SUBSET Resolutions]]

Settled(k) == task[k] \in {"none", "over"}

PoolOutlivesItsUsers ==
    (phase = "checkpointer" \/ ~Settled("sweep") \/ \E t \in Turns : turn[t] # NoTurn)
        => pool = "open"

ProjectOfTheClient == project # 0 => project = client

NothingLeftBehind ==
    phase = "down" => /\ pool # "open" /\ client = 0 /\ project = 0
                      /\ \A k \in Background : Settled(k)

\* Whatever way a lifespan ends, it has closed what it opened, in an order
\* that leaves no task and no turn with a closed pool, and a trace URL is never
\* built from the project of another client (composition.py, lifespan;
\* langfuse.py, diagnose_langfuse_startup and shutdown_langfuse).
LifespanOwnsItsResources == PoolOutlivesItsUsers /\ ProjectOfTheClient /\ NothingLeftBehind

\* All that a turn reads of the prompts comes from one published snapshot,
\* however many refreshes happen while it runs, and links only texts that are
\* the release text (prompts.py, prompt_bundle_context; prompt_registry.py,
\* refresh_async).
TurnReadsOneSnapshot ==
    \A t \in Turns :
        \A p, q \in turn[t].seen : p.round = q.round /\ p.link \in Matching \cup {Release}

\* A lifespan that starts comes to serve or has torn everything down, and one
\* that is stopped comes down: no task it awaits keeps it (composition.py,
\* lifespan).
LifespanEnds == phase # "down" ~> phase \in {"serving", "down"}
=============================================================================
