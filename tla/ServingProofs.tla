---------------------------- MODULE ServingProofs ---------------------------
(***************************************************************************)
(* Proofs about Serving, for any surfaces, versions, turns, lifespans and  *)
(* refreshes: the type invariant, what a lifespan owns, and that a turn    *)
(* reads one snapshot of the prompts.                                      *)
(***************************************************************************)
EXTENDS Serving, TLAPS

States == {"none", "ready", "busy", "cancelled", "over"}
Links == Matching \cup {Release}
ReadTurns == [bundle : [Surfaces -> Resolutions], seen : SUBSET Resolutions]

-----------------------------------------------------------------------------
(* The type invariant.                                                     *)

\* A lookup brings the release text or a version that equals it.
LEMMA LookupType ==
    ASSUME TypeOK, NEW s \in Surfaces
    PROVE  Lookup(s) \subseteq Links
<1>1. resolved[s].link \in Links
  BY DEF TypeOK, Resolutions, Links
<1>2. \A v \in Versions : (IF v \in Matching THEN v ELSE Release) \in Links
  BY DEF Links
<1> QED  BY <1>1, <1>2, VersionsAssumption DEF Lookup, Links, Release

\* What is published is a snapshot, and its lookups are all used up.
LEMMA PublishType ==
    ASSUME TypeOK, Publish
    PROVE  /\ resolved' \in [Surfaces -> Resolutions]
           /\ round' \in Nat
           /\ found' \in [Surfaces -> Links \cup {Awaited, NotAsked}]
<1>1. \A s \in Surfaces : found[s] \in Links
  BY DEF TypeOK, Publish, Links
<1>2. round + 1 \in Nat
  BY DEF TypeOK
<1>3. \A s \in Surfaces : [link |-> found[s], round |-> round + 1] \in Resolutions
  BY <1>1, <1>2 DEF Resolutions, Links
<1> QED  BY <1>2, <1>3 DEF Publish, NoLookups, Links

LEMMA TypeInit == Init => TypeOK
<1> SUFFICES ASSUME Init PROVE TypeOK
  OBVIOUS
<1>1. resolved \in [Surfaces -> Resolutions]
  BY DEF Init, Resolutions, Release
<1>2. 0 \in 0..MaxLives
  BY BoundsAssumption
<1> QED  BY <1>1, <1>2 DEF Init, TypeOK, Phases, NoLookups

LEMMA TypeStart ==
    ASSUME TypeOK,
           Boots \/ GuardPasses \/ GuardRefuses \/ OpensPool \/ InitLangfuse
             \/ BuildsCheckpointer \/ PreparesPrompts \/ StartsServing
    PROVE  TypeOK'
<1>1. CASE Boots
  BY <1>1, BoundsAssumption DEF Boots, TypeOK, Phases, Guards, tracing, registry
<1>2. CASE GuardPasses
  <2>1. AfterGuard[phase] \in Phases
    BY <1>2 DEF GuardPasses, AfterGuard, Guards, Phases
  <2> QED  BY <1>2, <2>1 DEF GuardPasses, TypeOK, tracing, registry
<1>3. CASE GuardRefuses
  BY <1>3 DEF GuardRefuses, TypeOK, Phases, tracing, registry
<1>4. CASE OpensPool
  BY <1>4 DEF OpensPool, TypeOK, Phases, tracing, registry
<1>5. CASE InitLangfuse
  <2>1. client' \in 0..MaxLives
    BY <1>5, BoundsAssumption DEF InitLangfuse, TypeOK
  <2> QED  BY <1>5, <2>1 DEF InitLangfuse, TypeOK, Phases, registry
<1>6. CASE BuildsCheckpointer
  BY <1>6 DEF BuildsCheckpointer, TypeOK, Phases, AllAwaited, tracing
<1>7. CASE PreparesPrompts
  <2>1. Publish
    BY <1>7 DEF PreparesPrompts
  <2>2. task' \in [Background -> States]
    BY <1>7 DEF PreparesPrompts, TypeOK, States
  <2> QED  BY <1>7, <2>1, <2>2, PublishType
           DEF PreparesPrompts, TypeOK, Phases, Links, States, tracing
<1>8. CASE StartsServing
  <2>1. task' \in [Background -> States]
    BY <1>8 DEF StartsServing, TypeOK, States
  <2> QED  BY <1>8, <2>1 DEF StartsServing, TypeOK, Phases, States, tracing, registry
<1> QED  BY <1>1, <1>2, <1>3, <1>4, <1>5, <1>6, <1>7, <1>8

LEMMA TypeTeardown ==
    ASSUME TypeOK,
           FailsToStart \/ Stops \/ TasksAwaited \/ ShutsLangfuseDown \/ ClosesPool
    PROVE  TypeOK'
<1>1. CASE FailsToStart \/ Stops
  <2>1. CancelsTasks
    BY <1>1 DEF FailsToStart, Stops
  <2>2. task' \in [Background -> States]
    BY <2>1 DEF CancelsTasks, TypeOK, States
  <2>3. found' \in [Surfaces -> Links \cup {Awaited, NotAsked}]
    BY <1>1 DEF FailsToStart, Stops, NoLookups, TypeOK, Links
  <2> QED  BY <2>1, <2>2, <2>3 DEF CancelsTasks, TypeOK, Phases, States, Links, tracing
<1>2. CASE TasksAwaited
  BY <1>2, BoundsAssumption DEF TasksAwaited, TypeOK, Phases, registry
<1>3. CASE ShutsLangfuseDown
  BY <1>3, BoundsAssumption DEF ShutsLangfuseDown, TypeOK, Phases, registry
<1>4. CASE ClosesPool
  BY <1>4 DEF ClosesPool, TypeOK, Phases, tracing, registry
<1> QED  BY <1>1, <1>2, <1>3, <1>4

LEMMA TypeTasks ==
    ASSUME TypeOK, Tasks
    PROVE  TypeOK'
<1>1. CASE DiagnoseAsks
  BY <1>1 DEF DiagnoseAsks, TypeOK, Background, registry
<1>2. CASE DiagnoseAnswers
  BY <1>2, BoundsAssumption DEF DiagnoseAnswers, TypeOK, Background, registry
<1>3. CASE SweepStarts
  BY <1>3 DEF SweepStarts, TypeOK, Background, tracing, registry
<1>4. CASE SweepEnds
  BY <1>4 DEF SweepEnds, TypeOK, Background, tracing, registry
<1>5. CASE RefreshStarts
  BY <1>5 DEF RefreshStarts, TypeOK, Background, AllAwaited, tracing
<1>6. CASE RefreshEnds
  <2>1. Publish
    BY <1>6 DEF RefreshEnds
  <2>2. task' \in [Background -> States]
    BY <1>6 DEF RefreshEnds, TypeOK, Background, States
  <2> QED  BY <1>6, <2>1, <2>2, PublishType
           DEF RefreshEnds, TypeOK, Links, States, tracing
<1>7. ASSUME NEW k \in Background, Unwinds(k) PROVE TypeOK'
  BY <1>7 DEF Unwinds, TypeOK, NoLookups, tracing
<1>8. ASSUME NEW s \in Surfaces, LookupEnds(s) PROVE TypeOK'
  <2>1. found' \in [Surfaces -> Links \cup {Awaited, NotAsked}]
    BY <1>8, LookupType DEF LookupEnds, TypeOK, Links
  <2> QED  BY <1>8, <2>1 DEF LookupEnds, TypeOK, Links, tracing
<1>9. CASE RefreshFails
  BY <1>9 DEF RefreshFails, TypeOK, Background, NoLookups, tracing
<1> QED  BY <1>1, <1>2, <1>3, <1>4, <1>5, <1>6, <1>7, <1>8, <1>9 DEF Tasks

LEMMA TypeServes ==
    ASSUME TypeOK, Serves
    PROVE  TypeOK'
<1>1. turn' \in [Turns -> {NoTurn} \cup ReadTurns]
  <2>1. ASSUME NEW t \in Turns, TurnStarts(t) PROVE turn' \in [Turns -> {NoTurn} \cup ReadTurns]
    <3>1. [bundle |-> resolved, seen |-> {}] \in ReadTurns
      BY DEF TypeOK, ReadTurns
    <3> QED  BY <2>1, <3>1 DEF TurnStarts, TypeOK, ReadTurns
  <2>2. ASSUME NEW t \in Turns, TurnEnds(t) PROVE turn' \in [Turns -> {NoTurn} \cup ReadTurns]
    BY <2>2 DEF TurnEnds, TypeOK, ReadTurns
  <2>3. ASSUME NEW t \in Turns, NEW s \in Surfaces, TurnReads(t, s)
        PROVE  turn' \in [Turns -> {NoTurn} \cup ReadTurns]
    <3>1. turn[t] \in ReadTurns
      BY <2>3 DEF TurnReads, TypeOK, ReadTurns
    <3>2. turn[t].bundle[s] \in Resolutions
      BY <3>1 DEF ReadTurns
    <3>3. [turn[t] EXCEPT !.seen = @ \cup {turn[t].bundle[s]}] \in ReadTurns
      BY <3>1, <3>2 DEF ReadTurns
    <3> QED  BY <2>3, <3>3 DEF TurnReads, TypeOK, ReadTurns
  <2> QED  BY <2>1, <2>2, <2>3 DEF Serves
<1>2. UNCHANGED <<phase, life, pool, client, project, asked, task, found, resolved, round>>
  BY DEF Serves, TurnStarts, TurnEnds, TurnReads, tracing, registry
<1> QED  BY <1>1, <1>2 DEF TypeOK, ReadTurns

LEMMA TypeStep == TypeOK /\ [Next]_vars => TypeOK'
<1> SUFFICES ASSUME TypeOK, [Next]_vars PROVE TypeOK'
  OBVIOUS
<1>1. CASE Boots \/ Stops
  BY <1>1, TypeStart, TypeTeardown
<1>2. CASE Lifespan
  BY <1>2, TypeStart, TypeTeardown DEF Lifespan
<1>3. CASE Tasks
  BY <1>3, TypeTasks
<1>4. CASE Serves
  BY <1>4, TypeServes
<1>5. CASE UNCHANGED vars
  BY <1>5 DEF TypeOK, vars, tracing, registry
<1> QED  BY <1>1, <1>2, <1>3, <1>4, <1>5 DEF Next

\* Every variable of the serving process keeps its type; above all, no link to a
\* managed prompt names a text other than the release text
\* (prompt_registry.py, ResolvedPrompt).
THEOREM ServingTypeCorrect == Spec => []TypeOK
<1>1. Init => TypeOK
  BY TypeInit
<1>2. TypeOK /\ [Next]_vars => TypeOK'
  BY TypeStep
<1> QED  BY <1>1, <1>2, PTL DEF Spec

-----------------------------------------------------------------------------
(* What a lifespan owns.  LifespanOwnsItsResources says little of the      *)
(* phases in between; the invariant says what is held at each of them.     *)

Held == Phases \ (Guards \cup {"down", "opening"})
WithoutClient == Guards \cup {"down", "opening", "tracing", "closing"}

\* The pool is open from its opening to its closing.
PoolHeld == pool = "open" <=> phase \in Held

\* The refresh runs from the boot's on, the other tasks once it serves; a teardown
\* cancels all of them at once.
TasksHeld ==
    \A k \in Background :
        /\ ~Settled(k) => \/ phase \in {"serving", "cancelling"}
                          \/ phase = "tools" /\ k = "refresh"
        /\ phase = "cancelling" => task[k] \notin {"ready", "busy"}

\* A client is there from the tracing step to its shutdown, and the diagnosis under
\* way has asked the one there is.
ClientHeld ==
    /\ phase \in WithoutClient => client = 0
    /\ project # 0 => project = client /\ phase \in {"serving", "cancelling"}
    /\ task["diagnose"] = "busy" => asked = client

TurnsServed == \A t \in Turns : turn[t] # NoTurn => phase = "serving"

ResourceInv == TypeOK /\ PoolHeld /\ TasksHeld /\ ClientHeld /\ TurnsServed

LEMMA ResourceImplies == ResourceInv => LifespanOwnsItsResources
<1> SUFFICES ASSUME ResourceInv PROVE LifespanOwnsItsResources
  OBVIOUS
<1>1. PoolOutlivesItsUsers
  <2>1. phase \in {"checkpointer", "serving", "cancelling", "tools"} => pool = "open"
    BY DEF ResourceInv, PoolHeld, Held, Phases, Guards
  <2>2. ~Settled("sweep") => phase \in {"serving", "cancelling"}
    BY DEF ResourceInv, TasksHeld, Background
  <2> QED  BY <2>1, <2>2 DEF ResourceInv, TurnsServed, PoolOutlivesItsUsers
<1>2. ProjectOfTheClient
  BY DEF ResourceInv, ClientHeld, ProjectOfTheClient
<1>3. NothingLeftBehind
  BY DEF ResourceInv, PoolHeld, TasksHeld, ClientHeld, NothingLeftBehind,
         Held, WithoutClient, Background
<1> QED  BY <1>1, <1>2, <1>3 DEF LifespanOwnsItsResources

LEMMA ResourceInit == Init => ResourceInv
<1> SUFFICES ASSUME Init PROVE ResourceInv
  OBVIOUS
<1>1. PoolHeld
  BY DEF Init, PoolHeld, Held
<1>2. TasksHeld
  BY DEF Init, TasksHeld, Settled
<1>3. ClientHeld
  BY DEF Init, ClientHeld, Background
<1>4. TurnsServed
  BY DEF Init, TurnsServed
<1> QED  BY <1>1, <1>2, <1>3, <1>4, TypeInit DEF ResourceInv

\* A step that only moves from one phase to the next of the start-up, or back, keeps
\* what is held at both.
LEMMA ResourceStart ==
    ASSUME ResourceInv,
           Boots \/ GuardPasses \/ GuardRefuses \/ OpensPool \/ InitLangfuse
             \/ BuildsCheckpointer \/ PreparesPrompts \/ StartsServing
    PROVE  PoolHeld' /\ TasksHeld' /\ ClientHeld' /\ TurnsServed'
<1> USE DEF ResourceInv, PoolHeld, TasksHeld, ClientHeld, TurnsServed, Settled, Background,
            Held, WithoutClient, Phases, Guards
<1>1. CASE Boots
  BY <1>1 DEF Boots, tracing, registry
<1>2. CASE GuardPasses
  <2>1. phase' \in {"privileges", "credentials", "opening"}
    BY <1>2 DEF GuardPasses, AfterGuard
  <2> QED  BY <1>2, <2>1 DEF GuardPasses, tracing, registry
<1>3. CASE GuardRefuses
  BY <1>3 DEF GuardRefuses, tracing, registry
<1>4. CASE OpensPool
  BY <1>4 DEF OpensPool, tracing, registry
<1>5. CASE InitLangfuse
  BY <1>5 DEF InitLangfuse, registry
<1>6. CASE BuildsCheckpointer
  BY <1>6 DEF BuildsCheckpointer, tracing
<1>7. CASE PreparesPrompts
  <2>1. PICK made \in {"ready", "over"} : task' = [task EXCEPT !["refresh"] = made]
    BY <1>7 DEF PreparesPrompts
  <2>2. \A k \in Background \ {"refresh"} : task'[k] = task[k]
    BY <2>1 DEF TypeOK
  <2> QED  BY <1>7, <2>2 DEF PreparesPrompts, tracing
<1>8. CASE StartsServing
  <2>1. task'["diagnose"] = "ready"
    BY <1>8 DEF StartsServing, TypeOK
  <2> QED  BY <1>8, <2>1 DEF StartsServing, tracing, registry
<1> QED  BY <1>1, <1>2, <1>3, <1>4, <1>5, <1>6, <1>7, <1>8

LEMMA ResourceTeardown ==
    ASSUME ResourceInv,
           FailsToStart \/ Stops \/ TasksAwaited \/ ShutsLangfuseDown \/ ClosesPool
    PROVE  PoolHeld' /\ TasksHeld' /\ ClientHeld' /\ TurnsServed'
<1> USE DEF ResourceInv, PoolHeld, TasksHeld, ClientHeld, TurnsServed, Settled, Background,
            Held, WithoutClient, Phases, Guards
<1>1. CASE FailsToStart \/ Stops
  <2>1. CancelsTasks
    BY <1>1 DEF FailsToStart, Stops
  <2>2. \A t \in Turns : turn[t] = NoTurn
    BY <1>1 DEF FailsToStart, Stops
  <2>3. \A k \in Background : task'[k] \notin {"ready", "busy"}
    BY <2>1 DEF CancelsTasks
  <2>4. phase \in {"checkpointer", "prompts", "tools", "serving"}
    BY <1>1 DEF FailsToStart, Stops
  <2> QED  BY <2>1, <2>2, <2>3, <2>4 DEF CancelsTasks, tracing
<1>2. CASE TasksAwaited
  BY <1>2 DEF TasksAwaited, registry
<1>3. CASE ShutsLangfuseDown
  BY <1>3 DEF ShutsLangfuseDown, registry
<1>4. CASE ClosesPool
  BY <1>4 DEF ClosesPool, tracing, registry
<1> QED  BY <1>1, <1>2, <1>3, <1>4

\* A background task moves only while it is held, and never starts another.
LEMMA ResourceTasks ==
    ASSUME ResourceInv, Tasks
    PROVE  PoolHeld' /\ TasksHeld' /\ ClientHeld' /\ TurnsServed'
<1> USE DEF ResourceInv, PoolHeld, TasksHeld, ClientHeld, TurnsServed, Settled, Background
<1>1. CASE DiagnoseAsks
  <2>1. \A k \in Background \ {"diagnose"} : task'[k] = task[k]
    BY <1>1 DEF DiagnoseAsks, TypeOK
  <2>2. phase = "serving"
    BY <1>1 DEF DiagnoseAsks
  <2> QED  BY <1>1, <2>1, <2>2 DEF DiagnoseAsks, registry
<1>2. CASE DiagnoseAnswers
  <2>1. \A k \in Background : task'[k] = IF k = "diagnose" THEN "over" ELSE task[k]
    BY <1>2 DEF DiagnoseAnswers, TypeOK
  <2>2. phase = "serving" /\ asked = client
    BY <1>2 DEF DiagnoseAnswers
  <2> QED  BY <1>2, <2>1, <2>2 DEF DiagnoseAnswers, WithoutClient, Guards, registry
<1>3. CASE SweepStarts
  <2>1. \A k \in Background \ {"sweep"} : task'[k] = task[k]
    BY <1>3 DEF SweepStarts, TypeOK
  <2> QED  BY <1>3, <2>1 DEF SweepStarts, tracing, registry
<1>4. CASE SweepEnds
  <2>1. \A k \in Background \ {"sweep"} : task'[k] = task[k]
    BY <1>4 DEF SweepEnds, TypeOK
  <2> QED  BY <1>4, <2>1 DEF SweepEnds, tracing, registry
<1>5. CASE RefreshStarts
  <2>1. \A k \in Background \ {"refresh"} : task'[k] = task[k]
    BY <1>5 DEF RefreshStarts, TypeOK
  <2> QED  BY <1>5, <2>1 DEF RefreshStarts, tracing
<1>6. CASE RefreshEnds
  <2>1. \A k \in Background \ {"refresh"} : task'[k] = task[k]
    BY <1>6 DEF RefreshEnds, TypeOK
  <2> QED  BY <1>6, <2>1 DEF RefreshEnds, tracing
<1>7. ASSUME NEW k \in Background, Unwinds(k)
      PROVE  PoolHeld' /\ TasksHeld' /\ ClientHeld' /\ TurnsServed'
  <2>1. \A j \in Background : task'[j] = IF j = k THEN "over" ELSE task[j]
    BY <1>7 DEF Unwinds, TypeOK
  <2> QED  BY <1>7, <2>1 DEF Unwinds, tracing
<1>8. ASSUME NEW s \in Surfaces, LookupEnds(s)
      PROVE  PoolHeld' /\ TasksHeld' /\ ClientHeld' /\ TurnsServed'
  BY <1>8 DEF LookupEnds, tracing
<1>9. CASE RefreshFails
  <2>1. \A k \in Background \ {"refresh"} : task'[k] = task[k]
    BY <1>9 DEF RefreshFails, TypeOK
  <2> QED  BY <1>9, <2>1 DEF RefreshFails, tracing
<1> QED  BY <1>1, <1>2, <1>3, <1>4, <1>5, <1>6, <1>7, <1>8, <1>9 DEF Tasks

LEMMA ResourceServes ==
    ASSUME ResourceInv, Serves
    PROVE  PoolHeld' /\ TasksHeld' /\ ClientHeld' /\ TurnsServed'
<1>1. UNCHANGED <<phase, pool, client, project, asked, task>>
  BY DEF Serves, TurnStarts, TurnEnds, TurnReads, tracing
<1>2. phase = "serving"
  BY DEF Serves, TurnStarts, TurnEnds, TurnReads, ResourceInv, TurnsServed
<1> QED  BY <1>1, <1>2 DEF ResourceInv, PoolHeld, TasksHeld, ClientHeld, TurnsServed, Settled

LEMMA ResourceStep == ResourceInv /\ [Next]_vars => ResourceInv'
<1> SUFFICES ASSUME ResourceInv, [Next]_vars PROVE ResourceInv'
  OBVIOUS
<1>1. TypeOK'
  BY TypeStep DEF ResourceInv
<1>2. PoolHeld' /\ TasksHeld' /\ ClientHeld' /\ TurnsServed'
  <2>1. CASE Boots \/ Stops
    BY <2>1, ResourceStart, ResourceTeardown
  <2>2. CASE Lifespan
    BY <2>2, ResourceStart, ResourceTeardown DEF Lifespan
  <2>3. CASE Tasks
    BY <2>3, ResourceTasks
  <2>4. CASE Serves
    BY <2>4, ResourceServes
  <2>5. CASE UNCHANGED vars
    BY <2>5 DEF ResourceInv, PoolHeld, TasksHeld, ClientHeld, TurnsServed, Settled,
                vars, tracing, registry
  <2> QED  BY <2>1, <2>2, <2>3, <2>4, <2>5 DEF Next
<1> QED  BY <1>1, <1>2 DEF ResourceInv

\* Whatever way a lifespan ends, it has closed what it opened; no task and no turn
\* is left with a closed pool, and no project with another client (composition.py,
\* lifespan; langfuse.py).
THEOREM LifespanAlwaysOwnsItsResources == Spec => []LifespanOwnsItsResources
<1>1. Init => ResourceInv
  BY ResourceInit
<1>2. ResourceInv /\ [Next]_vars => ResourceInv'
  BY ResourceStep
<1>3. ResourceInv => LifespanOwnsItsResources
  BY ResourceImplies
<1> QED  BY <1>1, <1>2, <1>3, PTL DEF Spec

-----------------------------------------------------------------------------
(* What a turn reads.                                                      *)

\* The registry holds one snapshot, and so does the bundle of every turn, from which
\* all that the turn has read comes.
SnapshotInv == \A s \in Surfaces : resolved[s].round = round
BundleInv ==
    \A t \in Turns : turn[t] # NoTurn =>
        /\ \A p, q \in Surfaces : turn[t].bundle[p].round = turn[t].bundle[q].round
        /\ \A r \in turn[t].seen : \E s \in Surfaces : r = turn[t].bundle[s]

RegistryInv == TypeOK /\ SnapshotInv /\ BundleInv

LEMMA RegistryImplies == RegistryInv => TurnReadsOneSnapshot
<1> SUFFICES ASSUME RegistryInv, NEW t \in Turns,
                    NEW p \in turn[t].seen, NEW q \in turn[t].seen
             PROVE  p.round = q.round /\ p.link \in Links
  BY DEF TurnReadsOneSnapshot, Links
<1>1. turn[t] # NoTurn
  BY DEF NoTurn
<1>2. PICK a \in Surfaces, b \in Surfaces : p = turn[t].bundle[a] /\ q = turn[t].bundle[b]
  BY <1>1 DEF RegistryInv, BundleInv
<1>3. p.round = q.round
  BY <1>1, <1>2 DEF RegistryInv, BundleInv
<1>4. p \in Resolutions
  BY <1>1 DEF RegistryInv, TypeOK
<1> QED  BY <1>3, <1>4 DEF Resolutions, Links

LEMMA RegistryInit == Init => RegistryInv
<1> SUFFICES ASSUME Init PROVE RegistryInv
  OBVIOUS
<1>1. SnapshotInv
  BY DEF Init, SnapshotInv
<1>2. BundleInv
  BY DEF Init, BundleInv
<1> QED  BY <1>1, <1>2, TypeInit DEF RegistryInv

\* Only a refresh publishes, and it publishes all surfaces at once.
LEMMA SnapshotStep ==
    ASSUME SnapshotInv, Next
    PROVE  SnapshotInv'
<1>1. CASE UNCHANGED <<resolved, round>>
  BY <1>1 DEF SnapshotInv
<1>2. CASE Publish
  BY <1>2 DEF Publish, SnapshotInv
<1>3. Publish \/ UNCHANGED <<resolved, round>>
  BY DEF Next, Lifespan, Tasks, Serves, Boots, GuardPasses, GuardRefuses, OpensPool,
         InitLangfuse, BuildsCheckpointer, PreparesPrompts, StartsServing, FailsToStart,
         Stops, CancelsTasks, TasksAwaited, ShutsLangfuseDown, ClosesPool, DiagnoseAsks,
         DiagnoseAnswers, SweepStarts, SweepEnds, RefreshStarts, RefreshEnds, RefreshFails,
         Unwinds, LookupEnds, TurnStarts, TurnReads, TurnEnds, registry
<1> QED  BY <1>1, <1>2, <1>3

\* A turn takes its bundle from the one snapshot there is and reads nothing else.
LEMMA BundleStep ==
    ASSUME RegistryInv, Next
    PROVE  BundleInv'
<1>1. ASSUME NEW t \in Turns, TurnStarts(t) PROVE BundleInv'
  <2>1. turn' = [turn EXCEPT ![t] = [bundle |-> resolved, seen |-> {}]]
    BY <1>1 DEF TurnStarts
  <2>2. \A p, q \in Surfaces : resolved[p].round = resolved[q].round
    BY DEF RegistryInv, SnapshotInv
  <2> QED  BY <2>1, <2>2 DEF RegistryInv, BundleInv, TypeOK
<1>2. ASSUME NEW t \in Turns, NEW s \in Surfaces, TurnReads(t, s) PROVE BundleInv'
  <2>1. turn[t] \in ReadTurns
    BY <1>2 DEF TurnReads, RegistryInv, TypeOK, ReadTurns
  <2>2. /\ turn'[t].bundle = turn[t].bundle
        /\ turn'[t].seen = turn[t].seen \cup {turn[t].bundle[s]}
    BY <1>2, <2>1 DEF TurnReads, RegistryInv, TypeOK, ReadTurns
  <2>3. \A u \in Turns \ {t} : turn'[u] = turn[u]
    BY <1>2 DEF TurnReads, RegistryInv, TypeOK
  <2>4. turn[t] # NoTurn
    BY <1>2 DEF TurnReads
  <2> QED  BY <2>2, <2>3, <2>4 DEF RegistryInv, BundleInv
<1>3. ASSUME NEW t \in Turns, TurnEnds(t) PROVE BundleInv'
  BY <1>3 DEF TurnEnds, RegistryInv, BundleInv, TypeOK
<1>4. CASE UNCHANGED turn
  BY <1>4 DEF RegistryInv, BundleInv
<1>5. CASE Lifespan \/ Tasks \/ Boots \/ Stops
  <2>1. UNCHANGED turn
    BY <1>5 DEF Lifespan, Tasks, Boots, GuardPasses, GuardRefuses, OpensPool,
         InitLangfuse, BuildsCheckpointer, PreparesPrompts, StartsServing, FailsToStart,
         Stops, CancelsTasks, TasksAwaited, ShutsLangfuseDown, ClosesPool, DiagnoseAsks,
         DiagnoseAnswers, SweepStarts, SweepEnds, RefreshStarts, RefreshEnds, RefreshFails,
         Unwinds, LookupEnds
  <2> QED  BY <2>1, <1>4
<1> QED  BY <1>1, <1>2, <1>3, <1>5 DEF Next, Serves

\* All that a turn reads of the prompts comes from one published snapshot and links
\* only texts that are the release text, however many refreshes and lifespans there
\* are (prompts.py, prompt_bundle_context; prompt_registry.py, refresh_async).
THEOREM TurnAlwaysReadsOneSnapshot == Spec => []TurnReadsOneSnapshot
<1>1. Init => RegistryInv
  BY RegistryInit
<1>2. RegistryInv /\ [Next]_vars => RegistryInv'
  <2> SUFFICES ASSUME RegistryInv, [Next]_vars PROVE RegistryInv'
    OBVIOUS
  <2>1. TypeOK'
    BY TypeStep DEF RegistryInv
  <2>2. CASE Next
    BY <2>1, <2>2, SnapshotStep, BundleStep DEF RegistryInv
  <2>3. CASE UNCHANGED vars
    BY <2>1, <2>3 DEF RegistryInv, SnapshotInv, BundleInv, vars, registry
  <2> QED  BY <2>2, <2>3
<1>3. RegistryInv => TurnReadsOneSnapshot
  BY RegistryImplies
<1> QED  BY <1>1, <1>2, <1>3, PTL DEF Spec
=============================================================================
