----------------------------- MODULE StateEngine -----------------------------
(***************************************************************************)
(* The controller's state engine for one managed entity.                   *)
(*                                                                         *)
(* Every (probe, observer) pair that reports on the entity is a STREAM     *)
(* with its own debouncer.  A component's health is a fold over the        *)
(* streams of the probes that feed it, and the entity's overall health is  *)
(* a fold over its components.  The engine lives in memory; each handler   *)
(* works on a copy, commits the copy to SQLite and only then adopts it, so *)
(* a handler is one step here.  The exception is agent registration, which *)
(* commits the inventory and the engine in two transactions and is two     *)
(* steps.                                                                  *)
(*                                                                         *)
(* Source: src/src/state/{mod,engine}.rs, the call sites in                *)
(* src/src/controller/{mod,discovery,diagnose}.rs and the commits in       *)
(* src/src/persistence/observations.rs.                                    *)
(*                                                                         *)
(* Abstracted: an observation is its stream, its finish time and its       *)
(* status (its id is fresh, because apply_observations feeds the engine    *)
(* only rows it has just inserted); `since` and `evidence` are dropped; a  *)
(* batch is a sequence of one-observation batches.  Of the transition      *)
(* history only the newest recorded health of each component is kept.      *)
(***************************************************************************)
EXTENDS Debouncer

CONSTANTS
    Observer,           \* who runs them (the local agent is one of them)
    Component,          \* the state components they feed
    Feeds,              \* [Probe -> Component]: ProbeMapping.component
    Horizon,            \* [Probe \X Observer -> Nat]: how long an answer stays evidence
    Switchable,         \* the probes an agent registration turns on and off
    Cutoff,             \* the time of the last `reset-state`
    Skew,               \* MAX_FUTURE_SKEW_SECONDS
    MaxTime,            \* bound on the clock
    RegistrationFaults  \* may a registration stop between its two commits?

ASSUME FeedsAssumption == Feeds \in [Probe -> Component]
ASSUME HorizonAssumption == Horizon \in [Probe \X Observer -> Nat]
ASSUME NumberAssumption ==
    /\ Cutoff \in Nat /\ Skew \in Nat /\ MaxTime \in Nat
    /\ RegistrationFaults \in BOOLEAN
\* register_builtin_probes: the only switchable probe, gpu.nvidia, is the only
\* probe of the accelerator component.
ASSUME SwitchableAssumption ==
    /\ Switchable \subseteq Probe
    /\ \A p \in Switchable, q \in Probe : Feeds[p] = Feeds[q] => p = q

Time == 0..(MaxTime + Skew)
Key == Probe \X Observer

\* StateStream: `verdict`, `failures` and `successes` are its debouncer,
\* `health` its ComponentState.  A stream that is not in the map has
\* seen = FALSE.
Stream == [seen : BOOLEAN, finished_at : Time, verdict : Health,
           failures : 0..MaxCount, successes : 0..MaxCount,
           health : Health, expired : BOOLEAN]

NoStream == [seen |-> FALSE, finished_at |-> 0, verdict |-> "Unknown",
             failures |-> 0, successes |-> 0, health |-> "Unknown",
             expired |-> FALSE]

\* A component with no row in EntityState.components is "Absent".
Slot == Health \cup {"Absent"}

\* StateEngine, restricted to the entity.
Engine == [stream : [Key -> Stream], comp : [Component -> Slot],
           disabled : SUBSET Switchable]

EmptyEngine == [stream |-> [k \in Key |-> NoStream],
                comp |-> [c \in Component |-> "Absent"],
                disabled |-> {}]

VARIABLES
    now,      \* the controller's clock
    pc,       \* "up", "down", or "registering" (controller lock held)
    engine,   \* the in-memory engine
    db        \* what is committed: streams, components, the inventory's
              \* switched-off probes, the newest recorded transition per component

vars == <<now, pc, engine, db>>

Database == [stream : [Key -> Stream], comp : [Component -> Slot],
             off : SUBSET Switchable, trail : [Component -> Health]]

-----------------------------------------------------------------------------
(* Reading the engine.                                                     *)

\* EntityState::component
ComponentHealth(e, c) == IF e.comp[c] = "Absent" THEN "NotApplicable" ELSE e.comp[c]

HasStream(stream, c) == \E k \in Key : stream[k].seen /\ Feeds[k[1]] = c

Worst(S) == CHOOSE h \in S : \A g \in S : Rank[g] <= Rank[h]

\* EntityState::rollup; `overall` is reassigned by every set_component.
Overall(e) ==
    LET applicable == {ComponentHealth(e, c) : c \in Component} \ {"NotApplicable"}
    IN  IF applicable = {} THEN "Unknown" ELSE Worst(applicable)

\* The streams whose verdict recompute weighs: those of enabled probes, less the
\* expired ones whose probe another observer still measures.
Contributors(e, c) ==
    {k \in Key :
        /\ e.stream[k].seen
        /\ Feeds[k[1]] = c
        /\ k[1] \notin e.disabled
        /\ e.stream[k].expired =>
               \A o \in Observer :
                   e.stream[<<k[1], o>>].seen => e.stream[<<k[1], o>>].expired}

Combined(e, c) ==
    LET votes == {e.stream[k].health : k \in Contributors(e, c)}
    IN  IF votes = {} THEN "NotApplicable" ELSE Worst(votes)

Recomputed(e, C) ==
    [e EXCEPT !.comp = [c \in Component |-> IF c \in C THEN Combined(e, c) ELSE @[c]]]

-----------------------------------------------------------------------------
(* The engine's operations, as functions from engines to engines.          *)

\* The early returns of StateEngine::ingest.
Accepts(e, k, t) ==
    /\ k[1] \notin e.disabled
    /\ t >= Cutoff
    /\ t <= now + Skew
    /\ e.stream[k].seen => e.stream[k].finished_at <= t

\* The stream ingest folds an observation into: the one it has, or one that
\* starts Unknown if the component has streams already and else at the
\* component's health.
Opened(e, k) ==
    IF e.stream[k].seen THEN e.stream[k]
    ELSE LET starting == IF HasStream(e.stream, Feeds[k[1]]) THEN "Unknown"
                         ELSE ComponentHealth(e, Feeds[k[1]])
         IN  [NoStream EXCEPT !.seen = TRUE, !.verdict = starting, !.health = starting]

Answered(p, s, status) ==
    CASE status = "Unsupported"   -> Forced(s, "Unknown")
      [] status = "NotApplicable" -> Forced(s, "NotApplicable")
      [] OTHER                    -> Measured(p, s, status)

\* StateEngine::ingest
Ingested(e, k, t, status) ==
    IF ~Accepts(e, k, t) THEN e
    ELSE LET opened == [Opened(e, k) EXCEPT !.expired = FALSE, !.finished_at = t]
         IN  Recomputed([e EXCEPT !.stream[k] = Answered(k[1], opened, status)],
                        {Feeds[k[1]]})

\* Faulty: the answer is marked and goes on being shown.
SilencedShown(s) == [s EXCEPT !.expired = TRUE]

Silenced(s) == [Forced(s, "Unknown") EXCEPT !.expired = TRUE]

\* Faulty: only bad news grows old.
StaleUnlessHealthy(e, k) ==
    /\ e.stream[k].seen
    /\ k[1] \notin e.disabled
    /\ now - e.stream[k].finished_at > Horizon[k]
    /\ e.stream[k].health \notin {"NotApplicable", "Healthy"}

\* The streams StateEngine::expire retires.
Stale(e, k) ==
    /\ e.stream[k].seen
    /\ k[1] \notin e.disabled
    /\ now - e.stream[k].finished_at > Horizon[k]
    /\ e.stream[k].health # "NotApplicable"

\* Faulty: streams expire and the components are not recomputed.
ExpiredUnfolded(e) ==
    [e EXCEPT !.stream = [k \in Key |-> IF Stale(e, k) THEN Silenced(@[k]) ELSE @[k]]]

\* StateEngine::expire
Expired(e) ==
    LET silent == {k \in Key : Stale(e, k)}
    IN  Recomputed([e EXCEPT !.stream =
                        [k \in Key |-> IF k \in silent THEN Silenced(@[k]) ELSE @[k]]],
                   {Feeds[k[1]] : k \in silent})

\* configure_gpu_monitoring: set_probe_enabled for every switchable probe.
Configured(e, off) ==
    LET changed == (e.disabled \ off) \cup (off \ e.disabled)
    IN  Recomputed(
            [e EXCEPT !.disabled = off,
                      !.stream = [k \in Key |->
                          IF @[k].seen /\ k[1] \in e.disabled \ off
                          THEN Silenced(@[k]) ELSE @[k]]],
            {Feeds[p] : p \in changed} \cap {c \in Component : e.comp[c] # "Absent"})

\* The transitions an operation returns, appended to the recorded history.
Trail(trail, before, after) ==
    [c \in Component |->
        IF ComponentHealth(before, c) # ComponentHealth(after, c)
        THEN ComponentHealth(after, c) ELSE trail[c]]

\* Faulty: the streams are not saved.
SaveWithoutStreams(before, after) ==
    [db EXCEPT !.comp = after.comp, !.trail = Trail(@, before, after)]

\* save_engine_in: every stream, every component, the transitions.
Save(before, after) ==
    [db EXCEPT !.stream = after.stream, !.comp = after.comp,
               !.trail = Trail(@, before, after)]

-----------------------------------------------------------------------------
(* The controller.                                                         *)

Init ==
    /\ now = 0
    /\ pc = "up"
    /\ engine = EmptyEngine
    /\ db = [stream |-> EmptyEngine.stream, comp |-> EmptyEngine.comp, off |-> {},
             trail |-> [c \in Component |-> "NotApplicable"]]

Tick ==
    /\ now < MaxTime
    /\ now' = now + 1
    /\ UNCHANGED <<pc, engine, db>>

\* apply_observations for one new row: an agent batch or a discovery sweep.  A
\* commit that fails leaves memory and store as they were.
Observe(k, t, status) ==
    /\ pc = "up"
    /\ engine' = Ingested(engine, k, t, status)
    /\ db' = Save(engine, engine')
    /\ UNCHANGED <<now, pc>>

\* diagnose_and_classify: expire, then save the engine.
Diagnose ==
    /\ pc = "up"
    /\ engine' = Expired(engine)
    /\ db' = Save(engine, engine')
    /\ UNCHANGED <<now, pc>>

\* ingest_snapshot, first commit: the inventory now says which switchable
\* probes the host's agent runs.
RegisterInventory(off) ==
    /\ pc = "up"
    /\ pc' = "registering"
    /\ db' = [db EXCEPT !.off = off]
    /\ UNCHANGED <<now, engine>>

\* ingest_snapshot, the rest: configure a copy of the engine, save it if that
\* gave a transition, adopt it.
RegisterEngine ==
    /\ pc = "registering"
    /\ pc' = "up"
    /\ engine' = Configured(engine, db.off)
    /\ db' = IF \E c \in Component : ComponentHealth(engine', c) # ComponentHealth(engine, c)
             THEN Save(engine, engine') ELSE db
    /\ UNCHANGED now

\* The second commit fails, or the handler is dropped before it.
RegisterAbort ==
    /\ RegistrationFaults
    /\ pc = "registering"
    /\ pc' = "up"
    /\ UNCHANGED <<now, engine, db>>

Crash ==
    /\ pc = "up" \/ (pc = "registering" /\ RegistrationFaults)
    /\ pc' = "down"
    /\ engine' = EmptyEngine
    /\ UNCHANGED <<now, db>>

\* What Controller::new builds from the store: the saved components, the
\* switchable probes configured while no stream is loaded, then the streams, with
\* the components recomputed (seed_streams drops those transitions).
SeededEngine == [EmptyEngine EXCEPT !.comp = db.comp]

ConfiguredEngine == Configured(SeededEngine, db.off)

LoadedEngine ==
    Recomputed([ConfiguredEngine EXCEPT !.stream = db.stream],
               {Feeds[k[1]] : k \in {j \in Key : db.stream[j].seen}})

\* Controller::new saves only if configuring gave a transition.
Restart ==
    /\ pc = "down"
    /\ pc' = "up"
    /\ engine' = LoadedEngine
    /\ db' = IF \E c \in Component :
                    ComponentHealth(ConfiguredEngine, c) # ComponentHealth(SeededEngine, c)
             THEN [db EXCEPT !.stream = LoadedEngine.stream, !.comp = LoadedEngine.comp,
                             !.trail = Trail(@, SeededEngine, ConfiguredEngine)]
             ELSE db
    /\ UNCHANGED now

Next ==
    \/ Tick
    \/ \E k \in Key, t \in Time, status \in Status : Observe(k, t, status)
    \/ Diagnose
    \/ \E off \in SUBSET Switchable : RegisterInventory(off)
    \/ RegisterEngine
    \/ RegisterAbort
    \/ Crash
    \/ Restart

Spec == Init /\ [][Next]_vars

\* The diagnosis loop and the service manager keep running: a controller that
\* is down is restarted, and one that keeps coming up keeps diagnosing.
FairSpec == Spec /\ WF_vars(Restart) /\ WF_vars(RegisterEngine) /\ SF_vars(Diagnose)

-----------------------------------------------------------------------------
(* Properties.                                                             *)

\* Every variable has its type.
TypeOK ==
    /\ now \in 0..MaxTime
    /\ pc \in {"up", "down", "registering"}
    /\ engine \in Engine
    /\ db \in Database

IsFold(e) ==
    \A c \in Component :
        IF HasStream(e.stream, c) THEN e.comp[c] = Combined(e, c) ELSE e.comp[c] = "Absent"

\* A component's health is always the fold of the streams that may vote on it,
\* whichever of ingest, expire, set_probe_enabled, seed and seed_streams wrote
\* it last, and it has a row exactly when it has a stream.
ComponentIsFold == pc # "down" => IsFold(engine)

\* Silence is never read as health (the promise of `expire`): an entity that
\* rolls up to Healthy has, for every enabled probe that ever reported on it, an
\* observer whose answer has not expired, and no answer that still counts is bad
\* or unknown.
SilenceIsNotHealth ==
    (pc # "down" /\ Overall(engine) = "Healthy") =>
        \A k \in Key :
            (engine.stream[k].seen /\ k[1] \notin engine.disabled) =>
                /\ \E o \in Observer : /\ engine.stream[<<k[1], o>>].seen
                                       /\ ~engine.stream[<<k[1], o>>].expired
                /\ engine.stream[k].expired
                       \/ engine.stream[k].health \in {"Healthy", "NotApplicable"}

\* What a restart would load is what memory holds, so a crash neither consumes
\* evidence without its effect nor keeps an effect without its evidence
\* (apply_observations, ingest_snapshot).
CommittedIsCurrent ==
    pc = "up" => /\ db.stream = engine.stream
                 /\ db.comp = engine.comp
                 /\ db.off = engine.disabled

\* The recorded transitions end at the health shown: no change of a component
\* goes unrecorded and none is recorded that did not happen.
HistoryIsUnbroken ==
    pc = "up" => \A c \in Component : db.trail[c] = ComponentHealth(engine, c)

\* A delayed spool upload never overwrites a newer verdict: the committed finish
\* time of a stream only grows, and a stream is never forgotten.
EvidenceNeverRegresses ==
    [][\A k \in Key : db.stream[k].seen =>
            /\ db'.stream[k].seen
            /\ db'.stream[k].finished_at >= db.stream[k].finished_at]_vars

\* Hysteresis survives the fold: a component whose probes all warn before they
\* declare an outage is only ever committed as Unavailable after it was
\* Degraded, whatever observers join, expire, are switched off or replayed and
\* however often the controller restarts in between.
OutageIsAnnounced ==
    [][\A c \in Component :
           /\ \A p \in Probe : Feeds[p] = c => Policy[p].warning < Policy[p].critical
           /\ db'.comp[c] = "Unavailable"
           => db.comp[c] \in {"Degraded", "Unavailable"}]_vars

\* Old answers stop being health: the entity does not read Healthy forever once
\* every healthy answer it rests on is past its horizon.
HealthDecays ==
    []<>(Overall(engine) = "Healthy" =>
            \E k \in Key : /\ engine.stream[k].seen
                           /\ engine.stream[k].health = "Healthy"
                           /\ now - engine.stream[k].finished_at <= Horizon[k])
=============================================================================
