------------------------------- MODULE Evidence -------------------------------
(***************************************************************************)
(* What an incident rests on: the observations it cites, how long the      *)
(* store keeps them, and what it takes to believe in a recovery.           *)
(*                                                                         *)
(* One host, seen through several streams.  Observations come in late and  *)
(* are replayed; a diagnosis pass reads, verifies and saves under the      *)
(* controller's lock, in separate transactions; the retention loop prunes  *)
(* without that lock, between any two of them.                             *)
(*                                                                         *)
(* Source: src/src/persistence/{observations,retention,incidents}.rs,      *)
(* src/src/controller/diagnose.rs, retention_loop in                       *)
(* src/src/controller/server.rs, merge_diagnosis in src/src/incident/mod.rs*)
(* and reconcile_verified in src/src/incident/engine.rs (their lifecycle   *)
(* is module IncidentLifecycle), ingest, expire and confirms_health in     *)
(* src/src/state/engine.rs (module StateEngine).                           *)
(*                                                                         *)
(* Abstracted: two rules stand for all, unreachability, whose recovery is  *)
(* a quorum's, and a failed ssh service; no clock runs during a pass.      *)
(***************************************************************************)
EXTENDS Debouncer, FiniteSets, FiniteSetsExt

CONSTANTS
    Stream,          \* <<probe, observer>>: who measures what of the host
    Horizon,         \* how long an answer is evidence (STALE_AFTER_INTERVALS)
    Window,          \* REOPEN_WINDOW_MINUTES
    ObsPeriod,       \* retention.observations
    DiagnosisPeriod, \* retention.diagnoses
    ClosedPeriod,    \* retention.resolved_incidents
    KeepPerEntity,   \* retention.keep_per_entity
    MinKeep,         \* MIN_KEEP_PER_ENTITY
    MaxEvidence,     \* Incident::MAX_EVIDENCE
    MaxObs, MaxTime, MaxId

\* Retention is long against the horizon and the reopening window; the code
\* does not insist on it, its defaults are weeks against minutes.
ASSUME RetentionAssumption ==
    /\ {Horizon, Window, MinKeep, KeepPerEntity, MaxEvidence} \subseteq Nat
    /\ {MaxObs, MaxTime, MaxId, DiagnosisPeriod} \subseteq Nat
    /\ ObsPeriod \in Nat /\ ObsPeriod >= Horizon
    /\ ClosedPeriod \in Nat /\ ClosedPeriod >= Window
    /\ Probe = {"network.tcp", "ssh.service"}
    /\ \A s \in Stream : s[1] \in Probe

VARIABLES
    now,
    log,         \* every observation an agent ever made
    stored,      \* the observations table
    streams,     \* [Stream -> the state engine's stream]
    counted,     \* [1..MaxObs -> 0..2]: how often a stream counted it
    incidents,   \* [1..MaxId -> row]: incidents, incident_evidence, and diagnoses
    opened,
    held,        \* the incident the engine holds: 0 or an id
    pass         \* the diagnosis pass: how far it is, and what it found

vars == <<now, log, stored, streams, counted, incidents, opened, held, pass>>

Idle == [at |-> "idle", kinds |-> {}, evidence |-> {}, recovered |-> FALSE]

\* A row of the incidents table with what hangs off it.  kinds and cites are the
\* diagnoses and diagnosis_evidence rows, which outlive a pruned incident.
NoRow == [status |-> "none", ended |-> 0, evidence |-> {}, kinds |-> {}, cites |-> {}, made |-> 0]

Active(r) == r.status = "open"

Ids(set) == {o.id : o \in set}

-----------------------------------------------------------------------------
(* What is read.                                                           *)

\* LATEST_OBSERVATIONS_SQL: the newest of each stream; and of those
\* (Controller::diagnose) the ones within the horizon.
Fresh == {o \in stored : /\ now - o.at <= Horizon
                         /\ \A p \in stored : p.stream = o.stream => p.at <= o.at}

Bad(o) == o.status = "Failed"
Remote == {o \in Fresh : o.stream[1] = "network.tcp"}

\* recompute: the worst of a component's streams, an expired one having no say
\* while another observer still measures the same.
ComponentOf(all, probe) ==
    LET mine == {s \in Stream : s[1] = probe /\ all[s].last # 0}
        live == {s \in mine : ~all[s].expired}
        say  == {all[s].health : s \in IF live = {} THEN mine ELSE live}
    IN  IF say = {} THEN "NotApplicable" ELSE CHOOSE h \in say : \A g \in say : Rank[g] <= Rank[h]

\* HostUnreachable and SshServiceFailure.
Diagnosed(all) ==
    {k \in {"HOST_UNREACHABLE", "SSH_SERVICE_FAILURE"} :
        IF k = "HOST_UNREACHABLE"
          THEN Cardinality(Remote) >= 2 /\ \A o \in Remote : Bad(o)
          ELSE /\ ComponentOf(all, "ssh.service") \in {"Degraded", "Unavailable"}
               /\ ComponentOf(all, "network.tcp") = "Healthy"}

\* confirms_health
Confirms(o) == streams[o.stream].health = "Healthy" /\ ~streams[o.stream].expired

\* The proof that an old piece of evidence no longer holds.
RefutedQuorum(old) ==
    /\ Cardinality(Remote) >= 2
    /\ \A o \in Remote : ~Bad(o) /\ o.at > old.at /\ Confirms(o)

RefutedDirectly(old) ==
    \E o \in Fresh : /\ o.stream[1] = old.stream[1]
                     /\ o.stream = old.stream \/ ~Bad(old)
                     /\ Confirms(o) /\ ~Bad(o)
                     /\ o.at > old.at \/ ~Bad(old)

\* Faulty: nothing bad is heard any more.
RefutedBySilence(old, kinds) == \A o \in Fresh : o.stream = old.stream => ~Bad(o)

Refuted(old, kinds) ==
    IF old.stream[1] = "network.tcp" /\ "HOST_UNREACHABLE" \in kinds
      THEN RefutedQuorum(old) ELSE RefutedDirectly(old)

\* verified: with an original gone there is nothing to compare with, and no
\* recovery.  The host is Healthy or, the evidence being about it, Unknown.
Verified(r) ==
    LET originals == {o \in stored : o.id \in r.evidence}
    IN  /\ originals # {} /\ Ids(originals) = r.evidence
        /\ \A old \in originals : Refuted(old, r.kinds)
        /\ \A p \in Probe : ComponentOf(streams, p) \in {"NotApplicable", "Healthy", "Unknown"}

-----------------------------------------------------------------------------
(* What is kept.                                                           *)

\* Every observation that a surviving row cites.
Cited(table) == UNION {table[i].evidence \cup table[i].cites : i \in DOMAIN table}

\* prune_incidents: what has ended before the cutoff, its evidence cascading.
PrunedIncidents ==
    [i \in 1..MaxId |->
        IF incidents[i].status \in {"resolved", "reset"} /\ incidents[i].ended < now - ClosedPeriod
          THEN [incidents[i] EXCEPT !.status = "pruned", !.evidence = {}]
          ELSE incidents[i]]

\* prune_diagnoses: old diagnoses of no surviving incident.
PrunedDiagnoses(table) ==
    [i \in 1..MaxId |->
        IF table[i].status = "pruned" /\ table[i].made < now - DiagnosisPeriod
          THEN [table[i] EXCEPT !.cites = {}, !.kinds = {}]
          ELSE table[i]]

Newer(o, p) == o.at > p.at \/ (o.at = p.at /\ o.id > p.id)

\* The newest of a set of observations.
NewestOf(set, n) == {o \in set : Cardinality({p \in set : Newer(p, o)}) < n}

Keep == Max({KeepPerEntity, MinKeep})

\* Faulty: evidence is not spared.
PrunedObservationsUncited(table) ==
    {o \in stored : \/ o.at >= now - ObsPeriod
                    \/ \E p \in NewestOf(stored, Keep) : o.at >= p.at}

\* Faulty: age does not matter.
PrunedObservationsYoung(table) ==
    {o \in stored : \/ \E p \in NewestOf(stored, Keep) : o.at >= p.at
                    \/ o.id \in Cited(table)}

\* prune_observations: the young ones, the newest ones and the cited ones stay.
PrunedObservations(table) ==
    {o \in stored : \/ o.at >= now - ObsPeriod
                    \/ \E p \in NewestOf(stored, Keep) : o.at >= p.at
                    \/ o.id \in Cited(table)}

-----------------------------------------------------------------------------
Init ==
    /\ now = 0 /\ log = {} /\ stored = {} /\ opened = 0 /\ held = 0 /\ pass = Idle
    /\ streams = [s \in Stream |-> [verdict |-> "NotApplicable", health |-> "NotApplicable",
                                    failures |-> 0, successes |-> 0, last |-> 0, at |-> 0,
                                    expired |-> FALSE]]
    /\ counted = [i \in 1..MaxObs |-> 0]
    /\ incidents = [i \in 1..MaxId |-> NoRow]

Tick ==
    /\ now < MaxTime /\ pass = Idle
    /\ now' = now + 1
    /\ UNCHANGED <<log, stored, streams, counted, incidents, opened, held, pass>>

\* StateEngine::ingest: whether the stream counts it.
Counts(o) == streams[o.stream].last # o.id /\ streams[o.stream].at <= o.at

\* apply_observations, for an observation that is not in the table.
Store(o) ==
    /\ stored' = stored \cup {o}
    /\ streams' = IF Counts(o)
                    THEN [streams EXCEPT ![o.stream] =
                            [Measured(o.stream[1], @, o.status)
                               EXCEPT !.last = o.id, !.at = o.at, !.expired = FALSE]]
                    ELSE streams
    /\ counted' = [counted EXCEPT ![o.id] = IF Counts(o) /\ @ < 2 THEN @ + 1 ELSE @]

\* An agent measures, and the upload arrives, at once or late.
Ingest(s, status, at) ==
    LET o == [id |-> Cardinality(log) + 1, stream |-> s, status |-> status, at |-> at]
    IN  /\ pass = Idle /\ o.id <= MaxObs
        /\ \A p \in log : p.stream = s => p.at # at
        /\ log' = log \cup {o}
        /\ Store(o)
        /\ UNCHANGED <<now, incidents, opened, held, pass>>

\* The agent uploads again: a duplicate, unless the row has been pruned.
Replay(o) ==
    /\ pass = Idle /\ o.id \notin Ids(stored)
    /\ Store(o)
    /\ UNCHANGED <<now, log, incidents, opened, held, pass>>

\* diagnose_and_classify: expire the streams, read, diagnose.
Diagnose ==
    /\ pass = Idle
    /\ streams' = [s \in Stream |->
                      IF streams[s].last # 0 /\ now - streams[s].at > Horizon
                        THEN [Forced(streams[s], "Unknown") EXCEPT !.expired = TRUE]
                        ELSE streams[s]]
    /\ LET kinds == Diagnosed(streams')
       IN  pass' = [Idle EXCEPT !.at = "diagnosed", !.kinds = kinds,
                                !.evidence = IF kinds = {} THEN {} ELSE Ids(Fresh)]
    /\ UNCHANGED <<now, log, stored, counted, incidents, opened, held>>

\* diagnose_and_correlate, up to the reconciliation.
Verify ==
    /\ pass.at = "diagnosed"
    /\ pass' = [pass EXCEPT !.at = "verified",
                            !.recovered = /\ held # 0 /\ pass.kinds = {}
                                          /\ Active(incidents[held]) /\ Verified(incidents[held])]
    /\ UNCHANGED <<now, log, stored, streams, counted, incidents, opened, held>>

\* merge_diagnosis: the earliest evidence stays, up to the limit.
Merged(old, new) ==
    {x \in SUBSET (old \cup new) :
        /\ old \subseteq x
        /\ Cardinality(x) = Min({Max({Cardinality(old), MaxEvidence}), Cardinality(old \cup new)})}

WithinWindow(r) == now - r.ended < Window

\* reconcile_verified and save_incidents.
Commit ==
    /\ pass.at = "verified" /\ pass' = Idle
    /\ LET r == IF held = 0 THEN NoRow ELSE incidents[held]
           new == held = 0 \/ (r.status # "open" /\ ~WithinWindow(r))
       IN  \/ /\ pass.kinds # {} /\ new /\ opened < MaxId
              /\ opened' = opened + 1 /\ held' = opened + 1
              /\ \E e \in Merged({}, pass.evidence) :
                    incidents' = [incidents EXCEPT ![opened + 1] =
                        [NoRow EXCEPT !.status = "open", !.evidence = e, !.kinds = pass.kinds,
                                      !.cites = pass.evidence, !.made = now]]
           \/ /\ pass.kinds # {} /\ ~new
              /\ \E e \in Merged(r.evidence, pass.evidence) :
                    incidents' = [incidents EXCEPT ![held] =
                        [@ EXCEPT !.status = "open", !.ended = 0, !.evidence = e,
                                  !.kinds = pass.kinds, !.cites = pass.evidence, !.made = now]]
              /\ UNCHANGED <<opened, held>>
           \/ /\ pass.kinds = {}
              /\ incidents' = IF pass.recovered
                                THEN [incidents EXCEPT ![held].status = "resolved", ![held].ended = now]
                                ELSE incidents
              /\ UNCHANGED <<opened, held>>
    /\ UNCHANGED <<now, log, stored, streams, counted>>

\* SqliteStore::prune, one transaction, at any moment of a pass.
Prune ==
    LET table == PrunedDiagnoses(PrunedIncidents)
    IN  /\ stored' = PrunedObservations(table)
        /\ incidents' = table
        /\ <<stored', incidents'>> # <<stored, incidents>>
        /\ UNCHANGED <<now, log, streams, counted, opened, held, pass>>

\* A crash, also in the middle of a pass, and Controller::new: the engine holds
\* what load_resumable_incidents finds.
Restart ==
    LET resumable == {i \in 1..MaxId : \/ Active(incidents[i])
                                       \/ /\ incidents[i].status = "resolved"
                                          /\ incidents[i].ended >= now - Window}
    IN  /\ pass # Idle
        /\ pass' = Idle
        /\ held' = IF resumable = {} THEN 0 ELSE Max(resumable)
        /\ UNCHANGED <<now, log, stored, streams, counted, incidents, opened>>

Next ==
    \/ Tick \/ Diagnose \/ Verify \/ Commit \/ Prune \/ Restart
    \/ \E s \in Stream, status \in {"Ok", "Failed"}, at \in {now, now - 1} \cap Nat : Ingest(s, status, at)
    \/ \E o \in log : Replay(o)

Spec == Init /\ [][Next]_vars

-----------------------------------------------------------------------------
(* Properties.                                                             *)

TypeOK ==
    /\ now \in 0..MaxTime /\ opened \in 0..MaxId /\ held \in 0..opened
    /\ Ids(stored) \subseteq Ids(log) /\ Cardinality(stored) = Cardinality(Ids(stored))
    /\ counted \in [1..MaxObs -> 0..2]
    /\ \A i \in 1..MaxId : /\ incidents[i].status \in {"none", "open", "resolved", "pruned"}
                           /\ incidents[i].status = "none" <=> i > opened
                           /\ Cardinality(incidents[i].evidence) <= MaxEvidence

\* "Evidence outlives what cites it": nothing that a stored incident or
\* diagnosis cites has been deleted, although a pass reads its evidence in one
\* transaction, cites it in another, and pruning may come between.
EvidenceKept == Cited(incidents) \subseteq Ids(stored)

\* "Every entity keeps its most recent observations": of all the host ever
\* reported, in whatever order it arrived, the newest are there.
NewestKept == NewestOf(log, Keep) \subseteq stored

\* A pass sees the same current evidence whether or not pruning came first
\* (retention_loop, "outside the controller lock").
PruneUnseen == [][pass' = pass /\ now' = now /\ log' = log /\ stored' \subseteq stored => Fresh' = Fresh]_vars

\* An incident is resolved by good news, never by silence or by the loss of old
\* evidence: whatever bad answer it cites, the same probe has answered well
\* since (diagnose_and_correlate).
ResolvedByGoodNews ==
    \A i \in 1..MaxId : incidents[i].status = "resolved" =>
        \A e \in log : e.id \in incidents[i].evidence /\ Bad(e) =>
            \E o \in log : o.stream[1] = e.stream[1] /\ ~Bad(o) /\ o.at > e.at

\* An observation counts once towards a verdict, also when its row was pruned
\* and the agent uploads it again (StateEngine::ingest, the watermark).
CountedOnce == \A o \in log : counted[o.id] <= 1
=============================================================================
