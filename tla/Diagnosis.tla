------------------------------ MODULE Diagnosis ------------------------------
(***************************************************************************)
(* The diagnosis rules: from what was observed to what is wrong.           *)
(*                                                                         *)
(* A rule is an operator on a CONTEXT, a record of                         *)
(*   obs      the observation index: a set of records with the fields      *)
(*            target, probe, observer, status and payload, at most one for *)
(*            each target, probe and observer;                             *)
(*   newest   the observer whose observation is the newest where several   *)
(*            observers hold one of the same probe and target;             *)
(*   health   the state engine's view: triples of entity, component and    *)
(*            health;                                                      *)
(*   hosts    the hosts that are Active;                                   *)
(*   services the service entities in the inventory;                       *)
(*   uses     the uses_storage edges, pairs of host and storage;           *)
(*   provides the edges out of storage, schedulers and daemons, pairs of   *)
(*            entity and what provides it.                                 *)
(* It returns the set of diagnoses it produces.                            *)
(*                                                                         *)
(* Source: src/src/diagnosis/{mod,context,engine}.rs and                   *)
(* src/src/diagnosis/rules/*.rs.                                           *)
(*                                                                         *)
(* Abstracted: summaries and recommended actions; the order of the         *)
(* diagnoses, which sorts them for display.                                *)
(***************************************************************************)
EXTENDS Probes

\* An observation that no named observer made: the host's own agent, or the
\* scheduler.
Unsigned == "unsigned"

Slurmd(h) == <<"slurmd", h>>
Slurmctld(h) == <<"slurmctld", h>>
TheScheduler == <<"scheduler">>

Diagnosed(kind, affected, roots, confidence, evidence) ==
    [kind |-> kind, affected |-> affected, roots |-> roots,
     confidence |-> confidence, evidence |-> evidence]

-----------------------------------------------------------------------------
(* DiagnosisContext.                                                       *)

ForEntity(cx, e) == {o \in cx.obs : o.target = e}

\* ObservationIndex::latest, then DiagnosisContext::observation: the newest
\* observation, dropped if it concludes nothing.  As a set of at most one.
Observation(cx, e, probe) ==
    LET all   == {o \in ForEntity(cx, e) : o.probe = probe}
        voice == {o \in all : o.observer = cx.newest}
    IN  {o \in IF voice = {} THEN all ELSE voice : IsConclusive(o.status)}

\* payload_bool(field) = Some(value)
Reports(cx, e, probe, field, value) ==
    \E o \in Observation(cx, e, probe) :
        field \in DOMAIN o.payload /\ o.payload[field] = value

Component(cx, e, c, health) == <<e, c, health>> \in cx.health
IsHealthy(cx, e, c) == Component(cx, e, c, "Healthy")
IsBroken(cx, e, c) == Component(cx, e, c, "Unavailable") \/ Component(cx, e, c, "Degraded")

HostLooksHealthy(cx, h) ==
    IsHealthy(cx, h, "Network") /\ (IsHealthy(cx, h, "Agent") \/ IsHealthy(cx, h, "Ssh"))

-----------------------------------------------------------------------------
(* Reachability: rules/reachability.rs.                                    *)

\* verdicts_by_target: the observers, other than the host itself, that
\* answered the reachability question.
Votes(cx, h) ==
    {o \in ForEntity(cx, h) : /\ o.probe = "network.tcp" /\ IsConclusive(o.status)
                              /\ o.observer \notin {Unsigned, h}}

ReachedBy(cx, h) == {o.observer : o \in {v \in Votes(cx, h) : v.payload.host_responded}}
ConnectedBy(cx, h) == {o.observer : o \in {v \in Votes(cx, h) : v.payload.connected}}
FailedBy(cx, h) == {o.observer : o \in {v \in Votes(cx, h) : ~v.payload.host_responded}}

Disagree(cx, h) == FailedBy(cx, h) # {} /\ ReachedBy(cx, h) # {}

\* Faulty: one observer's word is enough.
UnanimousAlone(cx, h) == FailedBy(cx, h) # {} /\ ReachedBy(cx, h) = {}

UnanimouslyUnreachable(cx, h) ==
    Cardinality(FailedBy(cx, h)) >= 2 /\ ReachedBy(cx, h) = {}

HostUnreachable(cx) ==
    {Diagnosed("HOST_UNREACHABLE", {h}, {h}, "High", ForEntity(cx, h)) :
        h \in {x \in cx.hosts : UnanimouslyUnreachable(cx, x)}}

PathSpecificNetworkFailure(cx) ==
    {Diagnosed("PATH_SPECIFIC_NETWORK_FAILURE", {h}, FailedBy(cx, h) \cup {h}, "High",
               ForEntity(cx, h)) :
        h \in {x \in cx.hosts : Disagree(cx, x) /\ ConnectedBy(cx, x) # {}}}

-----------------------------------------------------------------------------
(* Services: rules/services.rs.                                            *)

SentinelAgentFailure(cx) ==
    {Diagnosed("SENTINEL_AGENT_FAILURE", {h}, {h}, "High", ForEntity(cx, h)) :
        h \in {x \in cx.hosts : /\ IsBroken(cx, x, "Agent")
                                /\ IsHealthy(cx, x, "Network")
                                /\ ~IsBroken(cx, x, "Ssh")}}

SshServiceFailure(cx) ==
    {Diagnosed("SSH_SERVICE_FAILURE", {h}, {h},
               IF IsHealthy(cx, h, "Agent") THEN "High" ELSE "Medium", ForEntity(cx, h)) :
        h \in {x \in cx.hosts : IsBroken(cx, x, "Ssh") /\ IsHealthy(cx, x, "Network")}}

-----------------------------------------------------------------------------
(* The scheduler: rules/slurm.rs.                                          *)

SlurmOnlyDegradation(cx) ==
    {Diagnosed("SLURM_ONLY_DEGRADATION", {h}, {h}, "High", ForEntity(cx, h)) :
        h \in {x \in cx.hosts : /\ Reports(cx, x, "slurm.node", "drained", TRUE)
                                /\ ~Reports(cx, x, "slurm.node", "not_responding", TRUE)
                                /\ HostLooksHealthy(cx, x)}}

\* Faulty: a node that was drained on purpose counts.
DaemonProblemDrained(cx, h) ==
    \/ Reports(cx, h, "slurm.node", "not_responding", TRUE)
    \/ Reports(cx, h, "slurm.node", "schedulable", FALSE)

DaemonProblem(cx, h) ==
    \/ Reports(cx, h, "slurm.node", "not_responding", TRUE)
    \/ /\ Reports(cx, h, "slurm.node", "schedulable", FALSE)
       /\ ~Reports(cx, h, "slurm.node", "drained", TRUE)

\* The daemon's own entity if it has been discovered, else its host.
DaemonOf(cx, h) == IF Slurmd(h) \in cx.services THEN Slurmd(h) ELSE h

\* Faulty: the state of the host and of the path does not matter.
SlurmdServiceFailureUnguarded(cx) ==
    {Diagnosed("SLURMD_SERVICE_FAILURE", {h}, {DaemonOf(cx, h)}, "High", ForEntity(cx, h)) :
        h \in {x \in cx.hosts : DaemonProblem(cx, x)}}

SlurmdServiceFailure(cx) ==
    {Diagnosed("SLURMD_SERVICE_FAILURE", {h}, {DaemonOf(cx, h)}, "High", ForEntity(cx, h)) :
        h \in {x \in cx.hosts : /\ DaemonProblem(cx, x)
                                /\ HostLooksHealthy(cx, x)
                                /\ ~Disagree(cx, x)}}

Providers(cx, e) == {edge[2] : edge \in {x \in cx.provides : x[1] = e}}

SlurmControlPlaneFailure(cx) ==
    LET daemons == Providers(cx, TheScheduler)
        failed  == \/ Reports(cx, TheScheduler, "slurm.controller", "up", FALSE)
                   \/ Component(cx, TheScheduler, "Service", "Unavailable")
        fine    == \E d \in daemons : \E h \in Providers(cx, d) : HostLooksHealthy(cx, h)
    IN  IF failed
          THEN {Diagnosed("SLURM_CONTROL_PLANE_FAILURE", {TheScheduler},
                          IF daemons = {} THEN {TheScheduler} ELSE daemons,
                          IF fine THEN "High" ELSE "Medium",
                          UNION {ForEntity(cx, e) : e \in daemons \cup {TheScheduler}})}
          ELSE {}

\* ResourceConfigurationMismatch for one host: what the scheduler has been told
\* and what the host reported, each a set with at most one number.
GpusDiffer(configured, observed) == \E n \in configured, k \in observed : n # k
CpusExceed(configured, observed) == \E n \in configured, k \in observed : n > k

MismatchKind(gpusTold, gpusSeen, cpusTold, cpusSeen) ==
    LET gpu == GpusDiffer(gpusTold, gpusSeen)
        cpu == CpusExceed(cpusTold, cpusSeen)
    IN  IF ~gpu /\ ~cpu THEN {}
        ELSE IF gpusTold # {} /\ gpusSeen # {} /\ ~(gpu /\ cpu) THEN {"GPU_CONFIGURATION_MISMATCH"}
        ELSE {"RESOURCE_CONFIGURATION_MISMATCH"}

-----------------------------------------------------------------------------
(* Storage: rules/storage.rs.                                              *)

StoragesUsed(cx, h) == {edge[2] : edge \in {x \in cx.uses : x[1] = h}}
ClientsOf(cx, st) == {edge[1] : edge \in {x \in cx.uses : x[2] = st}}
ServesAnyone(cx, h) ==
    \E edge \in cx.uses : <<edge[2], h>> \in cx.provides /\ edge[1] # h

ServiceTrouble(cx, h) ==
    \/ \E o \in Observation(cx, h, "nfs.server.port") : IsBad(o.status)
    \/ /\ Reports(cx, h, "nfs.server.exports", "export_count", 0)
       /\ \E o \in Observation(cx, h, "nfs.server.port") : o.status = "Ok"

StorageServiceFailure(cx) ==
    {Diagnosed("NFS_SERVICE_FAILURE", {h}, {h}, "High", ForEntity(cx, h)) :
        h \in {x \in cx.hosts : /\ ServiceTrouble(cx, x)
                                /\ ServesAnyone(cx, x)
                                /\ HostLooksHealthy(cx, x)}}

Impaired(cx) == {h \in cx.hosts : IsBroken(cx, h, "Storage")}

SharedStorageFailure(cx) ==
    {Diagnosed("SHARED_STORAGE_FAILURE", (ClientsOf(cx, st) \cap Impaired(cx)) \cup {st},
               IF Providers(cx, st) = {} THEN {st} ELSE Providers(cx, st),
               IF ClientsOf(cx, st) \subseteq Impaired(cx) THEN "High" ELSE "Medium",
               UNION {ForEntity(cx, e) : e \in (ClientsOf(cx, st) \cap Impaired(cx)) \cup {st}}) :
        st \in {x \in {edge[2] : edge \in cx.uses} :
                    Cardinality(ClientsOf(cx, x) \cap Impaired(cx)) > 1}}

Neighbours(cx, h) == (UNION {ClientsOf(cx, st) : st \in StoragesUsed(cx, h)}) \ {h}

ClientLocalStorageFailure(cx) ==
    {Diagnosed("NFS_CLIENT_FAILURE", {h}, {h}, "High", ForEntity(cx, h)) :
        h \in {x \in Impaired(cx) : /\ Neighbours(cx, x) # {}
                                    /\ Neighbours(cx, x) \cap Impaired(cx) = {}}}

-----------------------------------------------------------------------------
(* DiagnosisEngine::diagnose over builtin(), and the labels it implies.    *)

Diagnose(cx) ==
    UNION {HostUnreachable(cx), PathSpecificNetworkFailure(cx), SentinelAgentFailure(cx),
           SshServiceFailure(cx), SlurmOnlyDegradation(cx), SlurmdServiceFailure(cx),
           SlurmControlPlaneFailure(cx), StorageServiceFailure(cx),
           SharedStorageFailure(cx), ClientLocalStorageFailure(cx)}

\* fingerprint in incident/engine.rs: which incident a diagnosis belongs to.
Fingerprint(d) ==
    IF d.roots = {} THEN <<"affects", d.affected>> ELSE <<"cause", d.roots>>

\* classification_for
Classification(kind) ==
    CASE kind = "HOST_UNREACHABLE" -> {"HOST_UNREACHABLE"}
      [] kind = "PATH_SPECIFIC_NETWORK_FAILURE" -> {"NETWORK_PATH_DEGRADED"}
      [] kind = "SSH_SERVICE_FAILURE" -> {"SSH_DEGRADED"}
      [] kind = "SENTINEL_AGENT_FAILURE" -> {"AGENT_DEGRADED"}
      [] kind = "SLURM_ONLY_DEGRADATION" -> {"SCHEDULER_DEGRADED"}
      [] kind \in {"SLURMD_SERVICE_FAILURE", "SLURM_CONTROL_PLANE_FAILURE"} -> {"SERVICE_FAILURE"}
      [] kind \in {"NFS_SERVICE_FAILURE", "NFS_CLIENT_FAILURE", "SHARED_STORAGE_FAILURE"} ->
            {"STORAGE_DEGRADED"}
      [] OTHER -> {}

\* diagnose_and_classify: the labels a pass implies for an entity.
Classified(found, e) == UNION {Classification(d.kind) : d \in {x \in found : e \in x.affected}}
=============================================================================
