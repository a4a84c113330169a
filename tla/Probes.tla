-------------------------------- MODULE Probes --------------------------------
(***************************************************************************)
(* What each probe makes of the answer it got.                             *)
(*                                                                         *)
(* A probe asks one question (connect to a port, stat a path, run a        *)
(* command, read files) and turns the answer into an observation: a status *)
(* and the payload fields that the rules and the registration read.  The   *)
(* operators below are those conversions; where the answers come from is   *)
(* the business of the module that uses them.                              *)
(*                                                                         *)
(* Source: src/src/probes/{network,ssh,sentinel_rpc,host,systemd,journal,  *)
(* gpu}.rs, src/src/probes/nfs/{client,server}.rs,                         *)
(* src/src/integrations/slurm/observe.rs and the predicates of ProbeStatus *)
(* in src/src/observation/mod.rs.                                          *)
(*                                                                         *)
(* Abstracted: addresses, ports, latencies, error texts and the numbers    *)
(* of a payload that nothing reads back.                                   *)
(***************************************************************************)
EXTENDS Naturals, Sequences, FiniteSets

IsBad(status) == status \in {"Failed", "Timeout", "Stuck"}
IsConclusive(status) == status \notin {"Unsupported", "NotApplicable"}

NoPayload == [none |-> TRUE]
Says(status, payload) == [status |-> status, payload |-> payload]

-----------------------------------------------------------------------------
(* Remote probes.                                                          *)

\* ConnectOutcome; "failed" stands for Unresolvable as well.
Answer == {"connected", "refused", "timed_out", "failed"}

ConnectStatus(answer) ==
    CASE answer = "connected" -> "Ok"
      [] answer = "timed_out" -> "Timeout"
      [] OTHER -> "Failed"

ProvesHostResponds(answer) == answer \in {"connected", "refused"}

\* TcpProbe::reachability: a refusal is an answer from the host.
Reachability(answer) ==
    Says(IF answer = "refused" THEN "Ok" ELSE ConnectStatus(answer),
         [host_responded |-> ProvesHostResponds(answer),
          connected |-> answer = "connected"])

\* SshProbe: what came over the connection, if there was one.
SshService(answer, greeting) ==
    Says(IF answer # "connected" THEN ConnectStatus(answer)
         ELSE IF greeting = "banner" THEN "Ok" ELSE "Degraded",
         NoPayload)

\* SentinelAgentProbe: the agent's own endpoint, which may answer with an
\* error or with something that is not a health report.
AgentService(answer, healthy) ==
    Says(IF answer = "connected" /\ ~healthy THEN "Failed" ELSE ConnectStatus(answer),
         NoPayload)

\* NfsPortProbe: here a refusal is a failure.
NfsPort(answer) == Says(ConnectStatus(answer), NoPayload)

-----------------------------------------------------------------------------
(* Local probes.                                                           *)

\* NfsExportsProbe over the export files and fragments it found: how many
\* directories they export, how many were read, how many could not be.
NfsExports(exports, read, unreadable) ==
    IF exports > 0 \/ (read > 0 /\ unreadable = 0)
      THEN Says("Ok", [export_count |-> exports])
      ELSE Says("Unsupported", NoPayload)

\* NfsMountProbe: the mount table; a read-only mount is recorded, not judged.
NfsMounts(mounts) ==
    IF mounts = {} THEN Says("NotApplicable", NoPayload)
                   ELSE Says("Ok", [mounts |-> mounts])

\* NfsClientIoProbe: one stat() of one mount point against the deadline.
NfsClientIo(answer) ==
    Says(CASE answer = "prompt" -> "Ok"
           [] answer = "slow" -> "Degraded"
           [] answer = "error" -> "Failed"
           [] answer = "hangs" -> "Timeout",
         NoPayload)

\* parse_query: a row counts when it identifies a device, whatever else the
\* driver does not report of it.  A row is the set of its fields that have a
\* value, "hot" among them when the temperature is past the threshold.
ParseQuery(rows) == SelectSeq(rows, LAMBDA row : {"index", "uuid", "name"} \subseteq row)

\* NvidiaGpuProbe: nvidia-smi is missing, fails, or lists devices; `expected`
\* holds the configured count, if one is stated.
NvidiaGpu(tool, rows, expected) ==
    LET gpus == ParseQuery(rows)
        hot == \E i \in DOMAIN gpus : "hot" \in gpus[i]
    IN  CASE tool = "missing" -> Says("NotApplicable", NoPayload)
          [] tool = "failing" ->
                Says(IF \E n \in expected : n > 0 THEN "Failed" ELSE "Unsupported", NoPayload)
          [] tool = "listing" ->
                Says(IF hot \/ (\E n \in expected : n # Len(gpus)) THEN "Degraded" ELSE "Ok",
                     [gpu_count |-> Len(gpus)])

\* SystemdProbe: LoadState and ActiveState of one unit.
SystemdUnit(load, active) ==
    Says(IF load \in {"not-found", "masked"} THEN "NotApplicable"
         ELSE CASE active = "active" -> "Ok"
                [] active \in {"activating", "deactivating", "reloading"} -> "Degraded"
                [] OTHER -> "Failed",
         NoPayload)

\* HostMetricsProbe: the set of readable metrics, and those past a threshold.
HostMetrics(readable, past) ==
    Says(CASE readable = {} -> "Unsupported"
           [] past \cap readable # {} -> "Degraded"
           [] OTHER -> "Ok",
         NoPayload)

\* EVENT_CLASSES, in order; the patterns of a class are represented by its kind.
EventClass(kind, severity) == [kind |-> kind, severity |-> severity]

EventClasses ==
    <<EventClass("io_error", "serious"), EventClass("filesystem_readonly", "serious"),
      EventClass("hung_task", "serious"), EventClass("nvme_error", "serious"),
      EventClass("gpu_xid", "serious"), EventClass("mce", "serious"),
      EventClass("nfs_server_not_responding", "serious"), EventClass("oom", "notable"),
      EventClass("network_down", "notable"), EventClass("thermal", "notable")>>

\* classify: the first class one of whose patterns the line holds.
Classify(line) ==
    EventClasses[CHOOSE i \in DOMAIN EventClasses :
                    /\ EventClasses[i].kind \in line
                    /\ \A j \in 1..(i - 1) : EventClasses[j].kind \notin line]

\* JournalProbe: whether journalctl ran, and the severities of the entries
\* that matched an event class.
Journal(ran, severities) ==
    Says(IF ~ran THEN "Unsupported"
         ELSE IF "serious" \in severities THEN "Degraded" ELSE "Ok",
         NoPayload)

-----------------------------------------------------------------------------
(* What the scheduler says.                                                *)

SchedulableBase == {"idle", "allocated", "mixed"}

\* NodeState::is_schedulable
IsSchedulable(base, flags) ==
    base \in SchedulableBase /\ flags \cap {"drain", "not_responding"} = {}

\* node_status and the payload of observations_from_view
SlurmNode(base, flags) ==
    Says(IF flags \cap {"power_save", "powering_up", "powering_down"} # {} THEN "NotApplicable"
         ELSE IF IsSchedulable(base, flags) THEN "Ok"
         ELSE IF base \in SchedulableBase /\ "drain" \in flags /\ "not_responding" \notin flags
           THEN "Degraded"
         ELSE "Failed",
         [schedulable |-> IsSchedulable(base, flags),
          drained |-> "drain" \in flags,
          not_responding |-> "not_responding" \in flags])

SlurmController(up) == Says(IF up THEN "Ok" ELSE "Failed", [up |-> up])
=============================================================================
