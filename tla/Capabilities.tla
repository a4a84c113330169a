----------------------------- MODULE Capabilities -----------------------------
(***************************************************************************)
(* What a host can do and which probes follow from it: detect and          *)
(* role_hints of src/src/agent/discovery.rs, resolve_capabilities of       *)
(* src/src/capability/resolve.rs, the probe definitions of                 *)
(* src/src/probes/ as src/src/probes/catalog.rs lists them, and what       *)
(* Agent::new, PeerProbes and RemoteObserver schedule from them.           *)
(*                                                                         *)
(* A host is the set of things the agent finds when it looks at it: paths, *)
(* programs, an NFS mount, a slurm.conf that names the host.               *)
(***************************************************************************)
EXTENDS FiniteSets

Tools == {"systemd", "journalctl", "sshd", "nvidia-smi", "nfs-mount", "exports",
          "slurm.conf:node", "slurm.conf:controller", "slurmd", "slurmctld"}

RoleNames == {"controller", "compute", "fileserver", "observer", "login"}

-----------------------------------------------------------------------------

RoleHints(role) ==
    CASE role = "controller" -> {"slurm.controller", "observer.peer"}
      [] role = "compute" -> {"slurm.compute"}
      [] role = "fileserver" -> {"storage.nfs.server", "observer.peer"}
      [] role = "observer" -> {"observer.peer"}
      [] role = "login" -> {"ssh.server"}

(* Configured to run it and able to: either alone claims nothing.          *)
SlurmDetect(facts) ==
    {c \in {"slurm.compute", "slurm.controller"} :
        IF c = "slurm.compute" THEN {"slurm.conf:node", "slurmd"} \subseteq facts
                               ELSE {"slurm.conf:controller", "slurmctld"} \subseteq facts}

Detected(facts) ==
    {"host.metrics", "sentinel.agent", "network.tcp"}
    \cup {c \in {"systemd"} : "systemd" \in facts}
    \cup {c \in {"journal.read"} : {"systemd", "journalctl"} \subseteq facts}
    \cup {c \in {"ssh.server"} : "sshd" \in facts}
    \cup {c \in {"gpu.nvidia"} : "nvidia-smi" \in facts}
    \cup {c \in {"storage.nfs.client"} : "nfs-mount" \in facts}
    \cup {c \in {"storage.nfs.server"} : "exports" \in facts}
    \cup SlurmDetect(facts)

(* Every capability detection has an opinion on, the negatives included.   *)
LookedFor == Detected(Tools)

(* disable > force > what was found > enable > what a role suggests.       *)
Reason(c, facts, override, hints) ==
    LET told == {v \in {"disable", "force", "enable"} : c \in DOMAIN override /\ override[c] = v}
    IN  IF told = {"disable"} THEN "forced_disabled"
        ELSE IF told = {"force"} THEN "forced_enabled"
        ELSE IF c \in Detected(facts) THEN "discovered"
        ELSE IF c \in LookedFor THEN "not_discovered"
        ELSE IF told = {"enable"} THEN "operator_enabled"
        ELSE IF c \in hints THEN "role_hint"
        ELSE "not_discovered"

IsEnabled(reason) == reason \in {"forced_enabled", "discovered", "operator_enabled", "role_hint"}

Resolve(facts, override, roles) ==
    LET hints == UNION {RoleHints(r) : r \in roles}
        considered == LookedFor \cup DOMAIN override \cup hints
    IN {c \in considered : IsEnabled(Reason(c, facts, override, hints))}

-----------------------------------------------------------------------------
(* The compiled-in probes: what each needs, what it can measure, what its  *)
(* observations name, and from where it runs.                              *)

ProbeDefinition(needs, targets, mode) == [needs |-> needs, targets |-> targets, reports |-> targets, mode |-> mode]

Catalog ==
    [p \in {"network.tcp", "sentinel.agent", "systemd.unit", "host.metrics", "ssh.service", "gpu.nvidia",
            "nfs.server.port", "nfs.client.mount", "nfs.client.io", "journal.events", "nfs.server.exports"} |->
        CASE p = "network.tcp" -> ProbeDefinition({}, {"host"}, "either")
          [] p = "sentinel.agent" -> ProbeDefinition({"sentinel.agent"}, {"host"}, "remote")
          [] p = "systemd.unit" -> [ProbeDefinition({"systemd"}, {"service", "host"}, "local") EXCEPT !.reports = {"service"}]
          [] p = "host.metrics" -> ProbeDefinition({"host.metrics"}, {"host"}, "local")
          [] p = "ssh.service" -> ProbeDefinition({"ssh.server"}, {"host", "service", "storage", "scheduler"}, "either")
          [] p = "gpu.nvidia" -> ProbeDefinition({"gpu.nvidia"}, {"host"}, "local")
          [] p = "nfs.server.port" -> ProbeDefinition({"storage.nfs.server"}, {"host", "storage"}, "either")
          [] p = "nfs.client.mount" -> ProbeDefinition({"storage.nfs.client"}, {"host"}, "local")
          [] p = "nfs.client.io" -> ProbeDefinition({"storage.nfs.client"}, {"host", "storage"}, "local")
          [] p = "journal.events" -> ProbeDefinition({"journal.read"}, {"host"}, "local")
          [] p = "nfs.server.exports" -> ProbeDefinition({"storage.nfs.server"}, {"host"}, "local")]

ProbeIds == DOMAIN Catalog

AppliesTo(p, type, caps) == type \in Catalog[p].targets /\ Catalog[p].needs \subseteq caps

(* The agent refuses what only makes sense from elsewhere.                 *)
Applies(p, caps) == Catalog[p].mode # "remote" /\ AppliesTo(p, "host", caps)

Enabled(p, disabled) == p \notin disabled

ServiceUnits == [c \in {"slurm.compute", "slurm.controller"} |-> IF c = "slurm.compute" THEN "slurmd" ELSE "slurmctld"]

(* What Agent::new schedules, as pairs of a probe and what it measures:    *)
(* the host itself, or the service entity of a unit.  The host.metrics     *)
(* probe is built without consulting the operator's schedule.              *)
StorageProbes(facts, disabled) ==
    {p \in {"nfs.server.exports"} : Enabled(p, disabled)}
    \cup {p \in {"nfs.client.mount", "nfs.client.io"} : Enabled(p, disabled) /\ "nfs-mount" \in facts}

ServiceProbes(h, caps, disabled) ==
    {<<"systemd.unit", <<ServiceUnits[c], h>>>> :
        c \in {k \in DOMAIN ServiceUnits : k \in caps /\ Enabled("systemd.unit", disabled) /\ Applies("systemd.unit", caps)}}

HostProbes(h, facts, disabled) ==
    {"host.metrics"} \cup StorageProbes(facts, disabled) \cup {p \in {"gpu.nvidia", "journal.events"} : Enabled(p, disabled)}

LocalProbes(h, facts, caps, disabled) ==
    {<<p, <<"host", h>>>> : p \in {q \in HostProbes(h, facts, disabled) : Applies(q, caps)}}
    \cup ServiceProbes(h, caps, disabled)

(* What the controller and the peer observers run against a host.          *)
RemoteProbes(caps, disabled) ==
    {p \in {"network.tcp", "ssh.service", "sentinel.agent", "nfs.server.port"} :
        Enabled(p, disabled) /\ AppliesTo(p, "host", caps) /\ Catalog[p].mode # "local"}
=============================================================================
