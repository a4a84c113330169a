----------------------------- MODULE ClusterWatch -----------------------------
(***************************************************************************)
(* A cluster with faults in it, and what Sentinel makes of it.             *)
(*                                                                         *)
(* The world is a set of faults.  Every agent, and the controller, reports *)
(* what its probes see of the world at that moment; the controller keeps   *)
(* the newest answer of each, a debounced health for each, forgets the     *)
(* answers of those that have gone silent, and diagnoses.  Reports of      *)
(* different sources come in any order, so the controller's picture mixes  *)
(* answers from before and after a fault.                                  *)
(*                                                                         *)
(* Source: src/src/controller/{observer,diagnose,mod}.rs,                  *)
(* src/src/agent/{mod,peer_probes}.rs (which probes a source runs),        *)
(* src/src/inventory/slurm.rs (what it takes to hear from the scheduler),  *)
(* and, through Diagnosis and Probes, the rules and the probes.            *)
(*                                                                         *)
(* Abstracted: all probes of a source report together, so a source's       *)
(* newest answers are given by the world they were taken from; the state   *)
(* engine (module StateEngine) is reduced to what it promises, that a      *)
(* debounced health follows an answer at the latest when it is repeated,   *)
(* and may hold the previous verdict until then; the diagnoses of a pass   *)
(* are dropped when the picture changes, every pass replacing them all.    *)
(***************************************************************************)
EXTENDS Diagnosis, Sequences

CONSTANTS
    Host,
    Central,        \* the controller's host
    Watch,          \* peer assignment: pairs of observer and target
    Client,         \* the hosts that mount Storage
    Server,         \* the host that exports it
    Packaged,       \* the hosts with the NFS server software installed
    Node,           \* the hosts Slurm schedules on
    Ctld,           \* the hosts of slurmctld, primary first
    World,          \* what may be wrong at a time: sets of faults
    MaxChanges      \* how often that changes

Storage == <<"storage">>

ASSUME WatchAssumption ==
    /\ IsFiniteSet(Host) /\ {Storage, TheScheduler} \cap Host = {}
    /\ Central \in Host /\ Server \in Host \ Client
    /\ Client \subseteq Host /\ Node \subseteq Host /\ Packaged \subseteq Host
    /\ Ctld \in Seq(Host)
    /\ Watch \subseteq {pair \in Host \X Host : pair[1] # pair[2] /\ pair[1] # Central}
    /\ MaxChanges \in Nat

VARIABLES
    faults,     \* the world
    seen,       \* [Source -> World]: where the newest answers of a source come from
    held,       \* [Source -> World]: where its debounced health comes from
    found,      \* what the diagnosis pass over the present picture found
    fresh,      \* there has been one
    labels,     \* [Host -> set of classifications], as the last pass left them
    changes

vars == <<faults, seen, held, found, fresh, labels, changes>>

Nothing == {<<"never">>}        \* no answer that is still evidence

\* The scheduler is a source of its own: the controller may be unable to ask it.
Source == Host \cup {TheScheduler}

-----------------------------------------------------------------------------
(* The world.                                                              *)

Up(w, h) == <<"down", h>> \notin w
Linked(w, a, b) == a = b \/ <<"cut", {a, b}>> \notin w

\* What a connection attempt meets.
Connect(w, from, to, service) ==
    IF ~Up(w, to) THEN "timed_out"
    ELSE IF ~Linked(w, from, to) THEN "failed"
    ELSE IF <<service, to>> \in w THEN "refused"
    ELSE "connected"

\* A stat() of the mounted storage.
Stat(w, c) ==
    IF ~Up(w, Server) \/ ~Linked(w, c, Server) THEN "hangs"
    ELSE IF {<<"nfsd", Server>>, <<"wedge", c>>} \cap w # {} THEN "hangs"
    ELSE IF <<"exports", Server>> \in w THEN "error"
    ELSE IF <<"slow", c>> \in w THEN "slow"
    ELSE "prompt"

\* scontrol asks the first slurmctld that answers.
Answering(w) ==
    {i \in DOMAIN Ctld : /\ Up(w, Ctld[i]) /\ Linked(w, Central, Ctld[i])
                         /\ <<"slurmctld", Ctld[i]>> \notin w}
Acting(w) == Ctld[CHOOSE i \in Answering(w) : \A j \in Answering(w) : i <= j]

NodeFlags(w, h) ==
    {f \in {"drain", "not_responding"} :
        IF f = "drain" THEN <<"drain", h>> \in w
        ELSE ~Up(w, h) \/ <<"slurmd", h>> \in w \/ ~Linked(w, Acting(w), h)}
NodeBase(w, h) ==
    IF <<"downed", h>> \in w \/ "not_responding" \in NodeFlags(w, h) THEN "down" ELSE "idle"

-----------------------------------------------------------------------------
(* What each source reports.                                               *)

\* RemoteObserver::observe_all and PeerProbes: nobody observes its own host.
Targets(o) ==
    IF o = Central THEN Host \ {o} ELSE {pair[2] : pair \in {x \in Watch : x[1] = o}}

RemoteProbe == {"network.tcp", "ssh.service", "sentinel.agent", "nfs.server.port"}

\* What a source probes, pairs of target and probe: the four remote probes, those
\* the target has the capability for; what an agent measures of its own host; and
\* what the scheduler is asked.
RemoteAsks(o) ==
    {pair \in Targets(o) \X RemoteProbe : pair[2] = "nfs.server.port" => pair[1] \in Packaged}

LocalAsks(h) ==
    {<<h, "host.metrics">>}
    \cup (Client \cap {h}) \X {"nfs.client.mount", "nfs.client.io"}
    \cup (Packaged \cap {h}) \X {"nfs.server.exports"}
    \cup {Slurmd(x) : x \in Node \cap {h}} \X {"systemd.unit"}

Daemons == {Slurmctld(Ctld[i]) : i \in DOMAIN Ctld}

Asks(src) ==
    IF src = TheScheduler
      THEN Node \X {"slurm.node"} \cup (Daemons \cup {TheScheduler}) \X {"slurm.controller"}
      ELSE RemoteAsks(src) \cup LocalAsks(src)

\* What comes back.
Remote(w, o, h, probe) ==
    CASE probe = "network.tcp" -> Reachability(Connect(w, o, h, "sshd"))
      [] probe = "ssh.service" ->
            SshService(Connect(w, o, h, "sshd"),
                       IF <<"stalled", h>> \in w THEN "silence" ELSE "banner")
      [] probe = "sentinel.agent" -> AgentService(Connect(w, o, h, "agent"), TRUE)
      [] probe = "nfs.server.port" ->
            NfsPort(Connect(IF h = Server THEN w ELSE w \cup {<<"nfsd", h>>}, o, h, "nfsd"))

Local(w, h, probe) ==
    CASE probe = "host.metrics" ->
            HostMetrics({"load"}, IF <<"load", h>> \in w THEN {"load"} ELSE {})
      [] probe = "nfs.client.mount" -> NfsMounts({Storage})
      [] probe = "nfs.client.io" -> NfsClientIo(Stat(w, h))
      [] probe = "nfs.server.exports" ->
            NfsExports(IF h = Server /\ <<"exports", h>> \notin w THEN 1 ELSE 0, 1, 0)
      [] probe = "systemd.unit" ->
            SystemdUnit("loaded", IF <<"slurmd", h>> \in w THEN "failed" ELSE "active")

\* SlurmInventoryProvider::collect_view and observations_from_view: every
\* slurmctld is recorded against the scheduler too, so the last one listed is
\* what stays.
Slurm(w, e, probe) ==
    CASE probe = "slurm.node" -> SlurmNode(NodeBase(w, e), NodeFlags(w, e))
      [] probe = "slurm.controller" ->
            SlurmController(\E i \in Answering(w) :
                                IF e = TheScheduler THEN i = Len(Ctld) ELSE e = Slurmctld(Ctld[i]))

ReportOf(w, src, e, probe) ==
    IF src = TheScheduler THEN Slurm(w, e, probe)
    ELSE IF probe \in RemoteProbe THEN Remote(w, src, e, probe)
    ELSE Local(w, src, probe)

\* Whether a source has something to say that reaches the controller; without
\* an answer to the node query there is no view of the scheduler at all.
CanReport(w, o) ==
    CASE o = TheScheduler -> Answering(w) # {}
      [] o = Central -> TRUE
      [] OTHER -> Up(w, o) /\ <<"agent", o>> \notin w /\ Linked(w, o, Central)

-----------------------------------------------------------------------------
(* The controller's picture.                                               *)

\* register_builtin_probes
ComponentOf(probe) ==
    CASE probe = "network.tcp" -> "Network"
      [] probe = "ssh.service" -> "Ssh"
      [] probe = "sentinel.agent" -> "Agent"
      [] probe = "host.metrics" -> "Host"
      [] probe = "slurm.node" -> "Scheduler"
      [] probe \in {"slurm.controller", "systemd.unit"} -> "Service"
      [] OTHER -> "Storage"

Immediate(probe) == probe \in {"slurm.node", "slurm.controller"}

Implied(status) ==
    CASE status = "Ok" -> "Healthy"
      [] status = "Degraded" -> "Degraded"
      [] IsBad(status) -> "Unavailable"
      [] status = "Unsupported" -> "Unknown"
      [] OTHER -> "NotApplicable"

Entity == Host \cup {Slurmd(h) : h \in Node} \cup Daemons \cup {TheScheduler}

\* The streams of the state engine, and those that make up each component.
Streams ==
    UNION {{[source |-> src, target |-> pair[1], probe |-> pair[2]] : pair \in Asks(src)} :
              src \in Source}

StreamsOf(e, c) == {s \in Streams : s.target = e /\ ComponentOf(s.probe) = c}

Components ==
    {<<e, c, StreamsOf(e, c)>> :
        e \in Entity, c \in {"Network", "Ssh", "Agent", "Storage", "Service"}}

\* An answer that is still evidence, as the rules are given it.
Obs(s) ==
    LET answer == ReportOf(seen[s.source], s.source, s.target, s.probe)
    IN  [target |-> s.target, probe |-> s.probe,
         observer |-> IF s.probe \in RemoteProbe THEN s.source ELSE Unsigned,
         status |-> answer.status, payload |-> answer.payload]

\* The health of a stream.
StreamHealth(s) ==
    LET status(w) == ReportOf(w, s.source, s.target, s.probe).status
        now == seen[s.source]
        before == held[s.source]
    IN  IF now = Nothing THEN "Unknown"
        ELSE IF Immediate(s.probe) \/ ~IsConclusive(status(now)) THEN Implied(status(now))
        ELSE IF before = Nothing THEN "Unknown"
        ELSE Implied(status(before))

\* recompute: the worst contributor; an expired stream is one only when no
\* observer still measures its probe.
Voting(streams) ==
    {s \in streams : seen[s.source] = Nothing =>
                        \A t \in streams : t.probe = s.probe => seen[t.source] = Nothing}

Worst(healths) ==
    IF "Unavailable" \in healths THEN "Unavailable"
    ELSE IF "Degraded" \in healths THEN "Degraded"
    ELSE IF "Unknown" \in healths THEN "Unknown"
    ELSE IF "Healthy" \in healths THEN "Healthy"
    ELSE "NotApplicable"

\* Controller::diagnose: the context of a pass; answers past their horizon are
\* not in it.
Context(newest) ==
    [obs |-> {Obs(s) : s \in {x \in Streams : seen[x.source] # Nothing}},
     newest |-> newest,
     health |-> {<<x[1], x[2], Worst({StreamHealth(s) : s \in Voting(x[3])})>> : x \in Components},
     hosts |-> Host,
     services |-> {Slurmd(h) : h \in Node},
     uses |-> Client \X {Storage},
     provides |-> {<<Storage, Server>>} \cup {<<TheScheduler, d>> : d \in Daemons}
                  \cup {<<Slurmctld(Ctld[i]), Ctld[i]>> : i \in DOMAIN Ctld}]

-----------------------------------------------------------------------------
\* Sentinel has been watching for a while.
Init ==
    /\ faults \in {w \in World : Cardinality(w) <= 1}
    /\ seen = [src \in Source |-> IF CanReport(faults, src) THEN faults ELSE Nothing]
    /\ held = seen
    /\ found = {} /\ fresh = FALSE
    /\ labels = [h \in Host |-> {}]
    /\ changes = 0

\* Something breaks, or is repaired.
Change ==
    /\ changes < MaxChanges
    /\ faults' \in {w \in World : Cardinality((w \ faults) \cup (faults \ w)) = 1}
    /\ changes' = changes + 1
    /\ found' = {} /\ fresh' = FALSE
    /\ UNCHANGED <<seen, held, labels>>

\* A source probes, and the controller ingests what it saw.  The health
\* follows at the latest when the answer is repeated.
Report(src) ==
    /\ CanReport(faults, src)
    /\ seen[src] # faults \/ held[src] # faults
    /\ seen' = [seen EXCEPT ![src] = faults]
    /\ \E h \in {faults} \cup (IF seen[src] = faults THEN {} ELSE {held[src]}) :
          held' = [held EXCEPT ![src] = h]
    /\ found' = {} /\ fresh' = FALSE
    /\ UNCHANGED <<faults, labels, changes>>

\* Four intervals without an answer: it stops voting.
Expire(src) ==
    /\ ~CanReport(faults, src) /\ seen[src] # Nothing
    /\ seen' = [seen EXCEPT ![src] = Nothing]
    /\ held' = [held EXCEPT ![src] = Nothing]
    /\ found' = {} /\ fresh' = FALSE
    /\ UNCHANGED <<faults, labels, changes>>

\* set_classifications: the labels of this pass, and of no other.
Relabel(diagnoses) == [h \in Host |-> Classified(diagnoses, h)]

\* Controller::diagnose_and_classify.  Only nfs.server.port has several
\* observers and is asked for its newest answer.
Pass ==
    /\ ~fresh
    /\ \E o \in {Central} \cup {p[1] : p \in {x \in Watch : x[2] = Server}} :
          found' = Diagnose(Context(o))
    /\ labels' = Relabel(found')
    /\ fresh' = TRUE
    /\ UNCHANGED <<faults, seen, held, changes>>

Next == Change \/ Pass \/ \E src \in Source : Report(src) \/ Expire(src)

Spec == Init /\ [][Next]_vars

-----------------------------------------------------------------------------
(* Properties.                                                             *)

\* Variables stay in their types, and a debounced health does not outlive the
\* answers it rests on (StateEngine::expire resets the stream).
TypeOK ==
    /\ faults \in World /\ changes \in 0..MaxChanges /\ fresh \in BOOLEAN
    /\ \A src \in Source : /\ {seen[src], held[src]} \subseteq World \cup {Nothing}
                           /\ seen[src] = Nothing => held[src] = Nothing

\* Every source that can report has, twice; the others have been given up.
Settled ==
    \A src \in Source :
        seen[src] = (IF CanReport(faults, src) THEN faults ELSE Nothing) /\ held[src] = seen[src]

Findings == {<<d.kind, d.affected>> : d \in found}

\* What a single fault is to be called: the reference for the rules.
Expected(f) ==
    CASE f[1] = "down" /\ f[2] # Server -> {<<"HOST_UNREACHABLE", {f[2]}>>}
      [] f[1] = "down" /\ f[2] = Server ->
            {<<"HOST_UNREACHABLE", {Server}>>, <<"SHARED_STORAGE_FAILURE", Client \cup {Storage}>>}
      [] f[1] = "cut" ->
            {<<"PATH_SPECIFIC_NETWORK_FAILURE", {h}>> :
                h \in {x \in f[2] : \E o \in f[2] \ {x} : x \in Targets(o) /\ CanReport({f}, o)}}
            \cup {<<"NFS_CLIENT_FAILURE", {c}>> :
                    c \in {x \in f[2] \cap Client : Server \in f[2] /\ CanReport({f}, x)}}
      [] f[1] \in {"sshd", "stalled"} -> {<<"SSH_SERVICE_FAILURE", {f[2]}>>}
      [] f[1] = "agent" -> {<<"SENTINEL_AGENT_FAILURE", {f[2]}>>}
      [] f[1] \in {"wedge", "slow"} -> {<<"NFS_CLIENT_FAILURE", {f[2]}>>}
      [] f[1] = "drain" -> {<<"SLURM_ONLY_DEGRADATION", {f[2]}>>}
      [] f[1] \in {"slurmd", "downed"} -> {<<"SLURMD_SERVICE_FAILURE", {f[2]}>>}
      [] f[1] \in {"nfsd", "exports"} ->
            {<<"NFS_SERVICE_FAILURE", {Server}>>, <<"SHARED_STORAGE_FAILURE", Client \cup {Storage}>>}
      [] OTHER -> {}

\* One fault is one incident, whatever mix of symptoms it shows: all that is
\* diagnosed of it blames the same thing (incident/engine.rs, "shared cause, not
\* shared symptom"; a storage failure and the export failure behind it are one).
\* A client cut off from its server is both a path and a client in trouble.
OneIncident ==
    \/ Cardinality({Fingerprint(d) : d \in {x \in found : x.kind # "SLURM_CONTROL_PLANE_FAILURE"}}) <= 1
    \/ \E c \in Client : <<"cut", {c, Server}>> \in faults

\* A cluster with one fault in it, once everyone has reported, is diagnosed
\* with exactly that fault, and a cluster with none with nothing: no rule fires
\* on another's symptoms, none is silenced by them, and all that is found belongs
\* to one incident.  Nor does a host still wear the label of a fault that has
\* been repaired ("a stale label is worse than no label",
\* EntityState::set_classifications).  (What is said of the control plane is left
\* out: without a slurmctld there is no view to diagnose.)
SingleFaultNamed ==
    fresh /\ Settled /\ Cardinality(faults) <= 1 =>
        /\ \A w \in {faults \ {<<"slurmctld", Ctld[i]>> : i \in DOMAIN Ctld}} :
              {x \in Findings : x[1] # "SLURM_CONTROL_PLANE_FAILURE"} = UNION {Expected(f) : f \in w}
        /\ faults = {} => \A h \in Host : labels[h] = {}
        /\ OneIncident

\* What was wrong in some world that the present picture was taken from.
Behind == UNION {w \in {seen[src] : src \in Source} \cup {held[src] : src \in Source} : w # Nothing}

CutFrom(w, h) == {o \in Host : h \in Targets(o) /\ <<"cut", {o, h}>> \in w}
LostTouch(w, h) == <<"down", h>> \in w \/ \E i \in DOMAIN Ctld : <<"cut", {Ctld[i], h}>> \in w

\* Whether a diagnosis has its cause among the faults in w.
Caused(d, w) ==
    \A x \in d.affected \ {Storage, TheScheduler} :
        CASE d.kind = "HOST_UNREACHABLE" ->
                <<"down", x>> \in w \/ Cardinality(CutFrom(w, x)) > 1
          [] d.kind = "PATH_SPECIFIC_NETWORK_FAILURE" ->
                <<"down", x>> \in w \/ CutFrom(w, x) # {}
          [] d.kind = "SSH_SERVICE_FAILURE" -> {<<"sshd", x>>, <<"stalled", x>>} \cap w # {}
          [] d.kind = "SENTINEL_AGENT_FAILURE" -> <<"agent", x>> \in w
          [] d.kind = "SLURM_ONLY_DEGRADATION" -> <<"drain", x>> \in w
          [] d.kind = "SLURMD_SERVICE_FAILURE" ->
                {<<"slurmd", x>>, <<"downed", x>>} \cap w # {} \/ LostTouch(w, x)
          [] d.kind = "NFS_SERVICE_FAILURE" ->
                \/ {<<"nfsd", x>>, <<"exports", x>>, <<"down", x>>} \cap w # {}
                \/ CutFrom(w, x) # {}
          [] OTHER -> \/ x \in Packaged
                      \/ \E v \in SUBSET w : Cardinality(v) <= 1 /\ Stat(v, x) # "prompt"

\* Whatever mix of old and new answers the controller holds, it blames no host
\* for something that was never wrong with it: every diagnosis has a cause in
\* one of the worlds the answers were taken from.  One broken path is never a
\* dead host, and a host that was never down is not one (rules/*.rs, on
\* observations and debounced health of different age).  And each cites an
\* observation, although health outlives the answers it came from
\* (Diagnosis::evidence, "Never empty for a real diagnosis").  A client with the
\* server software is the exception: its export port, where nothing listens, is
\* measured as its storage (NfsPortProbe, storage_is_impaired).
BlameHasCause == fresh => \A d \in found : Caused(d, Behind) /\ d.evidence # {}

\* An operator is told one story about a host.  The rules that need the host to
\* be up stay silent once the observers agree that it is not, or disagree; a
\* drained node is not also one with a dead slurmd; an impaired client is
\* either alone or one of several.
OneStory ==
    fresh => \A h \in Host :
        LET kinds == {d.kind : d \in {x \in found : h \in x.affected}}
        IN  /\ ~({"SLURM_ONLY_DEGRADATION", "SLURMD_SERVICE_FAILURE"} \subseteq kinds)
            /\ ~({"NFS_CLIENT_FAILURE", "SHARED_STORAGE_FAILURE"} \subseteq kinds)
            /\ Settled /\ {"HOST_UNREACHABLE", "PATH_SPECIFIC_NETWORK_FAILURE"} \cap kinds # {} =>
                  kinds \cap {"SSH_SERVICE_FAILURE", "SENTINEL_AGENT_FAILURE", "NFS_SERVICE_FAILURE",
                              "SLURM_ONLY_DEGRADATION", "SLURMD_SERVICE_FAILURE"} = {}
=============================================================================
