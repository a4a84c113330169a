------------------------------ MODULE ProbeAudit ------------------------------
(***************************************************************************)
(* Is everything that should be running actually running?  The path from   *)
(* what is installed on a host, over the capabilities its agent resolves   *)
(* when it starts, the probes it schedules and the inventory its           *)
(* registration writes, to the list silent_probes of src/src/audit.rs      *)
(* draws up from that inventory and the times observations were last seen. *)
(*                                                                         *)
(* Every host carries the same [probes] section.  A registration is never  *)
(* withdrawn: an agent that stops leaves its capabilities in the inventory. *)
(***************************************************************************)
EXTENDS Capabilities, PeerAssignment

CONSTANTS
    HostOrder,    \* the hosts, in the order of their entity ids
    OwnHost,      \* the host the controller runs on
    Degree,       \* [peer_monitoring] degree
    Roles,        \* [agent] roles of each host
    Override,     \* [capabilities] of each host
    Disabled,     \* probes [probes] switches off
    SlurmNodes,   \* hosts scontrol lists as nodes
    Installed,    \* what each host always has
    Changing      \* what comes and goes on each host

VARIABLES
    observe,      \* [controller] observe, the deployment's choice
    facts,        \* what an inspection of each host would find now
    agent,        \* each agent: Down, or the capabilities and jobs of its start
    claim,        \* capabilities each agent last registered; {} before it did
    fresh         \* (entity, probe) pairs heard of within the silence horizon

vars == <<observe, facts, agent, claim, fresh>>

Hosts == Range(HostOrder)
Down == [up |-> FALSE, caps |-> {}, jobs |-> {}]
HostEntity(h) == <<"host", h>>
Services == {<<"slurmd", h>> : h \in SlurmNodes}

ASSUME AuditAssumption ==
    /\ OwnHost \in Hosts /\ Degree \in Nat \ {0}
    /\ \A h \in Hosts : Roles[h] \subseteq RoleNames /\ Installed[h] \subseteq Tools /\ Changing[h] \subseteq Tools

Init ==
    /\ observe \in BOOLEAN
    /\ facts \in {f \in [Hosts -> SUBSET Tools] : \A h \in Hosts : Installed[h] \subseteq f[h] /\ f[h] \subseteq Installed[h] \cup Changing[h]}
    /\ agent = [h \in Hosts |-> Down]
    /\ claim = [h \in Hosts |-> {}]
    /\ fresh = {}

-----------------------------------------------------------------------------
(* The inventory: hosts that registered or that scontrol lists, each with  *)
(* the union of what the two say it can do.  A service has no capability.  *)

Known == {h \in Hosts : claim[h] # {}} \cup SlurmNodes
CapsOf(h) == claim[h] \cup {c \in {"slurm.compute"} : h \in SlurmNodes}
Entities == {HostEntity(h) : h \in Known} \cup Services
Type(e) == IF e[1] = "host" THEN "host" ELSE "service"
EntityCaps(e) == IF Type(e) = "host" THEN CapsOf(e[2]) ELSE {}

Candidates == ObserverCandidates(HostOrder, {h \in Known : "observer.peer" \in CapsOf(h)})
Plan == Assign(SelectSeq(HostOrder, LAMBDA h : h \in Known), Candidates, [h \in Hosts |-> {}], Degree)

(* Every observation that counts names an entity the inventory knows, of a *)
(* kind its probe reports on.                                              *)
TypeOK ==
    /\ observe \in BOOLEAN
    /\ facts \in [Hosts -> SUBSET Tools]
    /\ \A h \in Hosts : agent[h].up \in BOOLEAN /\ agent[h].caps \subseteq LookedFor \cup {"observer.peer"}
    /\ \A h \in Hosts : \A job \in agent[h].jobs : job[1] \in ProbeIds
    /\ claim \in [Hosts -> SUBSET (LookedFor \cup {"observer.peer"})]
    /\ \A pair \in fresh : pair[1] \in Entities /\ Type(pair[1]) \in Catalog[pair[2]].reports

(* Who watches a host at all, as the audit sees it.                        *)
Observed ==
    IF observe THEN Known
    ELSE {Plan[i].target : i \in {j \in DOMAIN Plan : Plan[j].observers # <<>>}}

-----------------------------------------------------------------------------

(* Faulty: a probe that can run from either side is taken for a local one. *)
ExpectedLocally(p, e) ==
    /\ Type(e) \in Catalog[p].reports
    /\ AppliesTo(p, Type(e), EntityCaps(e))
    /\ IF Catalog[p].mode = "remote" THEN Type(e) = "host" /\ e[2] \in Observed
                                     ELSE "sentinel.agent" \in EntityCaps(e)

Expected(p, e) ==
    /\ Type(e) \in Catalog[p].reports
    /\ AppliesTo(p, Type(e), EntityCaps(e))
    /\ IF Catalog[p].mode = "local" THEN "sentinel.agent" \in EntityCaps(e)
                                    ELSE Type(e) = "host" /\ e[2] \in Observed

(* Faulty: silence is measured by whatever was last heard of the entity.   *)
SilentByEntity(e, p) == \A q \in ProbeIds : <<e, q>> \notin fresh

Silent(e, p) == <<e, p>> \notin fresh

SilentProbes ==
    {pair \in Entities \X (ProbeIds \ Disabled) : Expected(pair[2], pair[1]) /\ Silent(pair[1], pair[2])}

(* What `explain paths' shows of a host: the probes its agent runs, those  *)
(* run at it from elsewhere, and its observers.                            *)
Paths(h) ==
    LET applicable(modes) == {p \in ProbeIds : Catalog[p].mode \in modes /\ AppliesTo(p, "host", CapsOf(h))}
    IN [itself |-> applicable({"local"}), others |-> applicable({"either", "remote"}), watchers |-> {o \in Hosts : h \in TargetsFor(Plan, o)}]

-----------------------------------------------------------------------------

(* Something is installed or removed, a filesystem mounted or unmounted.   *)
Change(h, tool) ==
    /\ tool \in Changing[h]
    /\ facts' = [facts EXCEPT ![h] = IF tool \in @ THEN @ \ {tool} ELSE @ \cup {tool}]
    /\ UNCHANGED <<observe, agent, claim, fresh>>

(* Agent::new: the host is inspected once, when the agent starts.          *)
Start(h) ==
    /\ ~agent[h].up
    /\ LET caps == Resolve(facts[h], Override[h], Roles[h])
       IN agent' = [agent EXCEPT ![h] = [up |-> TRUE, caps |-> caps, jobs |-> LocalProbes(h, facts[h], caps, Disabled)]]
    /\ UNCHANGED <<observe, facts, claim, fresh>>

Stop(h) ==
    /\ agent[h].up
    /\ agent' = [agent EXCEPT ![h] = Down]
    /\ UNCHANGED <<observe, facts, claim, fresh>>

Register(h) ==
    /\ agent[h].up
    /\ claim' = [claim EXCEPT ![h] = agent[h].caps \cup {"sentinel.agent"}]
    /\ UNCHANGED <<observe, facts, agent, fresh>>

(* The controller rejects what names an entity it has never heard of.      *)
Hear(pairs) == fresh' = fresh \cup {pair \in pairs : pair[1] \in Entities}

(* A GPU probe whose command is gone is dropped until the agent restarts.  *)
StillScheduled(h) == {job \in agent[h].jobs : job[1] = "gpu.nvidia" => "nvidia-smi" \in facts[h]}

(* The jobs of an agent report, each about its own entity.                 *)
Turn(h) ==
    /\ agent[h].up
    /\ Hear({<<job[2], job[1]>> : job \in agent[h].jobs})
    /\ agent' = [agent EXCEPT ![h].jobs = StillScheduled(h)]
    /\ UNCHANGED <<observe, facts, claim>>

AimedAt(targets) == UNION {{<<HostEntity(t), p>> : p \in RemoteProbes(CapsOf(t), Disabled)} : t \in targets}

(* The controller looks at every host but its own.                         *)
ObserveAll ==
    /\ observe
    /\ Hear(AimedAt(Known \ {OwnHost}))
    /\ UNCHANGED <<observe, facts, agent, claim>>

ObservePeers(h) ==
    /\ agent[h].up
    /\ h \in Known
    /\ Hear(AimedAt(TargetsFor(Plan, h)))
    /\ UNCHANGED <<observe, facts, agent, claim>>

(* The silence horizon passes.                                             *)
Elapse ==
    /\ fresh' = {}
    /\ UNCHANGED <<observe, facts, agent, claim>>

Next ==
    \/ \E h \in Hosts : \E tool \in Tools : Change(h, tool)
    \/ \E h \in Hosts : Start(h) \/ Stop(h) \/ Register(h) \/ Turn(h) \/ ObservePeers(h)
    \/ ObserveAll
    \/ Elapse

Spec == Init /\ [][Next]_vars
FairSpec == Spec /\ WF_vars(Elapse)

-----------------------------------------------------------------------------

(* An agent that runs and whose registration says what it resolved.        *)
Steady(h) == agent[h].up /\ claim[h] = agent[h].caps \cup {"sentinel.agent"}

Watched(h) == (observe /\ h # OwnHost) \/ \E o \in Hosts \ {h} : h \in TargetsFor(Plan, o)

Runs(h, p) ==
    \/ <<p, HostEntity(h)>> \in agent[h].jobs
    \/ p \in RemoteProbes(CapsOf(h), Disabled) /\ Watched(h)

(* `A probe listed here is enabled, applies to the entity, and something   *)
(* is supposed to be running it', as the audit's report says: on a host    *)
(* whose agent runs, what is listed is scheduled by that agent or aimed at *)
(* the host by the controller or a peer.  The exceptions are the           *)
(* controller's own host when no peer watches it, and the GPU probe, which *)
(* stays dropped once its command was missing.                             *)
NamesWhatRuns ==
    \A pair \in SilentProbes : \A h \in Hosts :
        pair[1] = HostEntity(h) /\ Steady(h) =>
            \/ Runs(h, pair[2])
            \/ h = OwnHost /\ ~Watched(h) /\ Catalog[pair[2]].mode # "local"
            \/ pair[2] = "gpu.nvidia"

(* Nothing a host's agent runs about the host itself, and nothing aimed at *)
(* it from elsewhere, agent or none, escapes the audit: what has not been  *)
(* heard of within the horizon is listed unless it was switched off.       *)
NoneOverlooked ==
    \A h \in Known : \A p \in ProbeIds \ Disabled :
        /\ \/ Steady(h) /\ <<p, HostEntity(h)>> \in agent[h].jobs
           \/ p \in RemoteProbes(CapsOf(h), Disabled) /\ Watched(h)
        /\ <<HostEntity(h), p>> \notin fresh
        => <<HostEntity(h), p>> \in SilentProbes

(* The two answers to `what watches this host' agree, although the code    *)
(* computes them apart: whatever the audit finds silent is on the paths    *)
(* explain shows, and when the controller does not observe, a host shown   *)
(* without an observer is not blamed for what nobody runs at it.           *)
PathsExplainAudit ==
    \A h \in Known : \A p \in ProbeIds :
        <<HostEntity(h), p>> \in SilentProbes =>
            \/ p \in Paths(h).itself
            \/ p \in Paths(h).others /\ (observe \/ Paths(h).watchers # {})

(* A role never starts a probe by itself: what an agent would schedule on  *)
(* a host is what it would schedule had its configuration named no role.   *)
RolesStartNoProbe ==
    \A h \in Hosts :
        LocalProbes(h, facts[h], Resolve(facts[h], Override[h], Roles[h]), Disabled)
            = LocalProbes(h, facts[h], Resolve(facts[h], Override[h], {}), Disabled)

(* A host whose agent has registered and then stays down for good is in    *)
(* the end listed, with the probe every agent runs.                        *)
SilenceNoticed ==
    \A h \in Hosts :
        (<>[](~agent[h].up /\ "host.metrics" \in claim[h]))
            => <>[](<<HostEntity(h), "host.metrics">> \in SilentProbes)

(* What the audit lists is what should be heard and is not: nothing that   *)
(* does not run, nothing left out, and on the paths explain shows.         *)
AuditIsExact == NamesWhatRuns /\ NoneOverlooked /\ PathsExplainAudit /\ RolesStartNoProbe
=============================================================================
