------------------------------ MODULE Inventory ------------------------------
(***************************************************************************)
(* What exists: the providers' snapshots (inventory/), the merge into one  *)
(* inventory and dependency graph (inventory/merge.rs), the discovery      *)
(* cycle and the agent registration that run it (controller/discovery.rs)  *)
(* and the inventory tables they write (persistence/entities.rs).          *)
(*                                                                         *)
(* A cycle loads the tables, merges in memory and then commits in several  *)
(* transactions; an error or a crash may fall between any two.  The        *)
(* controller lock keeps one process to one cycle or registration at a     *)
(* time; a second Worker is `sentinel discover' beside the daemon.         *)
(***************************************************************************)
EXTENDS Naturals, Sequences, Functions

CONSTANTS
    Host,         \* host names
    Worker,       \* processes with a controller over this database
    Daemon,       \* the one that takes registrations
    Declared,     \* [ents, edges]: what the configuration file declares
    Views,        \* the [nodes, ctl] that Slurm may report
    MountTables,  \* mount reports: [Host -> spellings <<"name" or "addr", server>>]
    AgentCaps,    \* [Host -> the capability sets its agent may report]
    PingMayFail,  \* whether `scontrol ping' may fail while `show nodes' works
    MaxFail       \* bound on interrupted cycles

\* No host has the name of a provider: Reporter is a disjoint union.
ASSUME InventoryAssumption ==
    /\ Daemon \in Worker
    /\ Host \cap {"static", "slurm", "nfs"} = {}

VARIABLES
    db,       \* the tables: [life, srcs, caps, edges]
    work,     \* [Worker -> the cycle or registration in progress]
    cache,    \* the daemon's storage_providers: <<host, storage>> pairs
    told,     \* [reporter -> the last snapshot of it that was saved, and all it `once' claimed]
    torn,     \* reporters not heard in full since the last interruption
    fails     \* interruptions so far

vars == <<db, work, cache, told, torn, fails>>

(***************************************************************************)
(* Entities are their natural keys, an edge its derived id.                *)
(***************************************************************************)
HostId(h) == <<"host", h>>
ServiceId(d, h) == <<"service", d, h>>
StorageId(h) == <<"storage", h>>
SchedulerId == <<"scheduler">>
EdgeId(source, target, type) == <<source, target, type>>

Reporter == {"static", "slurm", "nfs"} \cup Host
SourceOf(r) == IF r \in Host THEN "agent" ELSE r

Override(f, g) == [x \in DOMAIN f \cup DOMAIN g |-> IF x \in DOMAIN f THEN f[x] ELSE g[x]]
Only(f, S) == [x \in DOMAIN f \cap S |-> f[x]]
Critically(ids) == [id \in ids |-> "critical"]

(***************************************************************************)
(* The providers.  A snapshot is [by, ents, edges]: entries in the order   *)
(* they were added, as a sequence of functions entity -> capabilities (one *)
(* entity may have an entry in several of them, and the order within one   *)
(* is immaterial), and edge id -> criticality.                             *)
(***************************************************************************)
StaticSnapshot == [by |-> "static", ents |-> Declared.ents, edges |-> Declared.edges]

\* Hosts with the capability they are listed for, and what is found on them.
Entries(hosts, parts, cap) ==
    [e \in {HostId(h) : h \in hosts} \cup parts |-> IF e \in parts THEN {} ELSE {cap}]

SlurmSnapshot(view) ==
    [by |-> "slurm",
     ents |-> <<[e \in {SchedulerId} |-> {}],
                Entries(view.nodes, {ServiceId("slurmd", h) : h \in view.nodes}, "slurm.compute"),
                Entries(view.ctl, {ServiceId("slurmctld", h) : h \in view.ctl}, "slurm.controller")>>,
     edges |-> Override(
        Critically(
          {EdgeId(ServiceId("slurmd", h), HostId(h), "hosted_on") : h \in view.nodes}
          \cup {EdgeId(ServiceId("slurmctld", h), HostId(h), "hosted_on") : h \in view.ctl}
          \cup {EdgeId(SchedulerId, ServiceId("slurmctld", h), "provides") : h \in view.ctl}),
        [id \in {EdgeId(HostId(h), SchedulerId, "uses_scheduler") : h \in view.nodes} |-> "important"])]

AgentSnapshot(h, caps) ==
    [by |-> h, ents |-> <<[e \in {HostId(h)} |-> caps \cup {"sentinel.agent"}]>>, edges |-> Critically({})]

(***************************************************************************)
(* The storage topology: the server of a mount is a host by name, known or *)
(* not, or the host that registered the address; never the address itself. *)
(***************************************************************************)
Resolves(inv, spelled) ==
    \/ spelled[1] = "name"
    \/ /\ HostId(spelled[2]) \in DOMAIN inv.ents
       /\ "agent" \in inv.ents[HostId(spelled[2])].srcs

\* The mounts the known hosts last reported, as <<client, server>> pairs.
Mounted(inv, mounts) ==
    UNION {{<<c, s>> : s \in mounts[c]} : c \in {h \in Host : HostId(h) \in DOMAIN inv.ents}}

NfsSnapshot(inv, mounted) ==
    LET uses == {u \in mounted : Resolves(inv, u[2])}
        servers == {u[2][2] : u \in uses}
    IN [by |-> "nfs",
        ents |-> <<Entries(servers, {StorageId(h) : h \in servers}, "storage.nfs.server")>>,
        edges |-> Critically(
          {EdgeId(StorageId(h), HostId(h), "provides") : h \in servers}
          \cup {EdgeId(HostId(u[1]), StorageId(u[2][2]), "uses_storage") : u \in {v \in uses : v[1] # v[2][2]}})]

(***************************************************************************)
(* The merge.  An inventory is [ents, graph, pending]; an edge value is    *)
(* [crit, src].                                                            *)
(***************************************************************************)
Reported(snap) == UNION {DOMAIN snap.ents[i] : i \in DOMAIN snap.ents}
ClaimedFor(snap, e) == UNION {snap.ents[i][e] : i \in {j \in DOMAIN snap.ents : e \in DOMAIN snap.ents[j]}}
Claims(snap) == UNION {{<<e, c>> : c \in ClaimedFor(snap, e)} : e \in Reported(snap)}
Firm(snap) == {k \in Claims(snap) : \A i \in DOMAIN snap.ents :
                  k[1] \in DOMAIN snap.ents[i] => k[2] \in snap.ents[i][k[1]]}
Stamped(snap) == [id \in DOMAIN snap.edges |-> [crit |-> snap.edges[id], src |-> SourceOf(snap.by)]]
Endpoints(id) == {id[1], id[2]}

MergeInto(inv, snap, e) ==
    LET old == IF e \in DOMAIN inv.ents THEN inv.ents[e] ELSE [life |-> "active", srcs |-> {}, caps |-> {}]
    IN [life |-> "active",
        srcs |-> old.srcs \cup {SourceOf(snap.by)},
        caps |-> old.caps \cup ClaimedFor(snap, e)]

(* Faulty: an edge whose end is not known yet is dropped.                  *)
MergeForgetful(inv, snap) ==
    LET ents == [e \in DOMAIN inv.ents \cup Reported(snap) |->
                   IF e \in Reported(snap) THEN MergeInto(inv, snap, e) ELSE inv.ents[e]]
        known == {id \in DOMAIN snap.edges : Endpoints(id) \subseteq DOMAIN ents}
    IN [ents |-> ents, graph |-> Override(Only(Stamped(snap), known), inv.graph), pending |-> inv.pending]

Merge(inv, snap) ==
    LET ents == [e \in DOMAIN inv.ents \cup Reported(snap) |->
                   IF e \in Reported(snap) THEN MergeInto(inv, snap, e) ELSE inv.ents[e]]
        known(f) == Only(f, {id \in DOMAIN f : Endpoints(id) \subseteq DOMAIN ents})
        held(f) == Only(f, {id \in DOMAIN f : ~(Endpoints(id) \subseteq DOMAIN ents)})
    IN [ents |-> ents,
        graph |-> Override(known(inv.pending), Override(known(Stamped(snap)), inv.graph)),
        pending |-> Override(held(inv.pending), held(Stamped(snap)))]

(* Faulty: what another provider still reports is marked too.             *)
MarkAnyAbsentAsStale(inv, snap) ==
    [inv EXCEPT !.ents = [e \in DOMAIN inv.ents |->
        IF SourceOf(snap.by) \in inv.ents[e].srcs /\ e \notin Reported(snap)
        THEN [inv.ents[e] EXCEPT !.life = "stale"]
        ELSE inv.ents[e]]]

MarkAbsentAsStale(inv, snap) ==
    [inv EXCEPT !.ents = [e \in DOMAIN inv.ents |->
        IF /\ inv.ents[e].srcs = {SourceOf(snap.by)}
           /\ e \notin Reported(snap)
           /\ inv.ents[e].life = "active"
        THEN [inv.ents[e] EXCEPT !.life = "stale"]
        ELSE inv.ents[e]]]

RetractAbsent(inv, snap) ==
    [inv EXCEPT !.graph =
        Only(inv.graph, {id \in DOMAIN inv.graph :
                           inv.graph[id].src # SourceOf(snap.by) \/ id \in DOMAIN snap.edges})]

StorageProviders(inv) ==
    {<<id[2], id[1]>> : id \in {i \in DOMAIN inv.graph :
        /\ i[3] = "provides"
        /\ Endpoints(i) \subseteq DOMAIN inv.ents
        /\ i[1][1] = "storage"
        /\ i[2][1] = "host"}}

(***************************************************************************)
(* The tables.                                                             *)
(***************************************************************************)
LoadInventory ==
    [ents |-> [e \in DOMAIN db.life |->
                 [life |-> db.life[e], srcs |-> db.srcs[e], caps |-> {k[2] : k \in {j \in DOMAIN db.caps : j[1] = e}}]],
     graph |-> db.edges,
     pending |-> [id \in {} |-> "none"]]

(* Upserts only.  A capability without a row gets as its source the first  *)
(* one listed for the entity; the tables are read back in no given order.  *)
Rows(inv) == UNION {{<<e, c>> : c \in inv.ents[e].caps} : e \in DOMAIN inv.ents}
FirstSources(inv) ==
    LET new == {k[1] : k \in Rows(inv) \ DOMAIN db.caps}
    IN {f \in [new -> UNION {inv.ents[e].srcs : e \in new}] : \A e \in new : f[e] \in inv.ents[e].srcs}

SaveInventory(inv, first) ==
    [life |-> Override([e \in DOMAIN inv.ents |-> inv.ents[e].life], db.life),
     srcs |-> Override([e \in DOMAIN inv.ents |->
                          inv.ents[e].srcs \cup (IF e \in DOMAIN db.srcs THEN db.srcs[e] ELSE {})], db.srcs),
     caps |-> Override(db.caps, [k \in Rows(inv) \ DOMAIN db.caps |-> first[k[1]]]),
     edges |-> Override(inv.graph, db.edges)]

ReconcileDependencies(src, keep) ==
    [db EXCEPT !.edges = Only(db.edges, {id \in DOMAIN db.edges : db.edges[id].src # src \/ id \in keep})]

(* Faulty: the claims of other providers go with one's own.               *)
ReplaceCapabilities(e, src, caps) ==
    [db EXCEPT !.caps = Override([k \in {e} \X caps |-> src], Only(db.caps, {k \in DOMAIN db.caps : k[1] # e}))]

ReconcileCapabilities(e, src, caps) ==
    [db EXCEPT !.caps =
        Override([k \in {e} \X caps |-> src],
                 Only(db.caps, {k \in DOMAIN db.caps : k[1] # e \/ db.caps[k] # src \/ k[2] \in caps}))]

(* One reconciliation per entry of each snapshot, each its own             *)
(* transaction: <<snapshot, place, entity>>.                               *)
CapabilityJobs(snaps) ==
    UNION {UNION {{<<i, j, e>> : e \in DOMAIN snaps[i].ents[j]} : j \in DOMAIN snaps[i].ents} :
              i \in DOMAIN snaps}

(***************************************************************************)
(* The discovery cycle and the registration.                               *)
(***************************************************************************)
NoTables == [life |-> [e \in {} |-> "active"], srcs |-> [e \in {} |-> {}],
             caps |-> [k \in {} |-> "static"], edges |-> [id \in {} |-> "none"]]
Resting == [pc |-> "idle", inv |-> "none", snaps |-> <<>>, jobs |-> {}, whole |-> {}]
Silent == [ents |-> {}, claims |-> {}, firm |-> {}, once |-> {}, edges |-> {}]

Init ==
    /\ db = NoTables
    /\ work = [w \in Worker |-> Resting]
    /\ cache = {}
    /\ told = [r \in Reporter |-> Silent]
    /\ torn = {}
    /\ fails = 0

Fold(inv, snap) == MarkAbsentAsStale(Merge(inv, snap), snap)

(* Faulty: a provider that failed is taken to have reported nothing.      *)
LookTakingFailureForEmpty(w) ==
    /\ work[w].pc = "idle"
    /\ \E slurm \in Views, failed \in BOOLEAN :
         LET heard == SlurmSnapshot(IF failed THEN [nodes |-> {}, ctl |-> {}] ELSE slurm)
         IN work' = [work EXCEPT ![w] =
                      [pc |-> "save",
                       inv |-> Fold(Fold(LoadInventory, StaticSnapshot), heard),
                       snaps |-> <<StaticSnapshot, heard>>, jobs |-> {},
                       whole |-> {"static", "nfs"} \cup (IF failed THEN {} ELSE {"slurm"})]]
    /\ UNCHANGED <<db, cache, told, torn, fails>>

(* discover_once up to its first write: load, every provider, the storage  *)
(* topology.  A failed provider contributes no snapshot.  `whole' is who   *)
(* answered in full.                                                       *)
Look(w) ==
    /\ work[w].pc = "idle"
    /\ \E slurm \in Views, mounts \in MountTables,
          answer \in {"ok", "failed"} \cup (IF PingMayFail THEN {"no ping"} ELSE {}) :
         LET view == IF answer = "no ping" THEN [slurm EXCEPT !.ctl = {}] ELSE slurm
             providers == IF answer = "failed" THEN <<StaticSnapshot>> ELSE <<StaticSnapshot, SlurmSnapshot(view)>>
             declared == Fold(LoadInventory, StaticSnapshot)
             looked == IF answer = "failed" THEN declared ELSE Fold(declared, SlurmSnapshot(view))
             topology == NfsSnapshot(looked, Mounted(looked, mounts))
         IN work' = [work EXCEPT ![w] =
                      [pc |-> "deps",
                       inv |-> RetractAbsent(Fold(looked, topology), topology),
                       snaps |-> Append(providers, topology),
                       jobs |-> {},
                       whole |-> {"static", "nfs"} \cup (IF answer = "ok" THEN {"slurm"} ELSE {})]]
    /\ UNCHANGED <<db, cache, told, torn, fails>>

\* The derivation runs last.
Topology(snaps) == snaps[Len(snaps)]

ReconcileEdges(w) ==
    /\ work[w].pc = "deps"
    /\ db' = ReconcileDependencies("nfs", DOMAIN Topology(work[w].snaps).edges)
    /\ work' = [work EXCEPT ![w].pc = "save"]
    /\ UNCHANGED <<cache, told, torn, fails>>

Heard(snaps) ==
    [r \in Reporter |->
        IF \E t \in Range(snaps) : t.by = r
        THEN LET s == CHOOSE t \in Range(snaps) : t.by = r
             IN [ents |-> Reported(s), claims |-> Claims(s), firm |-> Firm(s),
                 once |-> told[r].once \cup Claims(s), edges |-> DOMAIN s.edges]
        ELSE told[r]]

(* With no reconciliation left the cycle ends and refreshes the cache.     *)
Proceed(w, left) ==
    /\ work' = [work EXCEPT ![w] = IF left = {} THEN Resting ELSE [@ EXCEPT !.pc = "caps", !.jobs = left]]
    /\ cache' = IF left = {} /\ w = Daemon THEN StorageProviders(work[w].inv) ELSE cache
    /\ torn' = IF left = {} THEN torn \ work[w].whole ELSE torn

Save(w) ==
    /\ work[w].pc = "save"
    /\ \E first \in FirstSources(work[w].inv) :
         db' = SaveInventory(work[w].inv, first)
    /\ told' = Heard(work[w].snaps)
    /\ Proceed(w, CapabilityJobs(work[w].snaps))
    /\ UNCHANGED fails

\* Jobs in the order of the snapshots and of the places in each.
Before(p, q) == p[1] < q[1] \/ (p[1] = q[1] /\ p[2] <= q[2])

ReconcileClaims(w) ==
    /\ work[w].pc = "caps"
    /\ \E p \in work[w].jobs :
          /\ \A q \in work[w].jobs : Before(p, q)
          /\ LET snap == work[w].snaps[p[1]]
             IN  db' = ReconcileCapabilities(p[3], SourceOf(snap.by), snap.ents[p[2]][p[3]])
          /\ Proceed(w, work[w].jobs \ {p})
    /\ UNCHANGED <<told, fails>>

Register(h, caps) ==
    /\ work[Daemon].pc = "idle"
    /\ work' = [work EXCEPT ![Daemon] =
                 [pc |-> "save", inv |-> Merge(LoadInventory, AgentSnapshot(h, caps)),
                  snaps |-> <<AgentSnapshot(h, caps)>>, jobs |-> {}, whole |-> {h}]]
    /\ UNCHANGED <<db, cache, told, torn, fails>>

(* A transaction fails and the cycle returns its error.                    *)
Interrupt(w) ==
    /\ work[w].pc # "idle"
    /\ fails < MaxFail
    /\ fails' = fails + 1
    /\ work' = [work EXCEPT ![w] = Resting]
    /\ torn' = Reporter
    /\ UNCHANGED <<db, cache, told>>

(* The daemon dies, in or between cycles, and Controller::new rebuilds.    *)
Restart ==
    /\ fails < MaxFail
    /\ fails' = fails + 1
    /\ torn' = IF work[Daemon].pc = "idle" THEN torn ELSE Reporter
    /\ work' = [work EXCEPT ![Daemon] = Resting]
    /\ cache' = StorageProviders(LoadInventory)
    /\ UNCHANGED <<db, told>>

Next ==
    \/ \E w \in Worker : Look(w) \/ ReconcileEdges(w) \/ Save(w) \/ ReconcileClaims(w) \/ Interrupt(w)
    \/ \E h \in Host : \E caps \in AgentCaps[h] : Register(h, caps)
    \/ Restart

Spec == Init /\ [][Next]_vars

-----------------------------------------------------------------------------
(***************************************************************************)
(* Properties.                                                             *)
(***************************************************************************)
Quiet == \A w \in Worker : work[w].pc = "idle"

(* The tables hold entities with sources, capabilities of known entities.  *)
TypeOK ==
    /\ DOMAIN db.srcs = DOMAIN db.life
    /\ \A e \in DOMAIN db.life : db.life[e] \in {"active", "stale"} /\ db.srcs[e] # {}
    /\ \A k \in DOMAIN db.caps : k[1] \in DOMAIN db.life
    /\ \A w \in Worker : work[w].pc \in {"idle", "deps", "save", "caps"}
    /\ torn \subseteq Reporter
    /\ fails \in 0..MaxFail

(* The stored graph never names an entity that was never written, wherever *)
(* a cycle stops (save_inventory, offer_edge).                             *)
GraphClosed == \A id \in DOMAIN db.edges : Endpoints(id) \subseteq DOMAIN db.life

(* An entity only one provider knows goes stale only in a cycle in which   *)
(* that provider was heard in full: not being able to look is not "gone"   *)
(* (discover_once, mark_absent_as_stale).                                  *)
UnseenIsNotGone ==
    [][\A e \in DOMAIN db.life : \A s \in {"static", "slurm", "nfs"} :
          (db.srcs[e] = {s} /\ db.life[e] = "active" /\ db'.life[e] = "stale")
            => \E w \in Worker : work[w].pc = "save" /\ s \in work[w].whole]_vars

(* A stale entity is one that nobody's last saved snapshot holds           *)
(* (mark_absent_as_stale spares what another provider reports).            *)
StaleIsUnreported ==
    \A e \in DOMAIN db.life : db.life[e] = "stale" => \A r \in Reporter : e \notin told[r].ents

(* After an uninterrupted cycle the derived storage edges are exactly the  *)
(* ones the last mount reports give: a node that moved to another server   *)
(* no longer hangs off the first (retract_absent_dependencies and          *)
(* reconcile_dependencies have to agree).  A declared edge may keep its    *)
(* own source.                                                             *)
DerivedEdgesCurrent ==
    (Quiet /\ "nfs" \notin torn)
      => /\ \A id \in DOMAIN db.edges : db.edges[id].src = "nfs" => id \in told["nfs"].edges
         /\ \A id \in told["nfs"].edges :
               id \in DOMAIN db.edges /\ (db.edges[id].src = "nfs" \/ id \in DOMAIN Declared.edges)

(* And every declared edge between entities the providers reported is      *)
(* still there, although the derivation may own its row when it retracts   *)
(* it, and the provider that knows an endpoint may run later or fail.      *)
DeclaredEdgesKept ==
    (Quiet /\ "static" \notin torn)
      => \A id \in told["static"].edges :
            Endpoints(id) \subseteq UNION {told[r].ents : r \in Reporter \ Host} => id \in DOMAIN db.edges

(* A capability outlives nobody's claim: one attributed to a provider that *)
(* still reports the entity is one that provider still claims              *)
(* (reconcile_capabilities).                                               *)
ClaimsRetracted ==
    Quiet => \A k \in DOMAIN db.caps : \A r \in Reporter \ torn :
                (SourceOf(r) = db.caps[k] /\ k[1] \in told[r].ents) => k \in told[r].claims

(* And what a provider's last snapshot claims is stored: one provider      *)
(* going quiet cannot delete another's findings (reconcile_capabilities).  *)
(* Two kinds of claim are not covered: one that another provider made too, *)
(* as the row belongs to whoever claimed it last; and one that a later     *)
(* entry of the same snapshot about the same entity leaves out, as each    *)
(* entry is reconciled by itself.                                          *)
ClaimsKept ==
    Quiet => \A r \in Reporter \ torn : \A k \in told[r].firm :
                (\A q \in Reporter \ {r} : k \notin told[q].once) => k \in DOMAIN db.caps

(* The daemon re-aims server observations at the storage domains the       *)
(* stored graph names (storage_providers, storage_views).                  *)
CacheFresh ==
    (Quiet /\ torn = {}) => cache = StorageProviders(LoadInventory)

(* The stored graph follows what was last reported, and what is derived    *)
(* from it follows the graph.                                              *)
EdgesFollowReports == GraphClosed /\ DerivedEdgesCurrent /\ DeclaredEdgesKept /\ CacheFresh

(* The stored capabilities are the last claims of those who report.        *)
ClaimsFollowReports == ClaimsRetracted /\ ClaimsKept
=============================================================================
