--------------------------- MODULE InventoryProofs ---------------------------
(***************************************************************************)
(* For every set of hosts, every declaration, every answer of Slurm and of *)
(* the agents, and any number of interruptions: the stored graph never     *)
(* names an unknown entity; an entity in anybody's last snapshot is not    *)
(* stale; an entity goes stale only when its provider was heard; and       *)
(* between cycles the derived edges and the claimed capabilities in the    *)
(* tables are the ones last reported.                                      *)
(*                                                                         *)
(* The first holds for any number of processes over one database; the      *)
(* others for one, since a second saves what it loaded before the first    *)
(* wrote.  They rest on what a merged inventory keeps of the tables it was *)
(* loaded from and of the snapshots it has taken in (no source is dropped, *)
(* what is stale was reported by none of them, no edge or capability comes *)
(* from elsewhere), and, for the claims, on what the reconciliations still *)
(* to come will see to.                                                    *)
(***************************************************************************)
EXTENDS Inventory, TLAPS

\* Most steps are first-order: Zenon, unless a step says otherwise.
USE Zenon

Fields == {"pc", "inv", "snaps", "jobs", "whole"}
Parts == {"ents", "graph", "pending"}
Facts == {"life", "srcs", "caps"}
Tables == {"life", "srcs", "caps", "edges"}

-----------------------------------------------------------------------------
(* The graph.                                                              *)

\* An inventory whose edges run between its entities.
Closed(inv) ==
    /\ DOMAIN inv = Parts
    /\ \A e \in DOMAIN inv.ents : DOMAIN inv.ents[e] = Facts
    /\ \A id \in DOMAIN inv.graph : Endpoints(id) \subseteq DOMAIN inv.ents

GInv ==
    /\ DOMAIN work = Worker /\ DOMAIN db = Tables
    /\ \A w \in Worker : DOMAIN work[w] = Fields
    /\ \A w \in Worker : work[w].pc # "idle" => Closed(work[w].inv)
    /\ GraphClosed

\* What is loaded from the tables is closed.
LEMMA LoadClosed ==
    ASSUME GraphClosed PROVE Closed(LoadInventory)
<1>1. /\ DOMAIN LoadInventory = Parts
      /\ LoadInventory.graph = db.edges
      /\ DOMAIN LoadInventory.ents = DOMAIN db.life
  BY DEF LoadInventory, Parts
<1>2. \A e \in DOMAIN db.life : DOMAIN LoadInventory.ents[e] = Facts
  BY DEF LoadInventory, Facts
<1> QED BY <1>1, <1>2 DEF Closed, GraphClosed

\* What a merge makes of the entities.
LEMMA MergeEnts ==
    ASSUME NEW inv, NEW snap
    PROVE  /\ DOMAIN Merge(inv, snap) = Parts
           /\ DOMAIN Merge(inv, snap).ents = DOMAIN inv.ents \cup Reported(snap)
           /\ \A e \in DOMAIN inv.ents \cup Reported(snap) :
                 Merge(inv, snap).ents[e] =
                    IF e \in Reported(snap) THEN MergeInto(inv, snap, e) ELSE inv.ents[e]
  BY DEF Merge, Parts

\* Merging leaves no edge without its ends.
LEMMA MergeGraph ==
    ASSUME NEW inv, NEW snap,
           \A id \in DOMAIN inv.graph : Endpoints(id) \subseteq DOMAIN inv.ents
    PROVE  \A id \in DOMAIN Merge(inv, snap).graph : Endpoints(id) \subseteq DOMAIN Merge(inv, snap).ents
<1> DEFINE ents == [e \in DOMAIN inv.ents \cup Reported(snap) |->
                      IF e \in Reported(snap) THEN MergeInto(inv, snap, e) ELSE inv.ents[e]]
           known(f) == Only(f, {id \in DOMAIN f : Endpoints(id) \subseteq DOMAIN ents})
<1>1. Merge(inv, snap).graph = Override(known(inv.pending), Override(known(Stamped(snap)), inv.graph))
  BY DEF Merge
<1>2. DOMAIN ents = DOMAIN inv.ents \cup Reported(snap)
  OBVIOUS
<1> HIDE DEF ents
<1>3. \A f : \A id \in DOMAIN known(f) : Endpoints(id) \subseteq DOMAIN ents
  BY DEF Only
<1> HIDE DEF known
<1>4. DOMAIN Merge(inv, snap).graph
        = DOMAIN known(inv.pending) \cup (DOMAIN known(Stamped(snap)) \cup DOMAIN inv.graph)
  BY <1>1 DEF Override
<1>5. DOMAIN Merge(inv, snap).ents = DOMAIN ents
  BY <1>2, MergeEnts
<1> QED BY <1>2, <1>3, <1>4, <1>5

\* Merging keeps the graph closed.
LEMMA MergeClosed ==
    ASSUME NEW inv, NEW snap, Closed(inv) PROVE Closed(Merge(inv, snap))
<1>1. \A e \in Reported(snap) : DOMAIN MergeInto(inv, snap, e) = Facts
  BY DEF MergeInto, Facts
<1> QED BY SMT, <1>1, MergeEnts, MergeGraph DEF Closed

\* Marking changes no more than lives.
LEMMA MarkEnts ==
    ASSUME NEW inv, NEW snap, Closed(inv)
    PROVE  /\ Closed(MarkAbsentAsStale(inv, snap))
           /\ DOMAIN MarkAbsentAsStale(inv, snap).ents = DOMAIN inv.ents
           /\ MarkAbsentAsStale(inv, snap).graph = inv.graph
           /\ MarkAbsentAsStale(inv, snap).pending = inv.pending
           /\ \A e \in DOMAIN inv.ents :
                 /\ MarkAbsentAsStale(inv, snap).ents[e].srcs = inv.ents[e].srcs
                 /\ MarkAbsentAsStale(inv, snap).ents[e].caps = inv.ents[e].caps
                 /\ MarkAbsentAsStale(inv, snap).ents[e].life =
                       IF /\ inv.ents[e].srcs = {SourceOf(snap.by)}
                          /\ e \notin Reported(snap)
                          /\ inv.ents[e].life = "active"
                       THEN "stale" ELSE inv.ents[e].life
<1> DEFINE absent(e) == /\ inv.ents[e].srcs = {SourceOf(snap.by)}
                        /\ e \notin Reported(snap)
                        /\ inv.ents[e].life = "active"
           ents == [e \in DOMAIN inv.ents |->
                      IF absent(e) THEN [inv.ents[e] EXCEPT !.life = "stale"] ELSE inv.ents[e]]
           marked == [inv EXCEPT !.ents = ents]
<1>1. MarkAbsentAsStale(inv, snap) = marked
  BY DEF MarkAbsentAsStale
<1>2. ASSUME NEW e \in DOMAIN inv.ents
      PROVE  /\ DOMAIN ents[e] = Facts /\ ents[e].srcs = inv.ents[e].srcs /\ ents[e].caps = inv.ents[e].caps
             /\ ents[e].life = IF absent(e) THEN "stale" ELSE inv.ents[e].life
  <2> DEFINE x == inv.ents[e]
  <2>1. DOMAIN x = Facts
    BY DEF Closed
  <2>2. ents[e] = IF absent(e) THEN [x EXCEPT !.life = "stale"] ELSE x
    OBVIOUS
  <2> HIDE DEF x, ents
  <2>3. /\ DOMAIN [x EXCEPT !.life = "stale"] = Facts
        /\ [x EXCEPT !.life = "stale"].srcs = x.srcs /\ [x EXCEPT !.life = "stale"].caps = x.caps
        /\ [x EXCEPT !.life = "stale"].life = "stale"
    BY <2>1 DEF Facts
  <2>4. /\ DOMAIN ents[e] = Facts /\ ents[e].srcs = x.srcs /\ ents[e].caps = x.caps
        /\ ents[e].life = IF absent(e) THEN "stale" ELSE x.life
    BY <2>1, <2>2, <2>3
  <2> QED BY <2>4 DEF x
<1>3. DOMAIN ents = DOMAIN inv.ents
  OBVIOUS
<1> HIDE DEF ents
<1>4. DOMAIN inv = Parts
  BY DEF Closed
<1>5. /\ DOMAIN marked = Parts /\ marked.ents = ents
      /\ marked.graph = inv.graph /\ marked.pending = inv.pending
  BY <1>4 DEF Parts
<1> HIDE DEF marked
<1> QED BY <1>1, <1>2, <1>3, <1>5 DEF Closed

\* Retracting a source removes no entity and keeps the graph closed.
LEMMA RetractEnts ==
    ASSUME NEW inv, NEW snap, Closed(inv)
    PROVE  /\ Closed(RetractAbsent(inv, snap)) /\ RetractAbsent(inv, snap).ents = inv.ents
           /\ RetractAbsent(inv, snap).graph =
                 Only(inv.graph, {id \in DOMAIN inv.graph :
                                    inv.graph[id].src # SourceOf(snap.by) \/ id \in DOMAIN snap.edges})
<1> DEFINE keep == {id \in DOMAIN inv.graph :
                      inv.graph[id].src # SourceOf(snap.by) \/ id \in DOMAIN snap.edges}
           graph == Only(inv.graph, keep)
           left == [inv EXCEPT !.graph = graph]
<1>1. RetractAbsent(inv, snap) = left
  BY DEF RetractAbsent
<1>2. DOMAIN graph \subseteq DOMAIN inv.graph
  BY DEF Only
<1> HIDE DEF graph
<1>3. DOMAIN inv = Parts
  BY DEF Closed
<1>4. DOMAIN left = Parts /\ left.ents = inv.ents /\ left.graph = graph
  BY <1>3 DEF Parts
<1> HIDE DEF left
<1>5. Closed(left)
  BY <1>2, <1>4 DEF Closed
<1> QED BY <1>1, <1>4, <1>5 DEF graph

\* Folding a snapshot in, merge and mark, keeps an inventory closed.
LEMMA FoldClosed ==
    ASSUME NEW inv, NEW snap, Closed(inv) PROVE Closed(Fold(inv, snap))
  BY MergeClosed, MarkEnts DEF Fold

\* The members of a sequence grown by one, and its last.
LEMMA RangeAppend ==
    ASSUME NEW U, NEW s \in Seq(U), NEW t \in U
    PROVE  Range(Append(s, t)) = Range(s) \cup {t} /\ Topology(Append(s, t)) = t
<1>1. /\ DOMAIN s = 1..Len(s) /\ Len(s) \in Nat
      /\ DOMAIN Append(s, t) = 1..(Len(s) + 1) /\ Append(s, t)[Len(s) + 1] = t
      /\ \A i \in 1..Len(s) : Append(s, t)[i] = s[i]
  BY SMT
<1>2. \A i : i \in 1..(Len(s) + 1) <=> i \in 1..Len(s) \/ i = Len(s) + 1
  BY SMT, <1>1
<1>3. Range(Append(s, t)) = Range(s) \cup {t}
  BY <1>1, <1>2 DEF Range
<1>4. Len(Append(s, t)) = Len(s) + 1
  BY SMT
<1> QED BY <1>1, <1>3, <1>4 DEF Topology

\* The members of a pair.
LEMMA RangeOfTwo ==
    ASSUME NEW a, NEW c
    PROVE  Range(Append(<<a>>, c)) = {a, c} /\ Topology(Append(<<a>>, c)) = c
<1> DEFINE U == {a, c}
           s == <<a>>
<1>1. Range(s) = {a}
  <2>1. DOMAIN s = {1} /\ s[1] = a
    BY SMT
  <2> QED BY <2>1 DEF Range
<1>2. a \in U /\ c \in U
  OBVIOUS
<1> HIDE DEF U
<1>3. s \in Seq(U)
  BY SMT, <1>2
<1> HIDE DEF s
<1>4. Range(Append(s, c)) = {a} \cup {c} /\ Topology(Append(s, c)) = c
  BY SMT, <1>1, <1>2, <1>3, RangeAppend
<1> QED BY <1>4 DEF s

\* The members of a triple.
LEMMA RangeOfThree ==
    ASSUME NEW a, NEW b, NEW c
    PROVE  Range(Append(<<a, b>>, c)) = {a, b, c} /\ Topology(Append(<<a, b>>, c)) = c
<1> DEFINE U == {a, b, c}
           s == <<a, b>>
<1>1. Range(s) = {a, b}
  <2>1. DOMAIN s = {1, 2} /\ s[1] = a /\ s[2] = b
    BY SMT
  <2> QED BY <2>1 DEF Range
<1>2. a \in U /\ b \in U /\ c \in U
  OBVIOUS
<1> HIDE DEF U
<1>3. s \in Seq(U)
  BY SMT, <1>2
<1> HIDE DEF s
<1>4. Range(Append(s, c)) = {a, b} \cup {c} /\ Topology(Append(s, c)) = c
  BY SMT, <1>1, <1>2, <1>3, RangeAppend
<1> QED BY <1>4 DEF s

\* Every edge of a topology runs between entities that it reports or that were known.
DerivedFrom(inv, topology) ==
    \A id \in DOMAIN topology.edges : Endpoints(id) \subseteq DOMAIN inv.ents \cup Reported(topology)

\* What the topology pass reports is derived from the inventory it read.
LEMMA NfsDerived ==
    ASSUME NEW inv, NEW mounts
    PROVE  DerivedFrom(inv, NfsSnapshot(inv, Mounted(inv, mounts)))
<1> DEFINE uses == {u \in Mounted(inv, mounts) : Resolves(inv, u[2])}
           servers == {u[2][2] : u \in uses}
           provided == {EdgeId(StorageId(h), HostId(h), "provides") : h \in servers}
           used == {EdgeId(HostId(u[1]), StorageId(u[2][2]), "uses_storage") : u \in {v \in uses : v[1] # v[2][2]}}
           found == Entries(servers, {StorageId(h) : h \in servers}, "storage.nfs.server")
           edges == Critically(provided \cup used)
           topology == NfsSnapshot(inv, Mounted(inv, mounts))
           ents == <<found>>
<1>1. topology = [by |-> "nfs", ents |-> ents, edges |-> edges]
  BY DEF NfsSnapshot
<1>2. \A u \in uses : HostId(u[1]) \in DOMAIN inv.ents
  BY SMT DEF Mounted
<1>3. DOMAIN found = {HostId(h) : h \in servers} \cup {StorageId(h) : h \in servers}
  BY DEF Entries
<1>4. DOMAIN edges = provided \cup used
  BY DEF Critically
<1> HIDE DEF found, edges, topology
<1>5. DOMAIN ents = {1} /\ ents[1] = found
  BY SMT
<1> HIDE DEF ents
<1>6. Reported(topology) = DOMAIN found
  BY <1>1, <1>5 DEF Reported
<1>7. \A id \in provided : Endpoints(id) \subseteq DOMAIN found
  BY SMT, <1>3 DEF EdgeId, Endpoints
<1>8. \A id \in used : Endpoints(id) \subseteq DOMAIN inv.ents \cup DOMAIN found
  BY SMT, <1>2, <1>3 DEF EdgeId, Endpoints
<1> HIDE DEF provided, used
<1>9. topology.edges = edges
  BY <1>1
<1>10. DerivedFrom(inv, topology)
  BY <1>4, <1>6, <1>7, <1>8, <1>9 DEF DerivedFrom
<1> QED BY <1>10 DEF topology

\* What a cycle holds when it has looked: an inventory that took in the declared
\* snapshot, that of Slurm if it answered, and the topology, in this order.
Looked(job, view, topology) ==
    LET declared == Fold(LoadInventory, StaticSnapshot)
        full == Fold(declared, SlurmSnapshot(view))
    IN  /\ DOMAIN job = Fields /\ job.pc = "deps" /\ job.jobs = {}
        /\ topology.by = "nfs" /\ Topology(job.snaps) = topology
        /\ {"static", "nfs"} \subseteq job.whole
        /\ \/ /\ job.inv = RetractAbsent(Fold(declared, topology), topology)
              /\ DerivedFrom(declared, topology)
              /\ Range(job.snaps) = {StaticSnapshot, topology}
              /\ job.whole = {"static", "nfs"}
           \/ /\ job.inv = RetractAbsent(Fold(full, topology), topology)
              /\ DerivedFrom(full, topology)
              /\ Range(job.snaps) = {StaticSnapshot, SlurmSnapshot(view), topology}
              /\ job.whole \subseteq {"static", "slurm", "nfs"}
              /\ ~PingMayFail => "slurm" \in job.whole

\* What one discovery leaves in memory: the merged inventory and its snapshots.
LEMMA LookIs ==
    ASSUME NEW w \in Worker, Look(w), GInv
    PROVE  \E view, topology, job : work' = [work EXCEPT ![w] = job] /\ Looked(job, view, topology)
<1>1. PICK slurm \in Views, mounts \in MountTables,
           answer \in {"ok", "failed"} \cup (IF PingMayFail THEN {"no ping"} ELSE {}) :
         LET view == IF answer = "no ping" THEN [slurm EXCEPT !.ctl = {}] ELSE slurm
             providers == IF answer = "failed" THEN <<StaticSnapshot>> ELSE <<StaticSnapshot, SlurmSnapshot(view)>>
             declared == Fold(LoadInventory, StaticSnapshot)
             looked == IF answer = "failed" THEN declared ELSE Fold(declared, SlurmSnapshot(view))
             topology == NfsSnapshot(looked, Mounted(looked, mounts))
         IN work' = [work EXCEPT ![w] =
                      [pc |-> "deps",
                       inv |-> RetractAbsent(Fold(looked, topology), topology),
                       snaps |-> Append(providers, topology),
                       jobs |-> {},
                       whole |-> {"static", "nfs"} \cup (IF answer = "ok" THEN {"slurm"} ELSE {})]]
  BY DEF Look
<1> DEFINE view == IF answer = "no ping" THEN [slurm EXCEPT !.ctl = {}] ELSE slurm
           static == StaticSnapshot
           heard == SlurmSnapshot(view)
           providers == IF answer = "failed" THEN <<static>> ELSE <<static, heard>>
           declared == Fold(LoadInventory, static)
           looked == IF answer = "failed" THEN declared ELSE Fold(declared, heard)
           topology == NfsSnapshot(looked, Mounted(looked, mounts))
           merged == RetractAbsent(Fold(looked, topology), topology)
           snaps == Append(providers, topology)
           whole == {"static", "nfs"} \cup (IF answer = "ok" THEN {"slurm"} ELSE {})
           job == [pc |-> "deps", inv |-> merged, snaps |-> snaps, jobs |-> {}, whole |-> whole]
<1>2. work' = [work EXCEPT ![w] = job]
  BY <1>1
<1>3. topology.by = "nfs" /\ DerivedFrom(looked, topology)
  <2>1. topology.by = "nfs"
    BY DEF NfsSnapshot
  <2> HIDE DEF looked
  <2>2. DerivedFrom(looked, topology)
    BY NfsDerived
  <2> QED BY <2>1, <2>2
<1> HIDE DEF topology, static, heard
<1>4. /\ Range(snaps) = IF answer = "failed" THEN {static, topology} ELSE {static, heard, topology}
      /\ Topology(snaps) = topology
  <2>1. /\ Range(Append(<<static>>, topology)) = {static, topology}
        /\ Topology(Append(<<static>>, topology)) = topology
    BY RangeOfTwo
  <2> DEFINE pair == <<static, heard>>
  <2>2. \A b, c : LET s == Append(<<static, b>>, c) IN Range(s) = {static, b, c} /\ Topology(s) = c
    BY RangeOfThree
  <2>3. Range(Append(pair, topology)) = {static, heard, topology} /\ Topology(Append(pair, topology)) = topology
    BY <2>2
  <2> QED BY <2>1, <2>3
<1>6. /\ {"static", "nfs"} \subseteq whole /\ whole \subseteq {"static", "slurm", "nfs"}
      /\ answer = "failed" => whole = {"static", "nfs"}
      /\ ~PingMayFail /\ answer # "failed" => "slurm" \in whole
  OBVIOUS
<1>7. looked = IF answer = "failed" THEN declared ELSE Fold(declared, heard)
  OBVIOUS
<1> HIDE DEF snaps, whole, declared, looked
<1>8. merged = RetractAbsent(Fold(looked, topology), topology)
  OBVIOUS
<1> HIDE DEF merged
<1>9. /\ DOMAIN job = Fields /\ job.pc = "deps" /\ job.inv = merged /\ job.snaps = snaps
      /\ job.whole = whole /\ job.jobs = {}
  BY DEF Fields
<1> HIDE DEF job, view
<1>10. CASE answer = "failed"
  <2>1. looked = declared
    BY <1>7, <1>10
  <2>2. Looked(job, view, topology)
    BY <1>3, <1>4, <1>6, <1>8, <1>9, <1>10, <2>1 DEF static, declared, Looked
  <2> QED BY <1>2, <2>2
<1>11. CASE answer # "failed"
  <2>1. looked = Fold(declared, heard)
    BY <1>7, <1>11
  <2>2. Looked(job, view, topology)
    BY <1>3, <1>4, <1>6, <1>8, <1>9, <1>11, <2>1 DEF static, declared, heard, Looked
  <2> QED BY <1>2, <2>2
<1> QED BY <1>10, <1>11

\* A worker that takes up new work.
LEMMA WorkGInv ==
    ASSUME GInv, NEW w \in Worker, NEW job, work' = [work EXCEPT ![w] = job], db' = db,
           DOMAIN job = Fields, job.pc # "idle" => Closed(job.inv)
    PROVE  GInv'
<1>1. DOMAIN work' = Worker /\ work'[w] = job /\ \A v \in Worker : v # w => work'[v] = work[v]
  BY DEF GInv
<1> QED BY <1>1 DEF GInv, GraphClosed

\* A worker at rest has nothing in hand.
LEMMA RestingIdle == DOMAIN Resting = Fields /\ Resting.pc = "idle"
  BY DEF Resting, Fields

\* An empty database has a closed graph.
LEMMA InitGInv == Init => GInv
<1> SUFFICES ASSUME Init PROVE GInv
  OBVIOUS
<1>1. DOMAIN NoTables = Tables /\ DOMAIN NoTables.edges = {}
  BY DEF NoTables, Tables
<1> HIDE DEF NoTables, Resting
<1> QED BY <1>1, RestingIdle DEF Init, GInv, GraphClosed

\* A discovery reads a closed graph and merges into one.
LEMMA LookGInv == \A w \in Worker : GInv /\ Look(w) => GInv'
<1> SUFFICES ASSUME NEW w \in Worker, GInv, Look(w) PROVE GInv'
  OBVIOUS
<1> DEFINE declared == Fold(LoadInventory, StaticSnapshot)
<1>0. PICK view, topology, job : work' = [work EXCEPT ![w] = job] /\ Looked(job, view, topology)
  BY LookIs
<1>1. /\ DOMAIN job = Fields
      /\ \/ job.inv = RetractAbsent(Fold(declared, topology), topology)
         \/ job.inv = RetractAbsent(Fold(Fold(declared, SlurmSnapshot(view)), topology), topology)
  BY <1>0 DEF Looked
<1>2. Closed(declared)
  BY LoadClosed, FoldClosed DEF GInv
<1> HIDE DEF declared
<1>3. Closed(Fold(declared, SlurmSnapshot(view)))
  BY <1>2, FoldClosed
<1>4. Closed(job.inv)
  BY <1>1, <1>2, <1>3, FoldClosed, RetractEnts
<1>5. db' = db
  BY DEF Look
<1> QED BY <1>0, <1>1, <1>4, <1>5, WorkGInv

\* The tables after a write.
LEMMA SavedTables ==
    ASSUME NEW inv, NEW first
    PROVE  LET saved == SaveInventory(inv, first) IN
           /\ DOMAIN saved = Tables
           /\ DOMAIN saved.life = DOMAIN inv.ents \cup DOMAIN db.life
           /\ DOMAIN saved.srcs = DOMAIN inv.ents \cup DOMAIN db.srcs
           /\ DOMAIN saved.edges = DOMAIN inv.graph \cup DOMAIN db.edges
           /\ \A e \in DOMAIN inv.ents :
                 /\ saved.life[e] = inv.ents[e].life
                 /\ saved.srcs[e] = inv.ents[e].srcs \cup (IF e \in DOMAIN db.srcs THEN db.srcs[e] ELSE {})
           /\ \A e \in DOMAIN db.life \ DOMAIN inv.ents : saved.life[e] = db.life[e]
           /\ \A e \in DOMAIN db.srcs \ DOMAIN inv.ents : saved.srcs[e] = db.srcs[e]
<1> DEFINE life == [e \in DOMAIN inv.ents |-> inv.ents[e].life]
           srcs == [e \in DOMAIN inv.ents |->
                      inv.ents[e].srcs \cup (IF e \in DOMAIN db.srcs THEN db.srcs[e] ELSE {})]
           saved == SaveInventory(inv, first)
<1>1. /\ DOMAIN saved = Tables /\ saved.life = Override(life, db.life) /\ saved.srcs = Override(srcs, db.srcs)
      /\ saved.edges = Override(inv.graph, db.edges)
  BY DEF SaveInventory, Tables
<1> HIDE DEF saved
<1>2. /\ DOMAIN Override(life, db.life) = DOMAIN inv.ents \cup DOMAIN db.life
      /\ \A e \in DOMAIN inv.ents : Override(life, db.life)[e] = inv.ents[e].life
      /\ \A e \in DOMAIN db.life \ DOMAIN inv.ents : Override(life, db.life)[e] = db.life[e]
  BY DEF Override
<1>3. /\ DOMAIN Override(srcs, db.srcs) = DOMAIN inv.ents \cup DOMAIN db.srcs
      /\ \A e \in DOMAIN inv.ents :
            Override(srcs, db.srcs)[e] = inv.ents[e].srcs \cup (IF e \in DOMAIN db.srcs THEN db.srcs[e] ELSE {})
      /\ \A e \in DOMAIN db.srcs \ DOMAIN inv.ents : Override(srcs, db.srcs)[e] = db.srcs[e]
  BY DEF Override
<1>4. DOMAIN Override(inv.graph, db.edges) = DOMAIN inv.graph \cup DOMAIN db.edges
  BY DEF Override
<1>5. /\ DOMAIN saved = Tables
      /\ DOMAIN saved.life = DOMAIN inv.ents \cup DOMAIN db.life
      /\ DOMAIN saved.srcs = DOMAIN inv.ents \cup DOMAIN db.srcs
      /\ DOMAIN saved.edges = DOMAIN inv.graph \cup DOMAIN db.edges
      /\ \A e \in DOMAIN inv.ents :
            /\ saved.life[e] = inv.ents[e].life
            /\ saved.srcs[e] = inv.ents[e].srcs \cup (IF e \in DOMAIN db.srcs THEN db.srcs[e] ELSE {})
      /\ \A e \in DOMAIN db.life \ DOMAIN inv.ents : saved.life[e] = db.life[e]
      /\ \A e \in DOMAIN db.srcs \ DOMAIN inv.ents : saved.srcs[e] = db.srcs[e]
  BY <1>1, <1>2, <1>3, <1>4
<1> QED BY <1>5 DEF saved

\* Reconciling the edges of a source only removes edges.
LEMMA ReconciledEdges ==
    ASSUME DOMAIN db = Tables, NEW src, NEW keep
    PROVE  LET kept == ReconcileDependencies(src, keep) IN
           /\ DOMAIN kept = Tables /\ kept.life = db.life /\ kept.srcs = db.srcs
           /\ DOMAIN kept.edges \subseteq DOMAIN db.edges
<1>1. ASSUME NEW x PROVE LET kept == [db EXCEPT !.edges = x] IN
                         /\ DOMAIN kept = Tables /\ kept.life = db.life /\ kept.srcs = db.srcs /\ kept.edges = x
  BY DEF Tables
<1>2. \A S : DOMAIN Only(db.edges, S) \subseteq DOMAIN db.edges
  BY DEF Only
<1> QED BY <1>1, <1>2 DEF ReconcileDependencies

\* Reconciling claims touches the capability table alone.
LEMMA ReconciledClaims ==
    ASSUME DOMAIN db = Tables, NEW e, NEW src, NEW caps
    PROVE  LET kept == ReconcileCapabilities(e, src, caps) IN
           /\ DOMAIN kept = Tables /\ kept.life = db.life /\ kept.srcs = db.srcs
           /\ kept.edges = db.edges
<1>1. ASSUME NEW x PROVE LET kept == [db EXCEPT !.caps = x] IN
                         /\ DOMAIN kept = Tables /\ kept.life = db.life /\ kept.srcs = db.srcs
                         /\ kept.edges = db.edges
  BY DEF Tables
<1> QED BY <1>1 DEF ReconcileCapabilities

\* A worker that goes on with its work.
LEMMA StageOf ==
    ASSUME GInv, NEW w \in Worker, NEW stage, work' = [work EXCEPT ![w].pc = stage]
    PROVE  /\ DOMAIN work' = Worker /\ DOMAIN work'[w] = Fields
           /\ work'[w].pc = stage /\ work'[w].inv = work[w].inv /\ work'[w].jobs = work[w].jobs
           /\ work'[w].snaps = work[w].snaps /\ work'[w].whole = work[w].whole
           /\ \A v \in Worker : v # w => work'[v] = work[v]
<1> DEFINE x == work[w]
<1>1. DOMAIN work = Worker /\ DOMAIN x = Fields
  BY DEF GInv
<1> QED BY <1>1 DEF Fields

\* A worker that has written and has reconciliations left, or is done.
LEMMA ProceedIs ==
    ASSUME GInv, NEW w \in Worker, NEW left, Proceed(w, left)
    PROVE  /\ DOMAIN work' = Worker /\ \A v \in Worker : v # w => work'[v] = work[v]
           /\ DOMAIN work'[w] = Fields
           /\ left = {} => /\ work'[w] = Resting
                           /\ torn' = torn \ work[w].whole
                           /\ w = Daemon => cache' = StorageProviders(work[w].inv)
           /\ left # {} => /\ work'[w].pc = "caps" /\ work'[w].jobs = left
                           /\ work'[w].inv = work[w].inv /\ work'[w].snaps = work[w].snaps
                           /\ work'[w].whole = work[w].whole
                           /\ cache' = cache /\ torn' = torn
<1> DEFINE x == work[w]
           y == [x EXCEPT !.pc = "caps", !.jobs = left]
<1>1. DOMAIN work = Worker /\ DOMAIN x = Fields
  BY DEF GInv
<1>2. work' = [work EXCEPT ![w] = IF left = {} THEN Resting ELSE y]
  BY DEF Proceed
<1>3. /\ DOMAIN y = Fields /\ y.pc = "caps" /\ y.jobs = left /\ y.inv = x.inv
      /\ y.snaps = x.snaps /\ y.whole = x.whole
  BY <1>1 DEF Fields
<1> HIDE DEF y
<1>4. /\ DOMAIN work' = Worker /\ \A v \in Worker : v # w => work'[v] = work[v]
      /\ work'[w] = IF left = {} THEN Resting ELSE y
  BY <1>1, <1>2
<1>5. DOMAIN Resting = Fields
  BY RestingIdle
<1>6. /\ cache' = IF left = {} /\ w = Daemon THEN StorageProviders(work[w].inv) ELSE cache
      /\ torn' = IF left = {} THEN torn \ work[w].whole ELSE torn
  BY DEF Proceed
<1> HIDE DEF Resting
<1>7. CASE left = {}
  BY <1>4, <1>5, <1>6, <1>7
<1>8. CASE left # {}
  BY <1>3, <1>4, <1>6, <1>8
<1> QED BY <1>7, <1>8

\* A step that changes what one worker holds and never forgets an entity.
LEMMA StageGInv ==
    ASSUME GInv, NEW w \in Worker, DOMAIN work' = Worker, DOMAIN work'[w] = Fields,
           \A v \in Worker : v # w => work'[v] = work[v],
           work'[w].pc # "idle" => Closed(work'[w].inv),
           DOMAIN db' = Tables, GraphClosed'
    PROVE  GInv'
  BY DEF GInv

\* Moving on after a write keeps the workers well-formed.
LEMMA ProceedGInv ==
    ASSUME GInv, NEW w \in Worker, work[w].pc # "idle", NEW left, Proceed(w, left),
           DOMAIN db' = Tables, GraphClosed'
    PROVE  GInv'
<1>1. /\ DOMAIN work' = Worker /\ \A v \in Worker : v # w => work'[v] = work[v]
      /\ DOMAIN work'[w] = Fields
      /\ work'[w] = Resting \/ work'[w].inv = work[w].inv
  BY ProceedIs
<1>2. Closed(work[w].inv)
  BY DEF GInv
<1>3. work'[w].pc # "idle" => Closed(work'[w].inv)
  BY <1>1, <1>2, RestingIdle
<1> QED BY <1>1, <1>3, StageGInv

\* No write of the cycle leaves an edge without its ends.
LEMMA WriteGInv == \A w \in Worker : GInv /\ (ReconcileEdges(w) \/ Save(w) \/ ReconcileClaims(w)) => GInv'
<1> SUFFICES ASSUME NEW w \in Worker, GInv, ReconcileEdges(w) \/ Save(w) \/ ReconcileClaims(w) PROVE GInv'
  OBVIOUS
<1>0. DOMAIN db = Tables /\ GraphClosed
  BY DEF GInv
<1>1. CASE ReconcileEdges(w)
  <2>1. /\ work[w].pc = "deps" /\ work' = [work EXCEPT ![w].pc = "save"]
        /\ \E keep : db' = ReconcileDependencies("nfs", keep)
    BY <1>1 DEF ReconcileEdges
  <2>2. DOMAIN db' = Tables /\ db'.life = db.life /\ DOMAIN db'.edges \subseteq DOMAIN db.edges
    BY <1>0, <2>1, ReconciledEdges
  <2>3. GraphClosed'
    BY <1>0, <2>2 DEF GraphClosed
  <2>4. Closed(work[w].inv)
    BY <2>1 DEF GInv
  <2>5. /\ DOMAIN work' = Worker /\ DOMAIN work'[w] = Fields /\ work'[w].inv = work[w].inv
        /\ \A v \in Worker : v # w => work'[v] = work[v]
    BY <2>1, StageOf
  <2> QED BY <2>2, <2>3, <2>4, <2>5, StageGInv
<1>2. CASE Save(w)
  <2>1. PICK first : db' = SaveInventory(work[w].inv, first)
    BY <1>2 DEF Save
  <2>2. work[w].pc = "save" /\ \E left : Proceed(w, left)
    BY <1>2 DEF Save
  <2>3. Closed(work[w].inv)
    BY <2>2 DEF GInv
  <2>4. /\ DOMAIN db' = Tables
        /\ DOMAIN db'.life = DOMAIN work[w].inv.ents \cup DOMAIN db.life
        /\ DOMAIN db'.edges = DOMAIN work[w].inv.graph \cup DOMAIN db.edges
    BY <2>1, SavedTables
  <2>5. GraphClosed'
    BY <1>0, <2>3, <2>4 DEF GraphClosed, Closed
  <2> QED BY <2>2, <2>4, <2>5, ProceedGInv
<1>3. CASE ReconcileClaims(w)
  <2>1. /\ work[w].pc = "caps" /\ \E e, src, caps : db' = ReconcileCapabilities(e, src, caps)
        /\ \E left : Proceed(w, left)
    BY <1>3 DEF ReconcileClaims
  <2>2. DOMAIN db' = Tables /\ db'.life = db.life /\ db'.edges = db.edges
    BY <1>0, <2>1, ReconciledClaims
  <2>3. GraphClosed'
    BY <1>0, <2>2 DEF GraphClosed
  <2> QED BY <2>1, <2>2, <2>3, ProceedGInv
<1> QED BY <1>1, <1>2, <1>3

\* Every step keeps the graph closed.
LEMMA StepGInv == GInv /\ [Next]_vars => GInv'
<1> SUFFICES ASSUME GInv, [Next]_vars PROVE GInv'
  OBVIOUS
<1>1. ASSUME NEW w \in Worker, Interrupt(w) PROVE GInv'
  BY <1>1, WorkGInv, RestingIdle DEF Interrupt
<1>2. CASE Restart
  BY <1>2, WorkGInv, RestingIdle, InventoryAssumption DEF Restart
<1>3. ASSUME NEW h \in Host, NEW caps \in AgentCaps[h], Register(h, caps) PROVE GInv'
  <2> DEFINE snap == AgentSnapshot(h, caps)
             inv == Merge(LoadInventory, snap)
             job == [pc |-> "save", inv |-> inv, snaps |-> <<snap>>, jobs |-> {}, whole |-> {h}]
  <2>1. work' = [work EXCEPT ![Daemon] = job] /\ db' = db
    BY <1>3 DEF Register
  <2>2. Closed(inv)
    BY LoadClosed, MergeClosed DEF GInv
  <2> HIDE DEF inv, snap
  <2>3. DOMAIN job = Fields /\ job.inv = inv
    BY DEF Fields
  <2> HIDE DEF job
  <2> QED BY <2>1, <2>2, <2>3, WorkGInv, InventoryAssumption
<1>4. CASE UNCHANGED vars
  BY <1>4 DEF GInv, GraphClosed, vars
<1> QED BY <1>1, <1>2, <1>3, <1>4, LookGInv, WriteGInv DEF Next

\* The stored graph never names an entity that was never written, wherever a
\* cycle or a registration stops and however many processes run them at once
\* (save_inventory, offer_edge, reconcile_dependencies).
THEOREM GraphStaysClosed == Spec => []GraphClosed
<1>1. GInv => GraphClosed
  BY DEF GInv
<1> QED BY <1>1, InitGInv, StepGInv, PTL DEF Spec

-----------------------------------------------------------------------------
(* What is stale.                                                          *)

\* What an inventory keeps of the tables it was loaded from and of the snapshots
\* it has taken in.
Tracks(inv, S) ==
    /\ DOMAIN db.life \subseteq DOMAIN inv.ents
    /\ \A e \in DOMAIN db.life : db.srcs[e] \subseteq inv.ents[e].srcs
    /\ \A s \in S : \A e \in Reported(s) :
          e \in DOMAIN inv.ents /\ SourceOf(s.by) \in inv.ents[e].srcs
    /\ \A e \in DOMAIN inv.ents : inv.ents[e].life = "stale" =>
          /\ \A s \in S : e \notin Reported(s)
          /\ \/ e \in DOMAIN db.life /\ db.life[e] = "stale"
             \/ \E s \in S : s.by \notin Host /\ inv.ents[e].srcs = {SourceOf(s.by)}

\* No two snapshots speak for the same source.
Distinct(S) == \A s, t \in S : SourceOf(s.by) = SourceOf(t.by) => s = t

\* What is loaded tracks the tables.
LEMMA LoadTracks == Tracks(LoadInventory, {})
<1>1. DOMAIN LoadInventory.ents = DOMAIN db.life
  BY DEF LoadInventory
<1>2. \A e \in DOMAIN db.life :
         LoadInventory.ents[e].srcs = db.srcs[e] /\ LoadInventory.ents[e].life = db.life[e]
  BY DEF LoadInventory
<1> QED BY <1>1, <1>2 DEF Tracks

\* Merging a snapshot keeps an inventory tracking, the snapshot included.
LEMMA MergeTracks ==
    ASSUME NEW inv, NEW S, NEW snap, Tracks(inv, S)
    PROVE  Tracks(Merge(inv, snap), S \cup {snap})
<1> DEFINE new == Merge(inv, snap)
<1>1. /\ DOMAIN new.ents = DOMAIN inv.ents \cup Reported(snap)
      /\ \A e \in DOMAIN new.ents \ Reported(snap) : new.ents[e] = inv.ents[e]
  BY SMT, MergeEnts
<1>2. \A e \in Reported(snap) :
         /\ new.ents[e].life = "active" /\ SourceOf(snap.by) \in new.ents[e].srcs
         /\ e \in DOMAIN inv.ents => inv.ents[e].srcs \subseteq new.ents[e].srcs
  <2>1. \A e \in Reported(snap) : new.ents[e] = MergeInto(inv, snap, e)
    BY MergeEnts
  <2>2. \A e : /\ MergeInto(inv, snap, e).life = "active"
               /\ SourceOf(snap.by) \in MergeInto(inv, snap, e).srcs
               /\ e \in DOMAIN inv.ents => inv.ents[e].srcs \subseteq MergeInto(inv, snap, e).srcs
    BY DEF MergeInto
  <2> HIDE DEF new
  <2> QED BY <2>1, <2>2
<1> HIDE DEF new
<1>3. \A e \in DOMAIN inv.ents : inv.ents[e].srcs \subseteq new.ents[e].srcs
  BY <1>1, <1>2
<1>4. DOMAIN db.life \subseteq DOMAIN new.ents
  BY <1>1 DEF Tracks
<1>5. \A e \in DOMAIN db.life : db.srcs[e] \subseteq new.ents[e].srcs
  BY <1>3 DEF Tracks
<1>6. \A s \in S \cup {snap} : \A e \in Reported(s) :
         e \in DOMAIN new.ents /\ SourceOf(s.by) \in new.ents[e].srcs
  BY <1>1, <1>2, <1>3 DEF Tracks
<1>7. ASSUME NEW e \in DOMAIN new.ents, new.ents[e].life = "stale"
      PROVE  /\ \A s \in S \cup {snap} : e \notin Reported(s)
             /\ \/ e \in DOMAIN db.life /\ db.life[e] = "stale"
                \/ \E s \in S \cup {snap} : s.by \notin Host /\ new.ents[e].srcs = {SourceOf(s.by)}
  <2>1. e \notin Reported(snap) /\ e \in DOMAIN inv.ents /\ new.ents[e] = inv.ents[e]
    BY <1>1, <1>2, <1>7
  <2> QED BY <1>7, <2>1 DEF Tracks
<1>8. Tracks(new, S \cup {snap})
  BY <1>4, <1>5, <1>6, <1>7 DEF Tracks
<1> QED BY <1>8 DEF new

\* Marking the unreported stale keeps it tracking.
LEMMA MarkTracks ==
    ASSUME NEW inv, NEW S, NEW snap \in S, Tracks(inv, S), Closed(inv), Distinct(S), snap.by \notin Host
    PROVE  Tracks(MarkAbsentAsStale(inv, snap), S)
<1> DEFINE new == MarkAbsentAsStale(inv, snap)
<1>1. /\ DOMAIN new.ents = DOMAIN inv.ents
      /\ \A e \in DOMAIN inv.ents :
            /\ new.ents[e].srcs = inv.ents[e].srcs
            /\ new.ents[e].life = "stale" =>
                  \/ inv.ents[e].life = "stale"
                  \/ inv.ents[e].srcs = {SourceOf(snap.by)} /\ e \notin Reported(snap)
  BY SMT, MarkEnts
<1> HIDE DEF new
<1>2. ASSUME NEW e \in DOMAIN inv.ents, inv.ents[e].srcs = {SourceOf(snap.by)}, e \notin Reported(snap)
      PROVE  \A s \in S : e \notin Reported(s)
  BY <1>2 DEF Tracks, Distinct
<1>3. Tracks(new, S)
  BY SMT, <1>1, <1>2 DEF Tracks
<1> QED BY <1>3 DEF new

\* Folding in a provider that is not an agent keeps the tracking of sources.
LEMMA FoldTracks ==
    ASSUME NEW inv, NEW S, NEW snap, Tracks(inv, S), Closed(inv), Distinct(S \cup {snap}), snap.by \notin Host
    PROVE  Tracks(Fold(inv, snap), S \cup {snap})
<1>1. Tracks(Merge(inv, snap), S \cup {snap}) /\ Closed(Merge(inv, snap))
  BY MergeTracks, MergeClosed
<1>2. snap \in S \cup {snap}
  OBVIOUS
<1> QED BY <1>1, <1>2, MarkTracks DEF Fold

\* Retracting what an agent no longer reports keeps it tracking.
LEMMA RetractTracks ==
    ASSUME NEW inv, NEW S, NEW snap, Tracks(inv, S), Closed(inv)
    PROVE  Tracks(RetractAbsent(inv, snap), S)
<1>1. RetractAbsent(inv, snap).ents = inv.ents
  BY RetractEnts
<1> QED BY <1>1 DEF Tracks

\* What a cycle or a registration in progress has made of what it heard.
Heeds(job) ==
    /\ Tracks(job.inv, Range(job.snaps)) /\ Distinct(Range(job.snaps))
    /\ \A s \in Range(job.snaps) : s.by \in Reporter /\ (~PingMayFail => s.by \in job.whole)

\* The inductive invariant, for one process.
SInv ==
    /\ GInv
    /\ DOMAIN db.srcs = DOMAIN db.life
    /\ \A r \in Reporter : \A e \in told[r].ents : e \in DOMAIN db.life /\ SourceOf(r) \in db.srcs[e]
    /\ StaleIsUnreported
    /\ work[Daemon].pc \in {"deps", "save"} => Heeds(work[Daemon])

\* An empty database has no source and nothing stale.
LEMMA InitSInv == Init => SInv
<1> SUFFICES ASSUME Init PROVE SInv
  OBVIOUS
<1>1. DOMAIN NoTables.life = {} /\ DOMAIN NoTables.srcs = {}
  BY DEF NoTables
<1>2. Silent.ents = {}
  BY DEF Silent
<1>3. work[Daemon].pc = "idle"
  BY RestingIdle, InventoryAssumption DEF Init
<1>4. \A r \in Reporter : told[r].ents = {}
  BY <1>2 DEF Init
<1> QED BY <1>1, <1>3, <1>4, InitGInv DEF Init, SInv, StaleIsUnreported

\* A step that leaves the tables and the last reports as they are.
LEMMA TakenSInv ==
    ASSUME SInv, GInv', db' = db, told' = told, work'[Daemon].pc \in {"deps", "save"} => Heeds(work'[Daemon])
    PROVE  SInv'
  BY DEF SInv, StaleIsUnreported, Heeds, Tracks

\* The providers of a cycle have names of their own.
LEMMA OwnSources ==
    /\ SourceOf("static") = "static" /\ SourceOf("slurm") = "slurm" /\ SourceOf("nfs") = "nfs"
    /\ "static" \notin Host /\ "slurm" \notin Host /\ "nfs" \notin Host
    /\ {"static", "slurm", "nfs"} \subseteq Reporter
  BY InventoryAssumption DEF SourceOf, Reporter

\* A cycle that has looked heeds what it heard: the snapshots are folded in one
\* after the other, each of another source.
LEMMA LookHeeds ==
    ASSUME NEW view, NEW topology, NEW job, GraphClosed, Looked(job, view, topology)
    PROVE  Heeds(job)
<1> DEFINE static == StaticSnapshot
           heard == SlurmSnapshot(view)
           declared == Fold(LoadInventory, static)
           full == Fold(declared, heard)
<1>0. /\ topology.by = "nfs"
      /\ \/ /\ job.inv = RetractAbsent(Fold(declared, topology), topology)
            /\ Range(job.snaps) = {static, topology}
            /\ job.whole = {"static", "nfs"}
         \/ /\ job.inv = RetractAbsent(Fold(full, topology), topology)
            /\ Range(job.snaps) = {static, heard, topology}
            /\ {"static", "nfs"} \subseteq job.whole
            /\ ~PingMayFail => "slurm" \in job.whole
  BY DEF Looked
<1>1. static.by = "static" /\ heard.by = "slurm"
  BY DEF StaticSnapshot, SlurmSnapshot
<1> HIDE DEF static, heard
<1>2. Distinct({static, heard, topology})
  BY <1>0, <1>1, OwnSources DEF Distinct
<1>3. /\ Distinct({} \cup {static}) /\ Distinct({static} \cup {heard})
      /\ Distinct({static} \cup {topology}) /\ Distinct({static, heard} \cup {topology})
  BY <1>2 DEF Distinct
<1>4. Tracks(declared, {} \cup {static}) /\ Closed(declared)
  BY <1>1, <1>3, OwnSources, LoadTracks, LoadClosed, FoldTracks, FoldClosed
<1>5. {} \cup {static} = {static} /\ {static} \cup {heard} = {static, heard}
  OBVIOUS
<1> HIDE DEF declared
<1>6. Tracks(full, {static} \cup {heard}) /\ Closed(full)
  BY <1>1, <1>3, <1>4, <1>5, OwnSources, FoldTracks, FoldClosed
<1> HIDE DEF full
<1>7. CASE /\ job.inv = RetractAbsent(Fold(declared, topology), topology)
           /\ Range(job.snaps) = {static, topology}
           /\ job.whole = {"static", "nfs"}
  <2> DEFINE last == Fold(declared, topology)
  <2>1. Tracks(last, {static} \cup {topology}) /\ Closed(last)
    BY <1>0, <1>3, <1>4, <1>5, OwnSources, FoldTracks, FoldClosed
  <2>2. {static} \cup {topology} = Range(job.snaps)
    BY <1>7
  <2> HIDE DEF last
  <2>3. Tracks(RetractAbsent(last, topology), {static} \cup {topology})
    BY <2>1, RetractTracks
  <2>4. Tracks(job.inv, Range(job.snaps)) /\ Distinct(Range(job.snaps))
    BY <1>3, <1>7, <2>2, <2>3 DEF last
  <2> QED BY <1>0, <1>1, <1>7, <2>4, OwnSources DEF Heeds
<1>8. CASE /\ job.inv = RetractAbsent(Fold(full, topology), topology)
           /\ Range(job.snaps) = {static, heard, topology}
           /\ {"static", "nfs"} \subseteq job.whole
           /\ ~PingMayFail => "slurm" \in job.whole
  <2> DEFINE last == Fold(full, topology)
  <2>1. Tracks(last, {static, heard} \cup {topology}) /\ Closed(last)
    BY <1>0, <1>3, <1>5, <1>6, OwnSources, FoldTracks, FoldClosed
  <2>2. {static, heard} \cup {topology} = Range(job.snaps)
    BY <1>8
  <2> HIDE DEF last
  <2>3. Tracks(RetractAbsent(last, topology), {static, heard} \cup {topology})
    BY <2>1, RetractTracks
  <2>4. Tracks(job.inv, Range(job.snaps)) /\ Distinct(Range(job.snaps))
    BY <1>2, <1>8, <2>2, <2>3 DEF last
  <2> QED BY <1>0, <1>1, <1>8, <2>4, OwnSources DEF Heeds
<1> QED BY <1>0, <1>7, <1>8

\* A discovery merges into what the tables say.
LEMMA LookSInv == SInv /\ Look(Daemon) => SInv'
<1> SUFFICES ASSUME SInv, Look(Daemon) PROVE SInv'
  OBVIOUS
<1>1. PICK view, topology, job : work' = [work EXCEPT ![Daemon] = job] /\ Looked(job, view, topology)
  BY LookIs, InventoryAssumption DEF SInv
<1>2. Heeds(job)
  BY <1>1, LookHeeds DEF SInv, GInv
<1>3. work'[Daemon] = job
  BY <1>1, InventoryAssumption DEF SInv, GInv
<1>4. GInv'
  BY LookGInv, InventoryAssumption DEF SInv
<1>5. db' = db /\ told' = told
  BY DEF Look
<1> QED BY <1>2, <1>3, <1>4, <1>5, TakenSInv

\* So does the registration of an agent.
LEMMA RegisterSInv == \A h \in Host : \A caps \in AgentCaps[h] : SInv /\ Register(h, caps) => SInv'
<1> SUFFICES ASSUME NEW h \in Host, NEW caps \in AgentCaps[h], SInv, Register(h, caps) PROVE SInv'
  OBVIOUS
<1> DEFINE snap == AgentSnapshot(h, caps)
           inv == Merge(LoadInventory, snap)
           snaps == <<snap>>
           job == [pc |-> "save", inv |-> inv, snaps |-> snaps, jobs |-> {}, whole |-> {h}]
<1>1. work' = [work EXCEPT ![Daemon] = job] /\ db' = db /\ told' = told
  BY DEF Register
<1>2. snap.by = h /\ h \in Reporter
  BY DEF AgentSnapshot, Reporter
<1>3. Tracks(inv, {} \cup {snap})
  BY LoadTracks, MergeTracks
<1> HIDE DEF snap, inv
<1>4. DOMAIN snaps = {1} /\ snaps[1] = snap
  BY SMT
<1> HIDE DEF snaps
<1>5. Range(snaps) = {} \cup {snap}
  BY <1>4 DEF Range
<1>6. job.inv = inv /\ job.snaps = snaps /\ job.whole = {h}
  OBVIOUS
<1> HIDE DEF job
<1>7. Heeds(job)
  BY <1>2, <1>3, <1>5, <1>6 DEF Heeds, Distinct
<1>8. work'[Daemon] = job
  BY <1>1, InventoryAssumption DEF SInv, GInv
<1>9. GInv'
  BY StepGInv DEF Next, SInv
<1> QED BY <1>1, <1>7, <1>8, <1>9, TakenSInv

\* What the saved snapshots leave as the last reports.
LEMMA HeardEnts ==
    ASSUME NEW snaps, NEW r \in Reporter
    PROVE  \/ Heard(snaps)[r] = told[r] /\ \A s \in Range(snaps) : s.by # r
           \/ \E s \in Range(snaps) :
                 /\ s.by = r /\ Heard(snaps)[r].ents = Reported(s) /\ Heard(snaps)[r].edges = DOMAIN s.edges
                 /\ Heard(snaps)[r].claims = Claims(s) /\ Heard(snaps)[r].firm = Firm(s)
                 /\ Heard(snaps)[r].once = told[r].once \cup Claims(s)
<1> DEFINE s == CHOOSE t \in Range(snaps) : t.by = r
           said == [ents |-> Reported(s), claims |-> Claims(s), firm |-> Firm(s),
                    once |-> told[r].once \cup Claims(s), edges |-> DOMAIN s.edges]
<1>1. Heard(snaps)[r] = IF \E t \in Range(snaps) : t.by = r THEN said ELSE told[r]
  BY DEF Heard
<1>2. ASSUME NEW t \in Range(snaps), t.by = r PROVE s \in Range(snaps) /\ s.by = r
  BY <1>2
<1> HIDE DEF s
<1>3. /\ said.ents = Reported(s) /\ said.claims = Claims(s) /\ said.firm = Firm(s)
      /\ said.once = told[r].once \cup Claims(s) /\ said.edges = DOMAIN s.edges
  OBVIOUS
<1> HIDE DEF said
<1> QED BY <1>1, <1>2, <1>3

\* The save: what it marks stale, nobody's last snapshot holds.
LEMMA SaveSInv == SInv /\ Save(Daemon) => SInv'
<1> SUFFICES ASSUME SInv, Save(Daemon) PROVE SInv'
  OBVIOUS
<1> DEFINE inv == work[Daemon].inv
           S == Range(work[Daemon].snaps)
<1>1. PICK first : db' = SaveInventory(inv, first)
  BY DEF Save
<1>2. work[Daemon].pc = "save" /\ told' = Heard(work[Daemon].snaps)
  BY DEF Save
<1>3. /\ Tracks(inv, S) /\ \A s \in S : s.by \in Reporter
      /\ DOMAIN db.srcs = DOMAIN db.life
  BY <1>2 DEF SInv, Heeds
<1>4. \A r \in Reporter : \/ told'[r] = told[r] /\ \A s \in S : s.by # r
                          \/ \E s \in S : s.by = r /\ told'[r].ents = Reported(s)
  BY SMT, <1>2, HeardEnts
<1>5. GInv' /\ work'[Daemon].pc \in {"caps", "idle"}
  <2>1. \E left : Proceed(Daemon, left)
    BY DEF Save
  <2>2. work'[Daemon].pc \in {"caps", "idle"}
    BY <2>1, ProceedIs, RestingIdle, InventoryAssumption DEF SInv
  <2> QED BY <2>2, WriteGInv, InventoryAssumption DEF SInv
<1> HIDE DEF inv, S
<1>6. /\ DOMAIN db'.life = DOMAIN inv.ents /\ DOMAIN db'.srcs = DOMAIN inv.ents
      /\ \A e \in DOMAIN inv.ents : db'.life[e] = inv.ents[e].life /\ inv.ents[e].srcs \subseteq db'.srcs[e]
  <2>1. /\ DOMAIN db'.life = DOMAIN inv.ents \cup DOMAIN db.life
        /\ DOMAIN db'.srcs = DOMAIN inv.ents \cup DOMAIN db.srcs
        /\ \A e \in DOMAIN inv.ents :
              /\ db'.life[e] = inv.ents[e].life
              /\ db'.srcs[e] = inv.ents[e].srcs \cup (IF e \in DOMAIN db.srcs THEN db.srcs[e] ELSE {})
    BY SMTT(60), <1>1, SavedTables
  <2>2. DOMAIN db.life \subseteq DOMAIN inv.ents
    BY <1>3 DEF Tracks
  <2> QED BY <1>3, <2>1, <2>2
<1>7. ASSUME NEW r \in Reporter, NEW e \in told'[r].ents
      PROVE  e \in DOMAIN db'.life /\ SourceOf(r) \in db'.srcs[e]
  <2>1. CASE told'[r] = told[r]
    BY <1>3, <1>6, <1>7, <2>1 DEF SInv, Tracks
  <2>2. CASE \E s \in S : s.by = r /\ told'[r].ents = Reported(s)
    BY <1>3, <1>6, <1>7, <2>2 DEF Tracks
  <2> QED BY <1>4, <2>1, <2>2
<1>8. ASSUME NEW e \in DOMAIN db'.life, db'.life[e] = "stale", NEW r \in Reporter, e \in told'[r].ents
      PROVE  FALSE
  <2>1. e \in DOMAIN inv.ents /\ inv.ents[e].life = "stale"
    BY <1>6, <1>8
  <2>2. /\ \A s \in S : e \notin Reported(s)
        /\ \/ e \in DOMAIN db.life /\ db.life[e] = "stale"
           \/ \E s \in S : s.by \notin Host /\ inv.ents[e].srcs = {SourceOf(s.by)}
    BY <1>3, <2>1 DEF Tracks
  <2>3. told'[r] = told[r] /\ \A s \in S : s.by # r
    BY <1>4, <1>8, <2>2
  <2>4. e \in DOMAIN db.life /\ SourceOf(r) \in db.srcs[e] /\ db.life[e] # "stale"
    BY <1>8, <2>3 DEF SInv, StaleIsUnreported
  <2>5. PICK s \in S : s.by \notin Host /\ inv.ents[e].srcs = {SourceOf(s.by)}
    BY <2>2, <2>4
  <2>6. SourceOf(r) = SourceOf(s.by)
    BY <1>3, <2>4, <2>5 DEF Tracks
  <2>7. s.by \in Reporter /\ s.by # r
    BY <1>3, <2>3
  <2> QED BY <2>5, <2>6, <2>7 DEF SourceOf, Reporter
<1> QED BY <1>5, <1>6, <1>7, <1>8 DEF SInv, StaleIsUnreported

\* A reconciliation writes neither lives nor sources.
LEMMA ReconcileSInv == SInv /\ (ReconcileEdges(Daemon) \/ ReconcileClaims(Daemon)) => SInv'
<1> SUFFICES ASSUME SInv, ReconcileEdges(Daemon) \/ ReconcileClaims(Daemon) PROVE SInv'
  OBVIOUS
<1>1. GInv'
  BY WriteGInv, InventoryAssumption DEF SInv
<1>2. DOMAIN db = Tables
  BY DEF SInv, GInv
<1>3. CASE ReconcileEdges(Daemon)
  <2>1. /\ work[Daemon].pc = "deps" /\ work' = [work EXCEPT ![Daemon].pc = "save"]
        /\ told' = told /\ \E keep : db' = ReconcileDependencies("nfs", keep)
    BY <1>3 DEF ReconcileEdges
  <2>2. db'.life = db.life /\ db'.srcs = db.srcs
    BY <1>2, <2>1, ReconciledEdges
  <2>3. /\ work'[Daemon].inv = work[Daemon].inv /\ work'[Daemon].snaps = work[Daemon].snaps
        /\ work'[Daemon].whole = work[Daemon].whole
    BY <2>1, StageOf, InventoryAssumption DEF SInv
  <2>4. Heeds(work[Daemon])
    BY <2>1 DEF SInv
  <2>5. Heeds(work[Daemon])'
    BY ZenonT(60), <2>2, <2>3, <2>4 DEF Heeds, Tracks
  <2> QED BY <1>1, <2>1, <2>2, <2>5 DEF SInv, StaleIsUnreported
<1>4. CASE ReconcileClaims(Daemon)
  <2>1. /\ \E e, src, caps : db' = ReconcileCapabilities(e, src, caps)
        /\ told' = told /\ \E left : Proceed(Daemon, left)
    BY <1>4 DEF ReconcileClaims
  <2>2. db'.life = db.life /\ db'.srcs = db.srcs
    BY SMTT(60), <1>2, <2>1, ReconciledClaims
  <2>3. work'[Daemon].pc \in {"caps", "idle"}
    BY <2>1, ProceedIs, RestingIdle, InventoryAssumption DEF SInv
  <2> QED BY <1>1, <2>1, <2>2, <2>3 DEF SInv, StaleIsUnreported
<1> QED BY <1>3, <1>4

\* Every step of one process keeps the sources and the lives in step.
LEMMA StepSInv == Worker = {Daemon} /\ SInv /\ [Next]_vars => SInv'
<1> SUFFICES ASSUME Worker = {Daemon}, SInv, [Next]_vars PROVE SInv'
  OBVIOUS
<1>0. GInv'
  BY StepGInv DEF SInv
<1>1. CASE Interrupt(Daemon) \/ Restart
  <2>1. db' = db /\ told' = told /\ work' = [work EXCEPT ![Daemon] = Resting]
    BY <1>1 DEF Interrupt, Restart
  <2>2. work'[Daemon].pc = "idle"
    BY <2>1, RestingIdle, InventoryAssumption DEF SInv, GInv
  <2> QED BY <1>0, <2>1, <2>2, TakenSInv
<1>2. CASE UNCHANGED vars
  BY <1>0, <1>2, TakenSInv DEF SInv, vars
<1> QED BY <1>1, <1>2, LookSInv, RegisterSInv, SaveSInv, ReconcileSInv DEF Next

\* With one process over the database, a stale entity is one that nobody's last
\* saved snapshot holds, wherever cycles and registrations were interrupted
\* (mark_absent_as_stale spares what another source reports, and a registration
\* brings an entity back).
THEOREM StaleMeansUnreported == (Worker = {Daemon}) => (Spec => []StaleIsUnreported)
<1> SUFFICES ASSUME Worker = {Daemon} PROVE Spec => []StaleIsUnreported
  OBVIOUS
<1>1. SInv /\ [Next]_vars => SInv'
  BY StepSInv
<1>2. SInv => StaleIsUnreported
  BY DEF SInv
<1> QED BY <1>1, <1>2, InitSInv, PTL DEF Spec

\* Only the save writes lives, and what it marks it heard its provider on.
LEMMA SaveHeard ==
    ASSUME Worker = {Daemon}, SInv, ~PingMayFail, Save(Daemon), NEW e \in DOMAIN db.life, NEW r,
           db.srcs[e] = {r}, db.life[e] = "active", db'.life[e] = "stale"
    PROVE  work[Daemon].pc = "save" /\ r \in work[Daemon].whole
<1> DEFINE inv == work[Daemon].inv
           S == Range(work[Daemon].snaps)
<1>1. PICK first : db' = SaveInventory(inv, first)
  BY DEF Save
<1>2. work[Daemon].pc = "save"
  BY DEF Save
<1>3. Tracks(inv, S) /\ \A s \in S : s.by \in work[Daemon].whole
  BY <1>2 DEF SInv, Heeds
<1> HIDE DEF inv, S
<1>4. e \in DOMAIN inv.ents /\ {r} \subseteq inv.ents[e].srcs
  BY <1>3 DEF Tracks
<1>5. inv.ents[e].life = "stale"
  BY SMT, <1>1, <1>4, SavedTables
<1>6. PICK s \in S : s.by \notin Host /\ inv.ents[e].srcs = {SourceOf(s.by)}
  BY <1>3, <1>4, <1>5 DEF Tracks
<1>7. r = s.by
  BY <1>4, <1>6 DEF SourceOf
<1> QED BY <1>2, <1>3, <1>7

\* No step but a save of the discovery changes what is live.
LEMMA OthersSpareLives ==
    ASSUME Worker = {Daemon}, SInv, [Next]_vars, ~Save(Daemon) PROVE db'.life = db.life
<1>0. DOMAIN db = Tables
  BY DEF SInv, GInv
<1>1. CASE ReconcileEdges(Daemon)
  BY <1>0, <1>1, ReconciledEdges DEF ReconcileEdges
<1>2. CASE ReconcileClaims(Daemon)
  <2>1. \E e, src, caps : db' = ReconcileCapabilities(e, src, caps)
    BY <1>2 DEF ReconcileClaims
  <2> QED BY SMTT(60), <1>0, <2>1, ReconciledClaims
<1>3. CASE db' = db
  BY <1>3
<1>4. Look(Daemon) \/ Interrupt(Daemon) \/ Restart \/ UNCHANGED vars => db' = db
  BY DEF Look, Interrupt, Restart, vars
<1>5. \A h \in Host : \A caps \in AgentCaps[h] : Register(h, caps) => db' = db
  BY DEF Register
<1> QED BY <1>1, <1>2, <1>3, <1>4, <1>5 DEF Next

\* With one process, and a ping that fails only when the whole query does, an
\* entity only one provider knows goes stale only in the save of a cycle in which
\* that provider answered in full: not being able to look is not "gone"
\* (discover_once, mark_absent_as_stale).
THEOREM FailureIsNotAbsence == (Worker = {Daemon} /\ ~PingMayFail) => (Spec => UnseenIsNotGone)
<1> SUFFICES ASSUME Worker = {Daemon}, ~PingMayFail PROVE Spec => UnseenIsNotGone
  OBVIOUS
<1> DEFINE Told == \A e \in DOMAIN db.life : \A s \in {"static", "slurm", "nfs"} :
                      (db.srcs[e] = {s} /\ db.life[e] = "active" /\ db'.life[e] = "stale")
                        => \E w \in Worker : work[w].pc = "save" /\ s \in work[w].whole
<1>1. SInv /\ [Next]_vars => SInv'
  BY StepSInv
<1>2. SInv /\ [Next]_vars => Told
  <2> SUFFICES ASSUME SInv, [Next]_vars PROVE Told
    OBVIOUS
  <2>1. CASE Save(Daemon)
    BY <2>1, SaveHeard
  <2>2. CASE ~Save(Daemon)
    BY <2>2, OthersSpareLives
  <2> QED BY <2>1, <2>2
<1>3. Spec => []SInv
  BY <1>1, InitSInv, PTL DEF Spec
<1> HIDE DEF Told
<1>4. Spec => [][Told]_vars
  BY <1>2, <1>3, PTL DEF Spec
<1> QED BY <1>4 DEF UnseenIsNotGone, Told

-----------------------------------------------------------------------------
(* What a merge does to the edges.                                         *)

\* The edges once a snapshot is merged, `known` being the entities then present:
\* what was pending wins over the snapshot, the snapshot over the graph, and
\* what has an unknown end waits.
EdgesMerged(inv, snap, known, graph, pending) ==
    /\ \A id : id \in DOMAIN graph <=>
          \/ Endpoints(id) \subseteq known /\ (id \in DOMAIN inv.pending \/ id \in DOMAIN snap.edges)
          \/ id \in DOMAIN inv.graph
    /\ \A id \in DOMAIN graph :
          \/ id \in DOMAIN inv.pending /\ Endpoints(id) \subseteq known /\ graph[id] = inv.pending[id]
          \/ /\ id \notin DOMAIN inv.pending
             /\ id \in DOMAIN snap.edges /\ Endpoints(id) \subseteq known /\ graph[id].src = SourceOf(snap.by)
          \/ /\ ~(Endpoints(id) \subseteq known /\ (id \in DOMAIN inv.pending \/ id \in DOMAIN snap.edges))
             /\ id \in DOMAIN inv.graph /\ graph[id] = inv.graph[id]
    /\ \A id : id \in DOMAIN pending <=>
          ~(Endpoints(id) \subseteq known) /\ (id \in DOMAIN inv.pending \/ id \in DOMAIN snap.edges)
    /\ \A id \in DOMAIN pending :
          \/ id \in DOMAIN inv.pending /\ pending[id] = inv.pending[id]
          \/ id \in DOMAIN snap.edges /\ pending[id].src = SourceOf(snap.by)

\* Merging a snapshot leaves these edges.
LEMMA MergeEdges ==
    ASSUME NEW inv, NEW snap
    PROVE  LET new == Merge(inv, snap)
           IN  EdgesMerged(inv, snap, DOMAIN new.ents, new.graph, new.pending)
<1> DEFINE ents == [e \in DOMAIN inv.ents \cup Reported(snap) |->
                      IF e \in Reported(snap) THEN MergeInto(inv, snap, e) ELSE inv.ents[e]]
           new == Merge(inv, snap)
           stamped == Stamped(snap)
           knownP == Only(inv.pending, {id \in DOMAIN inv.pending : Endpoints(id) \subseteq DOMAIN ents})
           knownS == Only(stamped, {id \in DOMAIN stamped : Endpoints(id) \subseteq DOMAIN ents})
           heldP == Only(inv.pending, {id \in DOMAIN inv.pending : ~(Endpoints(id) \subseteq DOMAIN ents)})
           heldS == Only(stamped, {id \in DOMAIN stamped : ~(Endpoints(id) \subseteq DOMAIN ents)})
           pending == inv.pending
           graph == inv.graph
<1>1. /\ new.ents = ents
      /\ new.graph = Override(knownP, Override(knownS, graph))
      /\ new.pending = Override(heldP, heldS)
  BY DEF Merge
<1> HIDE DEF new, ents
<1>2. DOMAIN stamped = DOMAIN snap.edges /\ \A id \in DOMAIN stamped : stamped[id].src = SourceOf(snap.by)
  BY DEF Stamped
<1> HIDE DEF stamped, pending, graph
<1>3. /\ \A id : id \in DOMAIN knownP <=> id \in DOMAIN pending /\ Endpoints(id) \subseteq DOMAIN ents
      /\ \A id \in DOMAIN knownP : knownP[id] = pending[id]
      /\ \A id : id \in DOMAIN heldP <=> id \in DOMAIN pending /\ ~(Endpoints(id) \subseteq DOMAIN ents)
      /\ \A id \in DOMAIN heldP : heldP[id] = pending[id]
  BY DEF Only, pending
<1>4. /\ \A id : id \in DOMAIN knownS <=> id \in DOMAIN stamped /\ Endpoints(id) \subseteq DOMAIN ents
      /\ \A id \in DOMAIN knownS : knownS[id] = stamped[id]
      /\ \A id : id \in DOMAIN heldS <=> id \in DOMAIN stamped /\ ~(Endpoints(id) \subseteq DOMAIN ents)
      /\ \A id \in DOMAIN heldS : heldS[id] = stamped[id]
  BY DEF Only
<1> HIDE DEF knownP, knownS, heldP, heldS
<1>5. /\ \A id : id \in DOMAIN new.graph <=> id \in DOMAIN knownP \/ id \in DOMAIN knownS \/ id \in DOMAIN graph
      /\ \A id \in DOMAIN new.graph :
            new.graph[id] = IF id \in DOMAIN knownP THEN knownP[id]
                            ELSE IF id \in DOMAIN knownS THEN knownS[id] ELSE graph[id]
      /\ \A id : id \in DOMAIN new.pending <=> id \in DOMAIN heldP \/ id \in DOMAIN heldS
      /\ \A id \in DOMAIN new.pending :
            new.pending[id] = IF id \in DOMAIN heldP THEN heldP[id] ELSE heldS[id]
  BY <1>1 DEF Override
<1>6. DOMAIN new.ents = DOMAIN ents
  BY <1>1
<1>7. /\ \A id : id \in DOMAIN new.graph <=>
            \/ Endpoints(id) \subseteq DOMAIN new.ents /\ (id \in DOMAIN pending \/ id \in DOMAIN snap.edges)
            \/ id \in DOMAIN graph
      /\ \A id : id \in DOMAIN new.pending <=>
            ~(Endpoints(id) \subseteq DOMAIN new.ents) /\ (id \in DOMAIN pending \/ id \in DOMAIN snap.edges)
  BY <1>2, <1>3, <1>4, <1>5, <1>6
<1>8. \A id \in DOMAIN new.graph :
         \/ id \in DOMAIN pending /\ Endpoints(id) \subseteq DOMAIN new.ents /\ new.graph[id] = pending[id]
         \/ /\ id \notin DOMAIN pending
            /\ id \in DOMAIN snap.edges /\ Endpoints(id) \subseteq DOMAIN new.ents
            /\ new.graph[id].src = SourceOf(snap.by)
         \/ /\ ~(Endpoints(id) \subseteq DOMAIN new.ents /\ (id \in DOMAIN pending \/ id \in DOMAIN snap.edges))
            /\ id \in DOMAIN graph /\ new.graph[id] = graph[id]
  BY SMT, <1>2, <1>3, <1>4, <1>5, <1>6
<1>9. \A id \in DOMAIN new.pending :
         \/ id \in DOMAIN pending /\ new.pending[id] = pending[id]
         \/ id \in DOMAIN snap.edges /\ new.pending[id].src = SourceOf(snap.by)
  BY SMT, <1>2, <1>3, <1>4, <1>5
<1> QED BY <1>7, <1>8, <1>9 DEF EdgesMerged, new, pending, graph

\* Folding is merging as far as the edges go.
LEMMA FoldEdges ==
    ASSUME NEW inv, NEW snap, Closed(inv)
    PROVE  LET new == Fold(inv, snap)
           IN  /\ DOMAIN new.ents = DOMAIN inv.ents \cup Reported(snap)
               /\ EdgesMerged(inv, snap, DOMAIN new.ents, new.graph, new.pending)
<1> DEFINE mid == Merge(inv, snap)
           new == Fold(inv, snap)
<1>1. new.graph = mid.graph /\ new.pending = mid.pending /\ DOMAIN new.ents = DOMAIN mid.ents
  BY MergeClosed, MarkEnts DEF Fold
<1>2. DOMAIN mid.ents = DOMAIN inv.ents \cup Reported(snap)
  BY MergeEnts
<1>3. EdgesMerged(inv, snap, DOMAIN mid.ents, mid.graph, mid.pending)
  BY MergeEdges
<1> HIDE DEF mid, new
<1> QED BY <1>1, <1>2, <1>3 DEF new

\* Before the topology is merged: every stored edge is drawn, an edge owned by
\* the derivation is a stored one, and only declared edges wait for an end.
Drawn(inv) ==
    /\ DOMAIN db.edges \subseteq DOMAIN inv.graph
    /\ \A id \in DOMAIN inv.graph : inv.graph[id].src = "nfs" => id \in DOMAIN db.edges /\ db.edges[id].src = "nfs"
    /\ \A id \in DOMAIN inv.pending :
          id \in DOMAIN Declared.edges /\ inv.pending[id].src # "nfs" /\ ~(Endpoints(id) \subseteq DOMAIN inv.ents)

\* Every declared edge waits or is drawn, and not as a derived one.
Declaring(inv) ==
    \A id \in DOMAIN Declared.edges :
       id \in DOMAIN inv.pending \/ (id \in DOMAIN inv.graph /\ inv.graph[id].src # "nfs")

\* What is loaded has no edge pending.
LEMMA LoadDrawn == Drawn(LoadInventory)
<1>1. LoadInventory.graph = db.edges /\ DOMAIN LoadInventory.pending = {}
  BY DEF LoadInventory
<1> QED BY <1>1 DEF Drawn

\* A provider that is not the derivation keeps it so.
LEMMA FoldDrawn ==
    ASSUME NEW inv, NEW snap, Closed(inv), Drawn(inv), SourceOf(snap.by) # "nfs",
           \A id \in DOMAIN snap.edges : id \in DOMAIN Declared.edges \/ Endpoints(id) \subseteq Reported(snap)
    PROVE  /\ Drawn(Fold(inv, snap))
           /\ Declaring(inv) \/ DOMAIN snap.edges = DOMAIN Declared.edges => Declaring(Fold(inv, snap))
<1> DEFINE new == Fold(inv, snap)
           known == DOMAIN new.ents
<1>1. known = DOMAIN inv.ents \cup Reported(snap) /\ EdgesMerged(inv, snap, known, new.graph, new.pending)
  BY FoldEdges
<1> HIDE DEF new
<1>2. \A id \in DOMAIN snap.edges : ~(Endpoints(id) \subseteq known) => id \in DOMAIN Declared.edges
  BY <1>1
<1>3. \A id \in DOMAIN inv.pending : id \in DOMAIN Declared.edges /\ inv.pending[id].src # "nfs"
  BY DEF Drawn
<1>4. Drawn(new)
  <2>1. DOMAIN db.edges \subseteq DOMAIN new.graph
    BY <1>1 DEF Drawn, EdgesMerged
  <2>2. ASSUME NEW id \in DOMAIN new.graph, new.graph[id].src = "nfs"
        PROVE  id \in DOMAIN db.edges /\ db.edges[id].src = "nfs"
    BY <1>1, <1>3, <2>2 DEF Drawn, EdgesMerged
  <2>3. ASSUME NEW id \in DOMAIN new.pending
        PROVE  id \in DOMAIN Declared.edges /\ new.pending[id].src # "nfs" /\ ~(Endpoints(id) \subseteq known)
    BY <1>1, <1>2, <1>3 DEF EdgesMerged
  <2> QED BY <2>1, <2>2, <2>3 DEF Drawn
<1>5. ASSUME Declaring(inv) \/ DOMAIN snap.edges = DOMAIN Declared.edges PROVE Declaring(new)
  <2> SUFFICES ASSUME NEW id \in DOMAIN Declared.edges
               PROVE  id \in DOMAIN new.pending \/ (id \in DOMAIN new.graph /\ new.graph[id].src # "nfs")
    BY DEF Declaring
  <2>1. CASE id \in DOMAIN inv.pending
    BY <1>1, <1>3, <2>1 DEF EdgesMerged
  <2>2. CASE id \in DOMAIN snap.edges
    BY <1>1, <1>3, <2>2 DEF EdgesMerged
  <2>3. CASE id \in DOMAIN inv.graph /\ inv.graph[id].src # "nfs"
    BY <1>1, <1>3, <2>3 DEF EdgesMerged
  <2> QED BY <1>5, <2>1, <2>2, <2>3 DEF Declaring
<1> QED BY <1>4, <1>5 DEF new

\* What the derived topology leaves of the edges: its own are the drawn ones it
\* owns, it takes no declared edge away, and a stored edge that is no longer
\* drawn is one it owned and dropped.
Settled(inv, topology) ==
    /\ \A id \in DOMAIN inv.graph : inv.graph[id].src = "nfs" => id \in DOMAIN topology.edges
    /\ \A id \in DOMAIN topology.edges :
          id \in DOMAIN inv.graph /\ (inv.graph[id].src = "nfs" \/ id \in DOMAIN Declared.edges)
    /\ \A id \in DOMAIN Declared.edges : Endpoints(id) \subseteq DOMAIN inv.ents => id \in DOMAIN inv.graph

Dropped(inv, topology) ==
    \A id \in DOMAIN db.edges :
       id \in DOMAIN inv.graph \/ (db.edges[id].src = "nfs" /\ id \notin DOMAIN topology.edges)

\* After the topology pass, the derived edges are the ones just reported.
LEMMA TopologySettles ==
    ASSUME NEW inv, NEW topology, Closed(inv), Drawn(inv), Declaring(inv), topology.by = "nfs",
           DerivedFrom(inv, topology)
    PROVE  LET new == RetractAbsent(Fold(inv, topology), topology)
           IN  Settled(new, topology) /\ Dropped(new, topology)
<1> DEFINE mid == Fold(inv, topology)
           new == RetractAbsent(mid, topology)
           known == DOMAIN mid.ents
<1>0. SourceOf(topology.by) = "nfs"
  BY OwnSources
<1>1. known = DOMAIN inv.ents \cup Reported(topology) /\ EdgesMerged(inv, topology, known, mid.graph, mid.pending)
  BY FoldEdges
<1>2. \A id \in DOMAIN topology.edges : Endpoints(id) \subseteq known
  <2> HIDE DEF mid
  <2> QED BY <1>1 DEF DerivedFrom
<1>3. Closed(mid)
  BY FoldClosed
<1> HIDE DEF mid
<1>4. /\ new.ents = mid.ents
      /\ \A id : id \in DOMAIN new.graph <=>
            id \in DOMAIN mid.graph /\ (mid.graph[id].src # "nfs" \/ id \in DOMAIN topology.edges)
      /\ \A id \in DOMAIN new.graph : new.graph[id] = mid.graph[id]
  <2> DEFINE keep == {id \in DOMAIN mid.graph : mid.graph[id].src # SourceOf(topology.by) \/ id \in DOMAIN topology.edges}
  <2>1. new.ents = mid.ents /\ new.graph = Only(mid.graph, keep)
    BY <1>3, RetractEnts
  <2> HIDE DEF new
  <2> QED BY <1>0, <2>1 DEF Only
<1> HIDE DEF new
<1>5. \A id \in DOMAIN new.graph : new.graph[id].src = "nfs" => id \in DOMAIN topology.edges
  BY <1>4
<1>6. ASSUME NEW id \in DOMAIN topology.edges
      PROVE  id \in DOMAIN new.graph /\ (new.graph[id].src = "nfs" \/ id \in DOMAIN Declared.edges)
  <2>1. id \in DOMAIN mid.graph
    BY <1>1, <1>2 DEF EdgesMerged
  <2>2. mid.graph[id].src = "nfs" \/ id \in DOMAIN inv.pending
    BY <1>0, <1>1, <1>2, <2>1 DEF EdgesMerged
  <2> QED BY <1>4, <2>1, <2>2 DEF Drawn
<1>7. ASSUME NEW id \in DOMAIN Declared.edges, Endpoints(id) \subseteq DOMAIN new.ents
      PROVE  id \in DOMAIN new.graph
  <2>1. id \in DOMAIN mid.graph
    BY <1>1, <1>4, <1>7 DEF Declaring, EdgesMerged
  <2>2. mid.graph[id].src # "nfs" \/ id \in DOMAIN topology.edges
    BY SMT, <1>1, <1>4, <1>7, <2>1 DEF Declaring, Drawn, EdgesMerged
  <2> QED BY <1>4, <2>1, <2>2
<1>8. ASSUME NEW id \in DOMAIN db.edges
      PROVE  id \in DOMAIN new.graph \/ (db.edges[id].src = "nfs" /\ id \notin DOMAIN topology.edges)
  <2>1. id \in DOMAIN mid.graph
    BY <1>1 DEF Drawn, EdgesMerged
  <2>2. CASE mid.graph[id].src # "nfs" \/ id \in DOMAIN topology.edges
    BY <1>4, <2>1, <2>2
  <2>3. CASE mid.graph[id].src = "nfs" /\ id \notin DOMAIN topology.edges
    BY SMT, <1>1, <2>1, <2>3 DEF Drawn, EdgesMerged
  <2> QED BY <2>2, <2>3
<1>9. Settled(new, topology)
  BY <1>5, <1>6, <1>7 DEF Settled
<1>10. Dropped(new, topology)
  BY <1>8 DEF Dropped
<1> QED BY <1>9, <1>10 DEF new, mid

\* The declared snapshot is what is declared, and Slurm's edges run between what
\* it reports.
LEMMA SnapshotEdges ==
    ASSUME NEW view
    PROVE  /\ StaticSnapshot.by = "static" /\ DOMAIN StaticSnapshot.edges = DOMAIN Declared.edges
           /\ SlurmSnapshot(view).by = "slurm"
           /\ \A id \in DOMAIN SlurmSnapshot(view).edges : Endpoints(id) \subseteq Reported(SlurmSnapshot(view))
<1> DEFINE snap == SlurmSnapshot(view)
           compute == Entries(view.nodes, {ServiceId("slurmd", h) : h \in view.nodes}, "slurm.compute")
           control == Entries(view.ctl, {ServiceId("slurmctld", h) : h \in view.ctl}, "slurm.controller")
           itself == [e \in {SchedulerId} |-> {}]
           hosted == {EdgeId(ServiceId("slurmd", h), HostId(h), "hosted_on") : h \in view.nodes}
           ruled == {EdgeId(ServiceId("slurmctld", h), HostId(h), "hosted_on") : h \in view.ctl}
           provided == {EdgeId(SchedulerId, ServiceId("slurmctld", h), "provides") : h \in view.ctl}
           used == {EdgeId(HostId(h), SchedulerId, "uses_scheduler") : h \in view.nodes}
           edges == Override(Critically(hosted \cup ruled \cup provided), [id \in used |-> "important"])
           ents == <<itself, compute, control>>
<1>1. snap = [by |-> "slurm", ents |-> ents, edges |-> edges]
  BY DEF SlurmSnapshot
<1>2. DOMAIN edges = hosted \cup ruled \cup provided \cup used
  BY DEF Override, Critically
<1>3. /\ SchedulerId \in DOMAIN itself
      /\ \A h \in view.nodes : HostId(h) \in DOMAIN compute /\ ServiceId("slurmd", h) \in DOMAIN compute
      /\ \A h \in view.ctl : HostId(h) \in DOMAIN control /\ ServiceId("slurmctld", h) \in DOMAIN control
  BY DEF Entries
<1> HIDE DEF edges, itself, compute, control
<1>4. DOMAIN ents = {1, 2, 3} /\ ents[1] = itself /\ ents[2] = compute /\ ents[3] = control
  BY SMT
<1> HIDE DEF ents
<1>5. snap.by = "slurm" /\ snap.ents = ents /\ snap.edges = edges
  BY SMT, <1>1
<1> HIDE DEF snap
<1>6. DOMAIN itself \cup DOMAIN compute \cup DOMAIN control \subseteq Reported(snap)
  BY SMT, <1>4, <1>5 DEF Reported
<1>7. /\ \A id \in hosted : Endpoints(id) \subseteq Reported(snap)
      /\ \A id \in ruled : Endpoints(id) \subseteq Reported(snap)
      /\ \A id \in provided : Endpoints(id) \subseteq Reported(snap)
      /\ \A id \in used : Endpoints(id) \subseteq Reported(snap)
  BY SMT, <1>3, <1>6 DEF EdgeId, Endpoints
<1> HIDE DEF hosted, ruled, provided, used
<1>8. \A id \in DOMAIN snap.edges : Endpoints(id) \subseteq Reported(snap)
  BY <1>2, <1>5, <1>7
<1>9. StaticSnapshot.by = "static" /\ StaticSnapshot.edges = Declared.edges
  BY DEF StaticSnapshot
<1> QED BY <1>5, <1>8, <1>9 DEF snap

\* So a cycle that has looked has settled the edges.
LEMMA LookSettles ==
    ASSUME NEW view, NEW topology, NEW job, GraphClosed, Looked(job, view, topology)
    PROVE  Settled(job.inv, topology) /\ Dropped(job.inv, topology)
<1> DEFINE static == StaticSnapshot
           heard == SlurmSnapshot(view)
           declared == Fold(LoadInventory, static)
           full == Fold(declared, heard)
<1>0. /\ static.by = "static" /\ DOMAIN static.edges = DOMAIN Declared.edges
      /\ heard.by = "slurm" /\ \A id \in DOMAIN heard.edges : Endpoints(id) \subseteq Reported(heard)
      /\ SourceOf(static.by) # "nfs" /\ SourceOf(heard.by) # "nfs"
  BY SnapshotEdges, OwnSources
<1>1. /\ topology.by = "nfs"
      /\ \/ /\ job.inv = RetractAbsent(Fold(declared, topology), topology)
            /\ DerivedFrom(declared, topology)
         \/ /\ job.inv = RetractAbsent(Fold(full, topology), topology)
            /\ DerivedFrom(full, topology)
  BY DEF Looked
<1> HIDE DEF static, heard
<1>2. Closed(LoadInventory) /\ Drawn(LoadInventory)
  BY LoadClosed, LoadDrawn
<1>3. Closed(declared) /\ Drawn(declared) /\ Declaring(declared)
  BY <1>0, <1>2, FoldClosed, FoldDrawn
<1> HIDE DEF declared
<1>4. Closed(full) /\ Drawn(full) /\ Declaring(full)
  BY <1>0, <1>3, FoldClosed, FoldDrawn
<1> HIDE DEF full
<1> QED BY <1>1, <1>3, <1>4, TopologySettles

-----------------------------------------------------------------------------
(* The edges follow the reports.                                           *)

DerivedNow ==
    /\ \A id \in DOMAIN db.edges : db.edges[id].src = "nfs" => id \in told["nfs"].edges
    /\ \A id \in told["nfs"].edges :
          id \in DOMAIN db.edges /\ (db.edges[id].src = "nfs" \/ id \in DOMAIN Declared.edges)

DeclaredNow ==
    \A id \in told["static"].edges :
       Endpoints(id) \subseteq UNION {told[r].ents : r \in Reporter \ Host} => id \in DOMAIN db.edges

SameEdges(f, g) == DOMAIN f = DOMAIN g /\ \A id \in DOMAIN f : f[id] = g[id]

\* What a discovery cycle in progress knows about the edges.
InCycle(job) ==
    LET topology == Topology(job.snaps)
    IN  /\ topology \in Range(job.snaps) /\ topology.by = "nfs" /\ Settled(job.inv, topology)
        /\ \A s \in Range(job.snaps) : s.by = "static" => DOMAIN s.edges = DOMAIN Declared.edges

Cycling(job) ==
    /\ InCycle(job)
    /\ job.pc = "deps" => Dropped(job.inv, Topology(job.snaps))
    /\ job.pc = "save" => DOMAIN db.edges \subseteq DOMAIN job.inv.graph
    /\ job.pc = "caps" => SameEdges(db.edges, job.inv.graph) /\ DerivedNow /\ DeclaredNow

\* And a registration: it changes no edge.
InRegistration(job) == "static" \notin job.whole /\ \A s \in Range(job.snaps) : s.by \in Host

Registering(job) ==
    /\ InRegistration(job)
    /\ job.pc # "deps" /\ SameEdges(db.edges, job.inv.graph)

\* The inductive invariant, for one process.
EInv ==
    /\ SInv
    /\ told["static"].edges \subseteq DOMAIN Declared.edges
    /\ work[Daemon].pc \in {"idle", "deps", "save", "caps"}
    /\ (work[Daemon].pc # "idle" /\ "nfs" \in work[Daemon].whole) => Cycling(work[Daemon])
    /\ (work[Daemon].pc # "idle" /\ "nfs" \notin work[Daemon].whole) => Registering(work[Daemon])
    /\ (work[Daemon].pc = "idle" \/ "nfs" \notin work[Daemon].whole)
         => ("nfs" \notin torn => DerivedNow) /\ ("static" \notin torn => DeclaredNow)
    /\ (work[Daemon].pc = "idle" /\ torn # Reporter) => cache = StorageProviders(LoadInventory)

\* The storage providers are read off the edges.
LEMMA SameProviders ==
    ASSUME NEW inv, NEW other, DOMAIN inv.graph = DOMAIN other.graph, Closed(inv), Closed(other)
    PROVE  StorageProviders(inv) = StorageProviders(other)
<1> DEFINE feeds(i) == i[3] = "provides" /\ i[1][1] = "storage" /\ i[2][1] = "host"
<1>1. \A i \in DOMAIN inv.graph : Endpoints(i) \subseteq DOMAIN inv.ents /\ Endpoints(i) \subseteq DOMAIN other.ents
  BY DEF Closed
<1>2. StorageProviders(inv) = {<<id[2], id[1]>> : id \in {i \in DOMAIN inv.graph : feeds(i)}}
  BY <1>1 DEF StorageProviders
<1>3. StorageProviders(other) = {<<id[2], id[1]>> : id \in {i \in DOMAIN other.graph : feeds(i)}}
  BY <1>1 DEF StorageProviders
<1> HIDE DEF feeds
<1> QED BY <1>2, <1>3

\* No edge is stored at first.
LEMMA InitEInv == Init => EInv
<1> SUFFICES ASSUME Init PROVE EInv
  OBVIOUS
<1>1. SInv /\ work[Daemon].pc = "idle"
  BY InitSInv, RestingIdle, InventoryAssumption DEF Init
<1>2. \A r \in Reporter : told[r].edges = {} /\ told[r].ents = {}
  <2>1. Silent.edges = {} /\ Silent.ents = {}
    BY DEF Silent
  <2> HIDE DEF Silent
  <2> QED BY <2>1 DEF Init
<1>3. DOMAIN db.edges = {}
  BY DEF Init, NoTables
<1>4. StorageProviders(LoadInventory) = {}
  <2>1. LoadInventory.graph = db.edges
    BY DEF LoadInventory
  <2> QED BY <1>3, <2>1 DEF StorageProviders
<1>5. cache = {}
  BY DEF Init
<1>6. told["nfs"].edges = {} /\ told["static"].edges = {}
  BY <1>2, OwnSources
<1>7. DerivedNow /\ DeclaredNow
  BY <1>3, <1>6 DEF DerivedNow, DeclaredNow
<1> QED BY <1>1, <1>4, <1>5, <1>6, <1>7 DEF EInv

\* A worker that takes up a cycle or a registration.
LEMMA TakenEInv ==
    ASSUME EInv, SInv', db' = db, told' = told, torn' = torn, work[Daemon].pc = "idle",
           work'[Daemon].pc \in {"deps", "save"},
           \/ "nfs" \in work'[Daemon].whole /\ Cycling(work'[Daemon])
           \/ "nfs" \notin work'[Daemon].whole /\ Registering(work'[Daemon])
    PROVE  EInv'
<1> DEFINE job == work'[Daemon]
<1>1. DerivedNow' = DerivedNow /\ DeclaredNow' = DeclaredNow
  BY SMT DEF DerivedNow, DeclaredNow
<1>2. Cycling(job) => Cycling(work[Daemon])'
  BY <1>1 DEF Cycling, InCycle, Dropped, Settled, SameEdges
<1>3. Registering(job) => Registering(work[Daemon])'
  BY DEF Registering, InRegistration, SameEdges
<1> QED BY <1>1, <1>2, <1>3 DEF EInv

\* A discovery leaves the tables alone, and its inventory holds what it saw.
LEMMA LookEInv == EInv /\ Look(Daemon) => EInv'
<1> SUFFICES ASSUME EInv, Look(Daemon) PROVE EInv'
  OBVIOUS
<1>1. PICK view, topology, job : work' = [work EXCEPT ![Daemon] = job] /\ Looked(job, view, topology)
  BY LookIs, InventoryAssumption DEF EInv, SInv
<1>2. work'[Daemon] = job
  BY <1>1, InventoryAssumption DEF EInv, SInv, GInv
<1>3. Settled(job.inv, topology) /\ Dropped(job.inv, topology)
  BY <1>1, LookSettles DEF EInv, SInv, GInv
<1>4. /\ job.pc = "deps" /\ "nfs" \in job.whole /\ Topology(job.snaps) = topology
      /\ topology \in Range(job.snaps) /\ topology.by = "nfs"
      /\ Range(job.snaps) \subseteq {StaticSnapshot, SlurmSnapshot(view), topology}
  BY <1>1 DEF Looked
<1>5. \A s \in Range(job.snaps) : s.by = "static" => DOMAIN s.edges = DOMAIN Declared.edges
  BY <1>4, SnapshotEdges
<1>6. Cycling(job)
  BY <1>3, <1>4, <1>5 DEF Cycling, InCycle
<1>7. SInv'
  BY LookSInv DEF EInv
<1>8. db' = db /\ told' = told /\ torn' = torn /\ work[Daemon].pc = "idle"
  BY DEF Look
<1> QED BY <1>2, <1>4, <1>6, <1>7, <1>8, TakenEInv

\* A registration brings no edges.
LEMMA RegisterEInv == \A h \in Host : \A caps \in AgentCaps[h] : EInv /\ Register(h, caps) => EInv'
<1> SUFFICES ASSUME NEW h \in Host, NEW caps \in AgentCaps[h], EInv, Register(h, caps) PROVE EInv'
  OBVIOUS
<1> DEFINE snap == AgentSnapshot(h, caps)
           inv == Merge(LoadInventory, snap)
           snaps == <<snap>>
           job == [pc |-> "save", inv |-> inv, snaps |-> snaps, jobs |-> {}, whole |-> {h}]
<1>1. /\ work' = [work EXCEPT ![Daemon] = job] /\ db' = db /\ told' = told /\ torn' = torn
      /\ work[Daemon].pc = "idle"
  BY DEF Register
<1>2. snap.by = h /\ DOMAIN snap.edges = {}
  BY DEF AgentSnapshot, Critically
<1>3. SameEdges(db.edges, inv.graph)
  <2>1. LoadInventory.graph = db.edges /\ DOMAIN LoadInventory.pending = {}
    BY DEF LoadInventory
  <2>2. EdgesMerged(LoadInventory, snap, DOMAIN inv.ents, inv.graph, inv.pending)
    BY MergeEdges
  <2> HIDE DEF snap, inv
  <2>3. /\ \A id : id \in DOMAIN inv.graph <=> id \in DOMAIN db.edges
        /\ \A id \in DOMAIN inv.graph : inv.graph[id] = db.edges[id]
    BY <1>2, <2>1, <2>2 DEF EdgesMerged
  <2> QED BY <2>3 DEF SameEdges
<1> HIDE DEF snap, inv
<1>4. DOMAIN snaps = {1} /\ snaps[1] = snap
  BY SMT
<1> HIDE DEF snaps
<1>5. \A s \in Range(snaps) : s.by \in Host
  BY <1>2, <1>4 DEF Range
<1>6. job.pc = "save" /\ job.inv = inv /\ job.snaps = snaps /\ job.whole = {h}
  OBVIOUS
<1> HIDE DEF job
<1>7. "nfs" \notin job.whole /\ "static" \notin job.whole
  BY <1>6, OwnSources
<1>8. Registering(job)
  BY <1>3, <1>5, <1>6, <1>7 DEF Registering, InRegistration
<1>9. work'[Daemon] = job
  BY <1>1, InventoryAssumption DEF EInv, SInv, GInv
<1>10. SInv'
  BY RegisterSInv DEF EInv
<1> QED BY <1>1, <1>6, <1>7, <1>8, <1>9, <1>10, TakenEInv

\* The reconciliation of edges deletes what the derivation no longer gives.
LEMMA ReconcileEInv == EInv /\ ReconcileEdges(Daemon) => EInv'
<1> SUFFICES ASSUME EInv, ReconcileEdges(Daemon) PROVE EInv'
  OBVIOUS
<1> DEFINE W == work[Daemon]
           topology == Topology(W.snaps)
<1>1. /\ W.pc = "deps" /\ work' = [work EXCEPT ![Daemon].pc = "save"]
      /\ told' = told /\ torn' = torn /\ cache' = cache
      /\ db' = ReconcileDependencies("nfs", DOMAIN topology.edges)
  BY DEF ReconcileEdges
<1>2. "nfs" \in W.whole /\ Cycling(W)
  BY <1>1 DEF EInv, Registering
<1>3. /\ work'[Daemon].pc = "save" /\ work'[Daemon].inv = W.inv
      /\ work'[Daemon].snaps = W.snaps /\ work'[Daemon].whole = W.whole
  BY <1>1, StageOf, InventoryAssumption DEF EInv, SInv
<1>4. DOMAIN db'.edges \subseteq DOMAIN W.inv.graph
  <2> DEFINE keep == {id \in DOMAIN db.edges : db.edges[id].src # "nfs" \/ id \in DOMAIN topology.edges}
  <2>1. db'.edges = Only(db.edges, keep)
    <3>1. DOMAIN db = Tables
      BY DEF EInv, SInv, GInv
    <3>2. db' = [db EXCEPT !.edges = Only(db.edges, keep)]
      BY <1>1 DEF ReconcileDependencies
    <3> HIDE DEF keep
    <3> QED BY <3>1, <3>2 DEF Tables
  <2>2. DOMAIN db'.edges \subseteq keep
    BY <2>1 DEF Only
  <2>3. Dropped(W.inv, topology)
    BY <1>1, <1>2 DEF Cycling
  <2> QED BY <2>2, <2>3 DEF Dropped
<1>5. InCycle(W)
  BY <1>2 DEF Cycling
<1>6. InCycle(work[Daemon])'
  BY <1>3, <1>5 DEF InCycle, Settled
<1>7. Cycling(work[Daemon])'
  BY <1>3, <1>4, <1>6 DEF Cycling
<1>8. SInv'
  BY ReconcileSInv DEF EInv
<1> QED BY <1>1, <1>2, <1>3, <1>7, <1>8 DEF EInv

\* A worker that has saved: the stored edges are those of its inventory.
LEMMA ProceedEInv ==
    ASSUME SInv, SInv', work[Daemon].pc # "idle", NEW left, Proceed(Daemon, left),
           told'["static"].edges \subseteq DOMAIN Declared.edges,
           SameEdges(db'.edges, work[Daemon].inv.graph),
           \/ "nfs" \in work[Daemon].whole /\ InCycle(work[Daemon]) /\ DerivedNow' /\ DeclaredNow'
           \/ /\ "nfs" \notin work[Daemon].whole /\ InRegistration(work[Daemon])
              /\ "nfs" \notin torn => DerivedNow'
              /\ "static" \notin torn => DeclaredNow'
    PROVE  EInv'
<1> DEFINE W == work[Daemon]
<1>1. CASE left # {}
  <2>1. /\ work'[Daemon].pc = "caps" /\ work'[Daemon].inv = W.inv /\ work'[Daemon].snaps = W.snaps
        /\ work'[Daemon].whole = W.whole /\ torn' = torn
    BY <1>1, ProceedIs, InventoryAssumption DEF SInv
  <2>2. CASE "nfs" \in W.whole
    <3>1. InCycle(work[Daemon])'
      BY <2>1, <2>2 DEF InCycle, Settled
    <3>2. Cycling(work[Daemon])'
      BY <2>1, <2>2, <3>1 DEF Cycling
    <3> QED BY <2>1, <2>2, <3>2 DEF EInv
  <2>3. CASE "nfs" \notin W.whole
    <3>1. Registering(work[Daemon])'
      BY <2>1, <2>3 DEF Registering, InRegistration
    <3> QED BY <2>1, <2>3, <3>1 DEF EInv
  <2> QED BY <2>2, <2>3
<1>2. CASE left = {}
  <2>1. /\ work'[Daemon].pc = "idle" /\ torn' = torn \ W.whole
        /\ cache' = StorageProviders(W.inv)
    BY <1>2, ProceedIs, RestingIdle, InventoryAssumption DEF SInv
  <2>2. StorageProviders(W.inv) = StorageProviders(LoadInventory)'
    <3>1. Closed(LoadInventory)'
      BY LoadClosed, PTL DEF SInv, GInv
    <3>2. LoadInventory'.graph = db'.edges
      BY DEF LoadInventory
    <3>3. Closed(LoadInventory')
      BY <3>1 DEF Closed
    <3>4. Closed(W.inv)
      BY InventoryAssumption DEF SInv, GInv
    <3>5. DOMAIN W.inv.graph = DOMAIN LoadInventory'.graph
      BY <3>2 DEF SameEdges
    <3>6. StorageProviders(W.inv) = StorageProviders(LoadInventory')
      BY <3>3, <3>4, <3>5, SameProviders
    <3> QED BY <3>6 DEF StorageProviders
  <2>3. ("nfs" \notin torn' => DerivedNow') /\ ("static" \notin torn' => DeclaredNow')
    BY <2>1 DEF InRegistration
  <2> QED BY <2>1, <2>2, <2>3 DEF EInv
<1> QED BY <1>1, <1>2

\* The reconciliation of claims leaves the edges alone.
LEMMA ClaimsEInv == EInv /\ ReconcileClaims(Daemon) => EInv'
<1> SUFFICES ASSUME EInv, ReconcileClaims(Daemon) PROVE EInv'
  OBVIOUS
<1> DEFINE W == work[Daemon]
<1>1. /\ W.pc = "caps" /\ told' = told
      /\ \E e, src, caps : db' = ReconcileCapabilities(e, src, caps)
      /\ \E left : Proceed(Daemon, left)
  BY DEF ReconcileClaims
<1>2. db'.edges = db.edges
  BY <1>1, ReconciledClaims DEF EInv, SInv, GInv
<1>3. DerivedNow' = DerivedNow /\ DeclaredNow' = DeclaredNow
  BY SMT, <1>1, <1>2 DEF DerivedNow, DeclaredNow
<1>4. SInv'
  BY ReconcileSInv DEF EInv
<1>5. CASE "nfs" \in W.whole
  <2>1. Cycling(W)
    BY <1>1, <1>5 DEF EInv
  <2>2. InCycle(W) /\ DerivedNow' /\ DeclaredNow' /\ SameEdges(db'.edges, W.inv.graph)
    BY <1>1, <1>2, <1>3, <2>1 DEF Cycling
  <2> QED BY <1>1, <1>4, <1>5, <2>2, ProceedEInv DEF EInv
<1>6. CASE "nfs" \notin W.whole
  <2>1. Registering(W)
    BY <1>1, <1>6 DEF EInv
  <2>2. InRegistration(W) /\ SameEdges(db'.edges, W.inv.graph)
    BY <1>2, <2>1 DEF Registering
  <2>3. ("nfs" \notin torn => DerivedNow') /\ ("static" \notin torn => DeclaredNow')
    BY <1>3, <1>6 DEF EInv
  <2> QED BY <1>1, <1>4, <1>6, <2>2, <2>3, ProceedEInv DEF EInv
<1> QED BY <1>5, <1>6

\* The save writes the edges of the merged inventory.
LEMMA SaveEInv == EInv /\ Save(Daemon) => EInv'
<1> SUFFICES ASSUME EInv, Save(Daemon) PROVE EInv'
  OBVIOUS
<1> DEFINE W == work[Daemon]
           S == Range(W.snaps)
           topology == Topology(W.snaps)
<1>1. PICK first : db' = SaveInventory(W.inv, first)
  BY DEF Save
<1>2. W.pc = "save" /\ told' = Heard(W.snaps) /\ \E left : Proceed(Daemon, left)
  BY DEF Save
<1>3. SInv'
  BY SaveSInv DEF EInv
<1>4. \A r \in Reporter :
         \/ told'[r] = told[r] /\ \A s \in S : s.by # r
         \/ \E s \in S : s.by = r /\ told'[r].edges = DOMAIN s.edges
  BY SMT, <1>2, HeardEnts
<1>5. /\ DOMAIN db'.edges = DOMAIN W.inv.graph \cup DOMAIN db.edges
      /\ \A id \in DOMAIN W.inv.graph : db'.edges[id] = W.inv.graph[id]
  <2>1. db'.edges = Override(W.inv.graph, db.edges)
    BY <1>1 DEF SaveInventory
  <2> QED BY <2>1 DEF Override
<1>6. CASE "nfs" \in W.whole
  <2>1. InCycle(W) /\ DOMAIN db.edges \subseteq DOMAIN W.inv.graph
    BY <1>2, <1>6 DEF EInv, Cycling
  <2>2. SameEdges(db'.edges, W.inv.graph)
    BY <1>5, <2>1 DEF SameEdges
  <2>3. Settled(W.inv, topology) /\ topology \in S /\ topology.by = "nfs"
    BY <2>1 DEF InCycle
  <2>4. told'["nfs"].edges = DOMAIN topology.edges
    <3>1. Distinct(S)
      BY <1>2 DEF EInv, SInv, Heeds
    <3>2. PICK s \in S : s.by = "nfs" /\ told'["nfs"].edges = DOMAIN s.edges
      BY <1>4, <2>3, OwnSources
    <3>3. s = topology
      BY <2>3, <3>1, <3>2 DEF Distinct
    <3> QED BY <3>2, <3>3
  <2>5. DerivedNow'
    BY <2>2, <2>3, <2>4 DEF DerivedNow, Settled, SameEdges
  <2>6. told'["static"].edges \subseteq DOMAIN Declared.edges
    <3>1. \A s \in S : s.by = "static" => DOMAIN s.edges = DOMAIN Declared.edges
      BY <2>1 DEF InCycle
    <3>2. told["static"].edges \subseteq DOMAIN Declared.edges
      BY DEF EInv
    <3> QED BY <1>4, <3>1, <3>2, OwnSources
  <2>7. DeclaredNow'
    <3>1. \A r \in Reporter : told'[r].ents \subseteq DOMAIN db'.life
      BY <1>3 DEF SInv
    <3>2. DOMAIN db'.life = DOMAIN W.inv.ents \cup DOMAIN db.life
      BY <1>1, SavedTables
    <3>3. DOMAIN db.life \subseteq DOMAIN W.inv.ents
      BY <1>2 DEF EInv, SInv, Heeds, Tracks
    <3>4. UNION {told'[r].ents : r \in Reporter \ Host} \subseteq DOMAIN W.inv.ents
      BY <3>1, <3>2, <3>3
    <3>5. \A id \in DOMAIN Declared.edges : Endpoints(id) \subseteq DOMAIN W.inv.ents => id \in DOMAIN db'.edges
      BY <1>5, <2>3 DEF Settled
    <3> QED BY <2>6, <3>4, <3>5 DEF DeclaredNow
  <2> QED BY <1>2, <1>3, <1>6, <2>1, <2>2, <2>5, <2>6, <2>7, ProceedEInv DEF EInv
<1>7. CASE "nfs" \notin W.whole
  <2>1. Registering(W)
    BY <1>2, <1>7 DEF EInv
  <2>2. SameEdges(db'.edges, W.inv.graph) /\ SameEdges(db.edges, db'.edges)
    BY <1>5, <2>1 DEF Registering, SameEdges
  <2>3. \A r \in Reporter \ Host : told'[r] = told[r]
    BY SMT, <1>4, <2>1 DEF Registering, InRegistration
  <2>4. told'["nfs"] = told["nfs"] /\ told'["static"] = told["static"]
    BY <2>3, OwnSources
  <2>5. DerivedNow => DerivedNow'
    BY <2>2, <2>4 DEF DerivedNow, SameEdges
  <2>6. DeclaredNow => DeclaredNow'
    <3>1. {told'[r].ents : r \in Reporter \ Host} = {told[r].ents : r \in Reporter \ Host}
      BY <2>3
    <3>2. DOMAIN db'.edges = DOMAIN db.edges
      BY <2>2 DEF SameEdges
    <3> QED BY <2>4, <3>1, <3>2 DEF DeclaredNow
  <2>7. ("nfs" \notin torn => DerivedNow') /\ ("static" \notin torn => DeclaredNow')
    BY <1>7, <2>5, <2>6 DEF EInv
  <2>8. InRegistration(W) /\ told'["static"].edges \subseteq DOMAIN Declared.edges
    BY <2>1, <2>4 DEF Registering, EInv
  <2> QED BY <1>2, <1>3, <1>7, <2>2, <2>7, <2>8, ProceedEInv DEF EInv
<1> QED BY <1>6, <1>7

\* Every step of one process keeps the stored edges in step with the reports.
LEMMA StepEInv == Worker = {Daemon} /\ EInv /\ [Next]_vars => EInv'
<1> SUFFICES ASSUME Worker = {Daemon}, EInv, [Next]_vars PROVE EInv'
  OBVIOUS
<1>0. SInv'
  BY StepSInv DEF EInv
<1>1. CASE Interrupt(Daemon) \/ Restart
  <2>1. db' = db /\ told' = told /\ work' = [work EXCEPT ![Daemon] = Resting]
    BY <1>1 DEF Interrupt, Restart
  <2>2. work'[Daemon].pc = "idle"
    BY <2>1, RestingIdle, InventoryAssumption DEF EInv, SInv, GInv
  <2>3. torn' = Reporter \/ (work[Daemon].pc = "idle" /\ torn' = torn)
    BY <1>1 DEF Interrupt, Restart
  <2>4. torn' = Reporter \/ cache' = StorageProviders(LoadInventory)'
    <3>1. StorageProviders(LoadInventory)' = StorageProviders(LoadInventory)
      BY <2>1 DEF StorageProviders, LoadInventory
    <3> QED BY <1>1, <3>1 DEF Interrupt, Restart
  <2>5. DerivedNow' = DerivedNow /\ DeclaredNow' = DeclaredNow
    BY SMT, <2>1 DEF DerivedNow, DeclaredNow
  <2>6. ("nfs" \notin torn' => DerivedNow') /\ ("static" \notin torn' => DeclaredNow')
    BY <2>3, <2>5, OwnSources DEF EInv
  <2> QED BY <1>0, <2>1, <2>2, <2>4, <2>6 DEF EInv
<1>2. CASE UNCHANGED vars
  <2>1. /\ DerivedNow' = DerivedNow /\ DeclaredNow' = DeclaredNow
        /\ StorageProviders(LoadInventory)' = StorageProviders(LoadInventory)
    BY SMT, <1>2 DEF DerivedNow, DeclaredNow, StorageProviders, LoadInventory, vars
  <2>2. /\ Cycling(work[Daemon])' = Cycling(work[Daemon])
        /\ Registering(work[Daemon])' = Registering(work[Daemon])
    BY <1>2, <2>1 DEF Cycling, InCycle, Settled, Dropped, SameEdges, Registering, InRegistration, vars
  <2> QED BY <1>0, <1>2, <2>1, <2>2 DEF EInv, vars
<1> QED BY <1>1, <1>2, LookEInv, RegisterEInv, ReconcileEInv, SaveEInv, ClaimsEInv DEF Next

\* With one process over the database, the stored graph follows what was last
\* reported.  After a cycle nothing interrupted, a derived storage edge is one
\* the last mount reports give and every such edge is stored
\* (retract_absent_dependencies and reconcile_dependencies agree), no declared
\* edge between reported entities is lost although the derivation may own its
\* row when it retracts it (offer_edge, resolve_pending), and the daemon's storage
\* providers are those of the stored graph (storage_providers).
THEOREM EdgesDoFollow == (Worker = {Daemon}) => (Spec => []EdgesFollowReports)
<1> SUFFICES ASSUME Worker = {Daemon} PROVE Spec => []EdgesFollowReports
  OBVIOUS
<1>1. EInv /\ [Next]_vars => EInv'
  BY StepEInv
<1>2. EInv => EdgesFollowReports
  <2> SUFFICES ASSUME EInv PROVE EdgesFollowReports
    OBVIOUS
  <2>1. GraphClosed
    BY DEF EInv, SInv, GInv
  <2>2. Quiet <=> work[Daemon].pc = "idle"
    BY DEF Quiet
  <2>3. DerivedEdgesCurrent /\ DeclaredEdgesKept
    BY <2>2 DEF EInv, DerivedEdgesCurrent, DeclaredEdgesKept, DerivedNow, DeclaredNow
  <2>4. CacheFresh
    BY <2>2, OwnSources DEF EInv, CacheFresh
  <2> QED BY <2>1, <2>3, <2>4 DEF EdgesFollowReports
<1> QED BY <1>1, <1>2, InitEInv, PTL DEF Spec

-----------------------------------------------------------------------------
(* The capabilities follow the claims.                                     *)

\* What an inventory holds is stored or claimed by a snapshot it has taken in.
Grounded(inv, S) == Rows(inv) \subseteq DOMAIN db.caps \cup UNION {Claims(s) : s \in S}

Paired == \A k \in DOMAIN db.caps : k = <<k[1], k[2]>>

\* A loaded capability is a stored one.
LEMMA LoadGrounded == Paired => Grounded(LoadInventory, {})
<1> SUFFICES ASSUME Paired PROVE Grounded(LoadInventory, {})
  OBVIOUS
<1>1. DOMAIN LoadInventory.ents = DOMAIN db.life
  BY DEF LoadInventory
<1>2. \A e \in DOMAIN db.life : LoadInventory.ents[e].caps = {k[2] : k \in {j \in DOMAIN db.caps : j[1] = e}}
  BY DEF LoadInventory
<1>3. ASSUME NEW e \in DOMAIN db.life, NEW c \in LoadInventory.ents[e].caps PROVE <<e, c>> \in DOMAIN db.caps
  BY SMT, <1>2, <1>3 DEF Paired
<1>4. Rows(LoadInventory) \subseteq DOMAIN db.caps
  BY SMT, <1>1, <1>3 DEF Rows
<1> QED BY <1>4 DEF Grounded

\* A merge adds the capabilities its snapshot claims, and no other.
LEMMA MergeGrounded ==
    ASSUME NEW inv, NEW S, NEW snap, Grounded(inv, S)
    PROVE  Grounded(Merge(inv, snap), S \cup {snap})
<1> DEFINE new == Merge(inv, snap)
<1>1. /\ DOMAIN new.ents = DOMAIN inv.ents \cup Reported(snap)
      /\ \A e \in DOMAIN new.ents \ Reported(snap) : new.ents[e] = inv.ents[e]
  BY SMT, MergeEnts
<1>2. \A e \in Reported(snap) :
         new.ents[e].caps = ClaimedFor(snap, e) \cup (IF e \in DOMAIN inv.ents THEN inv.ents[e].caps ELSE {})
  <2>1. \A e \in Reported(snap) : new.ents[e] = MergeInto(inv, snap, e)
    BY MergeEnts
  <2>2. \A e : MergeInto(inv, snap, e).caps
                 = ClaimedFor(snap, e) \cup (IF e \in DOMAIN inv.ents THEN inv.ents[e].caps ELSE {})
    BY DEF MergeInto
  <2> HIDE DEF new
  <2> QED BY <2>1, <2>2
<1> HIDE DEF new
<1>3. ASSUME NEW e \in DOMAIN new.ents, NEW c \in new.ents[e].caps
      PROVE  <<e, c>> \in Rows(inv) \/ <<e, c>> \in Claims(snap)
  <2>1. CASE e \in Reported(snap) /\ c \in ClaimedFor(snap, e)
    BY SMT, <2>1 DEF Claims
  <2>2. CASE e \in DOMAIN inv.ents /\ c \in inv.ents[e].caps
    BY SMT, <2>2 DEF Rows
  <2> QED BY <1>1, <1>2, <1>3, <2>1, <2>2
<1>4. Rows(new) \subseteq Rows(inv) \cup Claims(snap)
  BY SMT, <1>3 DEF Rows
<1>5. Grounded(new, S \cup {snap})
  BY <1>4 DEF Grounded
<1> QED BY <1>5 DEF new

\* The rows are read off the entities' capabilities.
LEMMA SameRows ==
    ASSUME NEW inv, NEW other, DOMAIN inv.ents = DOMAIN other.ents,
           \A e \in DOMAIN inv.ents : inv.ents[e].caps = other.ents[e].caps
    PROVE  Rows(inv) = Rows(other)
  BY DEF Rows

\* So does a fold.
LEMMA FoldGrounded ==
    ASSUME NEW inv, NEW S, NEW snap, Grounded(inv, S), Closed(inv)
    PROVE  Grounded(Fold(inv, snap), S \cup {snap})
<1> DEFINE mid == Merge(inv, snap)
<1>1. Closed(mid) /\ Grounded(mid, S \cup {snap})
  BY MergeClosed, MergeGrounded
<1> HIDE DEF mid
<1>2. /\ DOMAIN MarkAbsentAsStale(mid, snap).ents = DOMAIN mid.ents
      /\ \A e \in DOMAIN mid.ents : MarkAbsentAsStale(mid, snap).ents[e].caps = mid.ents[e].caps
  BY <1>1, MarkEnts
<1>3. Rows(MarkAbsentAsStale(mid, snap)) = Rows(mid)
  BY <1>2, SameRows
<1>4. Grounded(MarkAbsentAsStale(mid, snap), S \cup {snap})
  BY <1>1, <1>3 DEF Grounded
<1> QED BY <1>4 DEF Fold, mid

\* Retracting what is absent adds none.
LEMMA RetractGrounded ==
    ASSUME NEW inv, NEW S, NEW snap, Grounded(inv, S), Closed(inv)
    PROVE  Grounded(RetractAbsent(inv, snap), S)
<1>1. RetractAbsent(inv, snap).ents = inv.ents
  BY RetractEnts
<1> QED BY SMT, <1>1 DEF Grounded, Rows

\* Whatever a discovery holds was stored or claimed by one of its snapshots.
LEMMA LookGrounded ==
    ASSUME NEW view, NEW topology, NEW job, GraphClosed, Paired, Looked(job, view, topology)
    PROVE  Grounded(job.inv, Range(job.snaps))
<1> DEFINE static == StaticSnapshot
           heard == SlurmSnapshot(view)
           declared == Fold(LoadInventory, static)
           full == Fold(declared, heard)
<1>1. \/ /\ job.inv = RetractAbsent(Fold(declared, topology), topology)
         /\ Range(job.snaps) = {static, topology}
      \/ /\ job.inv = RetractAbsent(Fold(full, topology), topology)
         /\ Range(job.snaps) = {static, heard, topology}
  BY DEF Looked
<1> HIDE DEF static, heard
<1>2. Closed(LoadInventory) /\ Grounded(LoadInventory, {})
  BY LoadClosed, LoadGrounded
<1>3. Closed(declared) /\ Grounded(declared, {} \cup {static})
  BY <1>2, FoldClosed, FoldGrounded
<1> HIDE DEF declared
<1>4. Closed(full) /\ Grounded(full, ({} \cup {static}) \cup {heard})
  BY <1>3, FoldClosed, FoldGrounded
<1> HIDE DEF full
<1>5. ASSUME NEW inv, NEW S, Closed(inv), Grounded(inv, S)
      PROVE  Grounded(RetractAbsent(Fold(inv, topology), topology), S \cup {topology})
  BY <1>5, FoldClosed, FoldGrounded, RetractGrounded
<1>6. CASE /\ job.inv = RetractAbsent(Fold(declared, topology), topology)
           /\ Range(job.snaps) = {static, topology}
  <2>1. Range(job.snaps) = ({} \cup {static}) \cup {topology}
    BY <1>6
  <2> QED BY SMT, <1>3, <1>5, <1>6, <2>1
<1>7. CASE /\ job.inv = RetractAbsent(Fold(full, topology), topology)
           /\ Range(job.snaps) = {static, heard, topology}
  <2>1. Range(job.snaps) = (({} \cup {static}) \cup {heard}) \cup {topology}
    BY <1>7
  <2> QED BY SMT, <1>4, <1>5, <1>7, <2>1
<1> QED BY <1>1, <1>6, <1>7

-----------------------------------------------------------------------------
By(snaps, p) == snaps[p[1]].by
Asserts(snaps, p) == snaps[p[1]].ents[p[2]][p[3]]

\* The reconciliations that stand for a claim.
LEMMA JobsOf ==
    ASSUME NEW snaps
    PROVE  /\ \A p \in CapabilityJobs(snaps) :
                 /\ p[1] \in DOMAIN snaps /\ snaps[p[1]] \in Range(snaps)
                 /\ p[2] \in DOMAIN snaps[p[1]].ents /\ p[3] \in DOMAIN snaps[p[1]].ents[p[2]]
                 /\ p[3] \in Reported(snaps[p[1]])
                 /\ \A c \in Asserts(snaps, p) : <<p[3], c>> \in Claims(snaps[p[1]])
           /\ \A s \in Range(snaps) : \A e \in Reported(s) :
                 \E p \in CapabilityJobs(snaps) : p[3] = e /\ By(snaps, p) = s.by
           /\ \A s \in Range(snaps) : \A k \in Claims(s) :
                 \E p \in CapabilityJobs(snaps) :
                    p[3] = k[1] /\ By(snaps, p) = s.by /\ k[2] \in Asserts(snaps, p)
<1>1. ASSUME NEW p \in CapabilityJobs(snaps)
      PROVE  \E i \in DOMAIN snaps : \E j \in DOMAIN snaps[i].ents : \E e \in DOMAIN snaps[i].ents[j] : p = <<i, j, e>>
  BY SMT DEF CapabilityJobs
<1>2. ASSUME NEW i \in DOMAIN snaps, NEW j \in DOMAIN snaps[i].ents, NEW e \in DOMAIN snaps[i].ents[j]
      PROVE  <<i, j, e>> \in CapabilityJobs(snaps)
  BY SMT DEF CapabilityJobs
<1>3. ASSUME NEW p \in CapabilityJobs(snaps)
      PROVE  /\ p[1] \in DOMAIN snaps /\ p[2] \in DOMAIN snaps[p[1]].ents
             /\ p[3] \in DOMAIN snaps[p[1]].ents[p[2]]
  BY SMT, <1>1
<1>4. \A i \in DOMAIN snaps : snaps[i] \in Range(snaps)
  BY DEF Range
<1>5. \A s : \A j \in DOMAIN s.ents : DOMAIN s.ents[j] \subseteq Reported(s)
  BY DEF Reported
<1>6. \A s : \A j \in DOMAIN s.ents : \A e \in DOMAIN s.ents[j] : s.ents[j][e] \subseteq ClaimedFor(s, e)
  BY DEF ClaimedFor
<1>7. \A s : \A e \in Reported(s) : \A c \in ClaimedFor(s, e) : <<e, c>> \in Claims(s)
  BY SMT DEF Claims
<1>8. ASSUME NEW p \in CapabilityJobs(snaps), NEW c \in Asserts(snaps, p)
      PROVE  <<p[3], c>> \in Claims(snaps[p[1]])
  <2>1. c \in ClaimedFor(snaps[p[1]], p[3])
    BY <1>3, <1>6, <1>8 DEF Asserts
  <2> QED BY <1>3, <1>5, <1>7, <2>1
<1>9. ASSUME NEW s \in Range(snaps), NEW e \in Reported(s)
      PROVE  \E p \in CapabilityJobs(snaps) : p[3] = e /\ By(snaps, p) = s.by
  <2>1. PICK i \in DOMAIN snaps : snaps[i] = s
    BY DEF Range
  <2>2. PICK j \in DOMAIN s.ents : e \in DOMAIN s.ents[j]
    BY <1>9 DEF Reported
  <2>3. <<i, j, e>> \in CapabilityJobs(snaps)
    BY <1>2, <2>1, <2>2
  <2> QED BY <2>1, <2>3 DEF By
<1>10. ASSUME NEW s \in Range(snaps), NEW k \in Claims(s)
       PROVE  \E p \in CapabilityJobs(snaps) : p[3] = k[1] /\ By(snaps, p) = s.by /\ k[2] \in Asserts(snaps, p)
  <2>1. PICK i \in DOMAIN snaps : snaps[i] = s
    BY DEF Range
  <2>2. k[2] \in ClaimedFor(s, k[1])
    BY SMT, <1>10 DEF Claims
  <2>3. PICK j \in DOMAIN s.ents : k[1] \in DOMAIN s.ents[j] /\ k[2] \in s.ents[j][k[1]]
    BY <2>2 DEF ClaimedFor
  <2> DEFINE p == <<i, j, k[1]>>
  <2>4. p \in CapabilityJobs(snaps)
    BY <1>2, <2>1, <2>3
  <2>5. p[1] = i /\ p[2] = j /\ p[3] = k[1]
    OBVIOUS
  <2> HIDE DEF p
  <2>6. By(snaps, p) = s.by /\ k[2] \in Asserts(snaps, p)
    BY <2>1, <2>3, <2>5 DEF By, Asserts
  <2> QED BY <2>4, <2>5, <2>6
<1> QED BY <1>3, <1>4, <1>5, <1>8, <1>9, <1>10

\* For the reporters R, with the reconciliations J still to come: a row owned by
\* one that reports the entity is claimed, or a reconciliation will see to it.
Retracted(rows, said, R, snaps, J) ==
    \A r \in R : \A k \in DOMAIN rows :
       (SourceOf(r) = rows[k] /\ k[1] \in said[r].ents)
         => \/ k \in said[r].claims
            \/ \E p \in J : p[3] = k[1] /\ (SourceOf(By(snaps, p)) = SourceOf(r) \/ k[2] \in Asserts(snaps, p))

\* And what one of them alone firmly claims is stored as its own, or will be.
Kept(rows, said, R, snaps, J) ==
    \A r \in R : \A k \in said[r].firm :
       (\A q \in Reporter \ {r} : k \notin said[q].once)
         => \/ k \in DOMAIN rows /\ rows[k] = SourceOf(r)
            \/ \E p \in J : p[3] = k[1] /\ By(snaps, p) = r /\ k[2] \in Asserts(snaps, p)

\* An agent speaks of its own host only.
OwnHost(r, ents) == r \in Host => ents \subseteq {HostId(r)}

Speakers(job) == {s.by : s \in Range(job.snaps)}

Spoken(job) ==
    /\ \A s \in Range(job.snaps) : s.by \in Reporter /\ OwnHost(s.by, Reported(s))
    /\ Distinct(Range(job.snaps))
    /\ job.whole \subseteq Speakers(job)

\* The snapshots are the last reports, once saved.
Noted(said, job) ==
    \A s \in Range(job.snaps) :
       said[s.by].ents = Reported(s) /\ said[s.by].claims = Claims(s) /\ said[s.by].firm = Firm(s)

Sound(said) ==
    \A r \in Reporter :
       /\ OwnHost(r, said[r].ents)
       /\ said[r].firm \subseteq said[r].claims /\ said[r].claims \subseteq said[r].once
       /\ \A k \in said[r].claims : k[1] \in said[r].ents

\* The inductive invariant, for one process.
CInv ==
    /\ SInv /\ Paired /\ Sound(told)
    /\ work[Daemon].pc \in {"idle", "deps", "save", "caps"}
    /\ work[Daemon].pc # "idle" => Spoken(work[Daemon])
    /\ work[Daemon].pc \in {"deps", "save"} => Grounded(work[Daemon].inv, Range(work[Daemon].snaps))
    /\ work[Daemon].pc # "caps" =>
          Retracted(db.caps, told, Reporter \ torn, <<>>, {}) /\ Kept(db.caps, told, Reporter \ torn, <<>>, {})
    /\ work[Daemon].pc = "caps" =>
          /\ work[Daemon].jobs \subseteq CapabilityJobs(work[Daemon].snaps) /\ Noted(told, work[Daemon])
          /\ LET R == (Reporter \ torn) \cup Speakers(work[Daemon])
             IN  /\ Retracted(db.caps, told, R, work[Daemon].snaps, work[Daemon].jobs)
                 /\ Kept(db.caps, told, R, work[Daemon].snaps, work[Daemon].jobs)

\* A source and an entity it reports determine who spoke.
LEMMA SameReporter ==
    ASSUME NEW r \in Reporter, NEW q \in Reporter, NEW A, NEW B, NEW e,
           OwnHost(r, A), OwnHost(q, B), e \in A, e \in B, SourceOf(r) = SourceOf(q)
    PROVE  r = q
<1>1. CASE r \in Host /\ q \in Host
  <2>1. HostId(r) = HostId(q)
    BY <1>1 DEF OwnHost
  <2> QED BY <2>1 DEF HostId
<1>2. CASE r \in Host /\ q \notin Host
  BY <1>2 DEF SourceOf, Reporter
<1>3. CASE r \notin Host /\ q \in Host
  BY <1>3 DEF SourceOf, Reporter
<1>4. CASE r \notin Host /\ q \notin Host
  BY <1>4 DEF SourceOf
<1> QED BY <1>1, <1>2, <1>3, <1>4

\* The rows after a reconciliation.
LEMMA ReconciledRows ==
    ASSUME DOMAIN db = Tables, Paired, NEW e, NEW src, NEW caps
    PROVE  LET new == ReconcileCapabilities(e, src, caps).caps
           IN  /\ \A k \in DOMAIN new :
                     /\ k = <<k[1], k[2]>>
                     /\ \/ k[1] = e /\ k[2] \in caps /\ new[k] = src
                        \/ /\ ~(k[1] = e /\ k[2] \in caps)
                           /\ k \in DOMAIN db.caps /\ new[k] = db.caps[k]
                           /\ k[1] = e => db.caps[k] # src
               /\ \A c \in caps : <<e, c>> \in DOMAIN new /\ new[<<e, c>>] = src
               /\ \A k \in DOMAIN db.caps :
                     k[1] # e \/ (db.caps[k] # src /\ k[2] \notin caps) => k \in DOMAIN new /\ new[k] = db.caps[k]
<1> DEFINE mine == [k \in {e} \X caps |-> src]
           kept == {k \in DOMAIN db.caps : k[1] # e \/ db.caps[k] # src \/ k[2] \in caps}
           rest == Only(db.caps, kept)
           new == ReconcileCapabilities(e, src, caps).caps
<1>1. new = Override(mine, rest)
  <2>1. ReconcileCapabilities(e, src, caps) = [db EXCEPT !.caps = Override(mine, rest)]
    BY DEF ReconcileCapabilities
  <2> HIDE DEF mine, rest
  <2> QED BY <2>1 DEF Tables
<1> HIDE DEF new
<1>2. /\ \A k : k \in DOMAIN mine <=> k = <<k[1], k[2]>> /\ k[1] = e /\ k[2] \in caps
      /\ \A k \in DOMAIN mine : mine[k] = src
      /\ \A c \in caps : <<e, c>> \in DOMAIN mine
  BY SMT
<1>3. /\ \A k : k \in DOMAIN rest <=> k \in DOMAIN db.caps /\ (k[1] # e \/ db.caps[k] # src \/ k[2] \in caps)
      /\ \A k \in DOMAIN rest : rest[k] = db.caps[k]
  BY DEF Only
<1> HIDE DEF mine, rest
<1>4. /\ \A k : k \in DOMAIN new <=> k \in DOMAIN mine \/ k \in DOMAIN rest
      /\ \A k \in DOMAIN mine : new[k] = mine[k]
      /\ \A k \in DOMAIN rest : k \notin DOMAIN mine => new[k] = rest[k]
  BY <1>1 DEF Override
<1>5. \A k \in DOMAIN db.caps : k = <<k[1], k[2]>>
  BY DEF Paired
<1>6. ASSUME NEW k \in DOMAIN new
      PROVE  /\ k = <<k[1], k[2]>>
             /\ \/ k[1] = e /\ k[2] \in caps /\ new[k] = src
                \/ /\ ~(k[1] = e /\ k[2] \in caps)
                   /\ k \in DOMAIN db.caps /\ new[k] = db.caps[k]
                   /\ k[1] = e => db.caps[k] # src
  <2>1. CASE k \in DOMAIN mine
    BY <1>2, <1>4, <2>1
  <2>2. CASE k \notin DOMAIN mine
    BY <1>2, <1>3, <1>4, <1>5, <1>6, <2>2
  <2> QED BY <2>1, <2>2
<1>7. \A c \in caps : <<e, c>> \in DOMAIN new /\ new[<<e, c>>] = src
  BY <1>2, <1>4
<1>8. \A k \in DOMAIN db.caps :
         k[1] # e \/ (db.caps[k] # src /\ k[2] \notin caps) => k \in DOMAIN new /\ new[k] = db.caps[k]
  BY <1>2, <1>3, <1>4
<1> QED BY <1>6, <1>7, <1>8 DEF new

\* Nobody has claimed anything at first.
LEMMA InitCInv == Init => CInv
<1> SUFFICES ASSUME Init PROVE CInv
  OBVIOUS
<1>1. SInv /\ work[Daemon].pc = "idle"
  BY InitSInv, RestingIdle, InventoryAssumption DEF Init
<1>2. \A r \in Reporter : /\ told[r].ents = {} /\ told[r].claims = {} /\ told[r].firm = {}
                          /\ told[r].once = {}
  <2>1. Silent.ents = {} /\ Silent.claims = {} /\ Silent.firm = {} /\ Silent.once = {}
    BY DEF Silent
  <2> HIDE DEF Silent
  <2> QED BY <2>1 DEF Init
<1>3. DOMAIN db.caps = {}
  BY DEF Init, NoTables
<1>4. Retracted(db.caps, told, Reporter \ torn, <<>>, {}) /\ Kept(db.caps, told, Reporter \ torn, <<>>, {})
  BY <1>2, <1>3 DEF Retracted, Kept
<1> QED BY <1>1, <1>2, <1>3, <1>4 DEF CInv, Paired, Sound, OwnHost

\* A worker that takes up a cycle or a registration.
LEMMA TakenCInv ==
    ASSUME CInv, SInv', db' = db, told' = told, torn' = torn, work[Daemon].pc = "idle",
           work'[Daemon].pc \in {"deps", "save"}, Spoken(work'[Daemon]),
           Grounded(work'[Daemon].inv, Range(work'[Daemon].snaps))
    PROVE  CInv'
<1>1. /\ Retracted(db.caps, told, Reporter \ torn, <<>>, {})'
      /\ Kept(db.caps, told, Reporter \ torn, <<>>, {})'
      /\ Paired' /\ Sound(told)'
  BY SMT DEF CInv, Retracted, Kept, Paired, Sound, By, Asserts
<1>2. Spoken(work[Daemon])'
  BY DEF Spoken, Speakers
<1>3. Grounded(work[Daemon].inv, Range(work[Daemon].snaps))'
  BY DEF Grounded
<1> QED BY <1>1, <1>2, <1>3 DEF CInv

\* A discovery leaves the tables and the reports alone.
LEMMA LookCInv == CInv /\ Look(Daemon) => CInv'
<1> SUFFICES ASSUME CInv, Look(Daemon) PROVE CInv'
  OBVIOUS
<1>1. PICK view, topology, job : work' = [work EXCEPT ![Daemon] = job] /\ Looked(job, view, topology)
  BY LookIs, InventoryAssumption DEF CInv, SInv
<1>2. work'[Daemon] = job
  BY <1>1, InventoryAssumption DEF CInv, SInv, GInv
<1>3. Heeds(job)
  BY <1>1, LookHeeds DEF CInv, SInv, GInv
<1>4. Grounded(job.inv, Range(job.snaps))
  BY <1>1, LookGrounded DEF CInv, SInv, GInv
<1>5. /\ job.pc = "deps" /\ topology.by = "nfs"
      /\ \/ Range(job.snaps) = {StaticSnapshot, topology} /\ job.whole = {"static", "nfs"}
         \/ /\ Range(job.snaps) = {StaticSnapshot, SlurmSnapshot(view), topology}
            /\ job.whole \subseteq {"static", "slurm", "nfs"}
  BY <1>1 DEF Looked
<1>6. StaticSnapshot.by = "static" /\ SlurmSnapshot(view).by = "slurm"
  BY SnapshotEdges
<1>7. \A s \in Range(job.snaps) : s.by \in Reporter /\ s.by \notin Host
  BY <1>5, <1>6, OwnSources
<1>8. job.whole \subseteq Speakers(job)
  BY <1>5, <1>6 DEF Speakers
<1>9. Spoken(job)
  BY <1>3, <1>7, <1>8 DEF Spoken, OwnHost, Heeds
<1>10. SInv'
  BY LookSInv DEF CInv
<1>11. db' = db /\ told' = told /\ torn' = torn /\ work[Daemon].pc = "idle"
  BY DEF Look
<1> QED BY <1>2, <1>4, <1>5, <1>9, <1>10, <1>11, TakenCInv

\* So does the start of a registration.
LEMMA RegisterCInv == \A h \in Host : \A caps \in AgentCaps[h] : CInv /\ Register(h, caps) => CInv'
<1> SUFFICES ASSUME NEW h \in Host, NEW caps \in AgentCaps[h], CInv, Register(h, caps) PROVE CInv'
  OBVIOUS
<1> DEFINE snap == AgentSnapshot(h, caps)
           inv == Merge(LoadInventory, snap)
           snaps == <<snap>>
           job == [pc |-> "save", inv |-> inv, snaps |-> snaps, jobs |-> {}, whole |-> {h}]
<1>1. /\ work' = [work EXCEPT ![Daemon] = job] /\ db' = db /\ told' = told /\ torn' = torn
      /\ work[Daemon].pc = "idle"
  BY DEF Register
<1>2. snap.by = h /\ h \in Reporter /\ Reported(snap) = {HostId(h)}
  <2> DEFINE entry == [e \in {HostId(h)} |-> caps \cup {"sentinel.agent"}]
             ents == <<entry>>
  <2>1. snap.by = h /\ snap.ents = ents
    BY DEF AgentSnapshot
  <2>2. DOMAIN entry = {HostId(h)}
    OBVIOUS
  <2> HIDE DEF entry, snap
  <2>3. DOMAIN ents = {1} /\ ents[1] = entry
    BY SMT
  <2> HIDE DEF ents
  <2> QED BY <2>1, <2>2, <2>3 DEF Reported, Reporter
<1>3. Grounded(inv, {} \cup {snap})
  BY LoadGrounded, MergeGrounded DEF CInv
<1> HIDE DEF snap, inv
<1>4. DOMAIN snaps = {1} /\ snaps[1] = snap
  BY SMT
<1> HIDE DEF snaps
<1>5. Range(snaps) = {} \cup {snap}
  BY <1>4 DEF Range
<1>6. job.pc = "save" /\ job.inv = inv /\ job.snaps = snaps /\ job.whole = {h}
  OBVIOUS
<1> HIDE DEF job
<1>7. Grounded(job.inv, Range(job.snaps))
  BY <1>3, <1>5, <1>6
<1>8. Spoken(job)
  BY <1>2, <1>5, <1>6 DEF Spoken, Speakers, Distinct, OwnHost
<1>9. work'[Daemon] = job
  BY <1>1, InventoryAssumption DEF CInv, SInv, GInv
<1>10. SInv'
  BY RegisterSInv DEF CInv
<1> QED BY <1>1, <1>6, <1>7, <1>8, <1>9, <1>10, TakenCInv

\* The reconciliation of edges leaves the claims alone.
LEMMA ReconcileCInv == CInv /\ ReconcileEdges(Daemon) => CInv'
<1> SUFFICES ASSUME CInv, ReconcileEdges(Daemon) PROVE CInv'
  OBVIOUS
<1> DEFINE W == work[Daemon]
<1>1. /\ W.pc = "deps" /\ work' = [work EXCEPT ![Daemon].pc = "save"]
      /\ told' = told /\ torn' = torn
      /\ db' = ReconcileDependencies("nfs", DOMAIN Topology(W.snaps).edges)
  BY DEF ReconcileEdges
<1>2. /\ work'[Daemon].pc = "save" /\ work'[Daemon].inv = W.inv
      /\ work'[Daemon].snaps = W.snaps /\ work'[Daemon].whole = W.whole
  BY <1>1, StageOf, InventoryAssumption DEF CInv, SInv
<1>3. db'.caps = db.caps
  <2>1. DOMAIN db = Tables
    BY DEF CInv, SInv, GInv
  <2>2. PICK x : db' = [db EXCEPT !.edges = x]
    BY <1>1 DEF ReconcileDependencies
  <2> QED BY <2>1, <2>2 DEF Tables
<1>4. /\ Retracted(db.caps, told, Reporter \ torn, <<>>, {})'
      /\ Kept(db.caps, told, Reporter \ torn, <<>>, {})'
      /\ Paired' /\ Sound(told)'
  BY SMT, <1>1, <1>3 DEF CInv, Retracted, Kept, Paired, Sound, By, Asserts
<1>5. Spoken(work[Daemon])'
  BY <1>1, <1>2 DEF CInv, Spoken, Speakers
<1>6. Grounded(work[Daemon].inv, Range(work[Daemon].snaps))'
  BY <1>1, <1>2, <1>3 DEF CInv, Grounded
<1>7. SInv'
  BY ReconcileSInv DEF CInv
<1> QED BY <1>1, <1>2, <1>4, <1>5, <1>6, <1>7 DEF CInv

\* A worker that has written, with the reconciliations left to it.
LEMMA ProceedCInv ==
    ASSUME SInv, SInv', Paired', Sound(told'), work[Daemon].pc # "idle", NEW left, Proceed(Daemon, left),
           Spoken(work[Daemon]), left \subseteq CapabilityJobs(work[Daemon].snaps),
           Noted(told', work[Daemon]),
           Retracted(db'.caps, told', (Reporter \ torn) \cup Speakers(work[Daemon]), work[Daemon].snaps, left),
           Kept(db'.caps, told', (Reporter \ torn) \cup Speakers(work[Daemon]), work[Daemon].snaps, left)
    PROVE  CInv'
<1> DEFINE W == work[Daemon]
           R == (Reporter \ torn) \cup Speakers(W)
<1>1. Sound(told)'
  BY DEF Sound
<1>2. CASE left # {}
  <2>1. /\ work'[Daemon].pc = "caps" /\ work'[Daemon].jobs = left /\ work'[Daemon].snaps = W.snaps
        /\ work'[Daemon].whole = W.whole /\ torn' = torn
    BY <1>2, ProceedIs, InventoryAssumption DEF SInv
  <2>2. Speakers(work[Daemon])' = Speakers(W)
    BY <2>1 DEF Speakers
  <2>3. Spoken(work[Daemon])'
    BY <2>1, <2>2 DEF Spoken
  <2>4. Noted(told, work[Daemon])'
    BY <2>1 DEF Noted
  <2>5. ((Reporter \ torn) \cup Speakers(work[Daemon]))' = R
    BY <2>1, <2>2
  <2>6. /\ Retracted(db.caps, told, (Reporter \ torn) \cup Speakers(work[Daemon]),
                     work[Daemon].snaps, work[Daemon].jobs)'
        /\ Kept(db.caps, told, (Reporter \ torn) \cup Speakers(work[Daemon]),
                     work[Daemon].snaps, work[Daemon].jobs)'
    BY SMT, <2>1, <2>5 DEF Retracted, Kept
  <2>7. (work[Daemon].jobs \subseteq CapabilityJobs(work[Daemon].snaps))'
    BY <2>1
  <2> QED BY <1>1, <2>1, <2>3, <2>4, <2>6, <2>7 DEF CInv
<1>3. CASE left = {}
  <2>1. work'[Daemon].pc = "idle" /\ torn' = torn \ W.whole
    BY <1>3, ProceedIs, RestingIdle, InventoryAssumption DEF SInv
  <2>2. Reporter \ torn' \subseteq R
    BY <2>1 DEF Spoken
  <2>3. Retracted(db'.caps, told', Reporter \ torn', <<>>, {}) /\ Kept(db'.caps, told', Reporter \ torn', <<>>, {})
    BY <1>3, <2>2 DEF Retracted, Kept
  <2>4. Retracted(db.caps, told, Reporter \ torn, <<>>, {})' /\ Kept(db.caps, told, Reporter \ torn, <<>>, {})'
    BY <2>3 DEF Retracted, Kept, By, Asserts
  <2> QED BY <1>1, <2>1, <2>4 DEF CInv
<1> QED BY <1>2, <1>3

\* The save: every snapshot it wrote down has its reconciliations before it, and
\* what the others own it leaves alone.
LEMMA SaveCInv == CInv /\ Save(Daemon) => CInv'
<1> SUFFICES ASSUME CInv, Save(Daemon) PROVE CInv'
  OBVIOUS
<1> DEFINE W == work[Daemon]
           S == Range(W.snaps)
           J == CapabilityJobs(W.snaps)
           R == (Reporter \ torn) \cup Speakers(W)
<1>1. PICK first : db' = SaveInventory(W.inv, first)
  BY DEF Save
<1>2. W.pc = "save" /\ told' = Heard(W.snaps) /\ Proceed(Daemon, J)
  BY DEF Save
<1>3. SInv' /\ Spoken(W) /\ Grounded(W.inv, S) /\ Paired /\ Sound(told)
  BY <1>2, SaveSInv DEF CInv
<1>4. /\ \A k \in DOMAIN db.caps : k \in DOMAIN db'.caps /\ db'.caps[k] = db.caps[k]
      /\ \A k \in DOMAIN db'.caps : k \in DOMAIN db.caps \/ k \in Rows(W.inv)
  <2> DEFINE fresh == [k \in Rows(W.inv) \ DOMAIN db.caps |-> first[k[1]]]
  <2>1. db'.caps = Override(db.caps, fresh)
    BY <1>1 DEF SaveInventory
  <2>2. DOMAIN fresh \subseteq Rows(W.inv)
    OBVIOUS
  <2> HIDE DEF fresh
  <2> QED BY <2>1, <2>2 DEF Override
<1>5. \A r \in Reporter :
         \/ told'[r] = told[r] /\ \A s \in S : s.by # r
         \/ \E s \in S : /\ s.by = r /\ told'[r].ents = Reported(s)
                         /\ told'[r].claims = Claims(s) /\ told'[r].firm = Firm(s)
                         /\ told'[r].once = told[r].once \cup Claims(s)
  BY SMT, <1>2, HeardEnts
<1>6. ASSUME NEW s \in S
      PROVE  /\ s.by \in Reporter /\ told'[s.by].ents = Reported(s)
             /\ told'[s.by].claims = Claims(s) /\ told'[s.by].firm = Firm(s)
  <2>1. s.by \in Reporter /\ \A t \in S : t.by = s.by => t = s
    BY <1>3 DEF Spoken, Distinct
  <2> QED BY <1>5, <2>1
<1>7. \A s : Firm(s) \subseteq Claims(s) /\ \A k \in Claims(s) : k = <<k[1], k[2]>> /\ k[1] \in Reported(s)
  BY SMT DEF Firm, Claims
<1>8. Paired'
  <2>1. \A k \in Rows(W.inv) : k = <<k[1], k[2]>>
    BY SMT DEF Rows
  <2> QED BY <1>3, <1>4, <2>1 DEF Paired
<1>9. Sound(told')
  <2> SUFFICES ASSUME NEW r \in Reporter
               PROVE  /\ OwnHost(r, told'[r].ents)
                      /\ told'[r].firm \subseteq told'[r].claims /\ told'[r].claims \subseteq told'[r].once
                      /\ \A k \in told'[r].claims : k[1] \in told'[r].ents
    BY DEF Sound
  <2>1. CASE told'[r] = told[r]
    BY <1>3, <2>1 DEF Sound
  <2>2. ASSUME NEW s \in S, s.by = r, told'[r].ents = Reported(s), told'[r].claims = Claims(s),
               told'[r].firm = Firm(s), told'[r].once = told[r].once \cup Claims(s)
        PROVE  /\ OwnHost(r, told'[r].ents)
               /\ told'[r].firm \subseteq told'[r].claims /\ told'[r].claims \subseteq told'[r].once
               /\ \A k \in told'[r].claims : k[1] \in told'[r].ents
    <3>1. OwnHost(s.by, Reported(s))
      BY <1>3 DEF Spoken
    <3> QED BY SMT, <1>7, <2>2, <3>1
  <2> QED BY <1>5, <2>1, <2>2
<1>10. Noted(told', W)
  BY <1>6 DEF Noted
<1>11. /\ \A s \in S : \A e \in Reported(s) : \E p \in J : p[3] = e /\ By(W.snaps, p) = s.by
       /\ \A s \in S : \A k \in Claims(s) :
             \E p \in J : p[3] = k[1] /\ By(W.snaps, p) = s.by /\ k[2] \in Asserts(W.snaps, p)
  BY JobsOf
<1>12. /\ Retracted(db.caps, told, Reporter \ torn, <<>>, {})
       /\ Kept(db.caps, told, Reporter \ torn, <<>>, {})
  BY <1>2 DEF CInv
<1>13. Retracted(db'.caps, told', R, W.snaps, J)
  <2> SUFFICES ASSUME NEW r \in R, NEW k \in DOMAIN db'.caps, SourceOf(r) = db'.caps[k], k[1] \in told'[r].ents
               PROVE  \/ k \in told'[r].claims
                      \/ \E p \in J : /\ p[3] = k[1]
                                      /\ \/ SourceOf(By(W.snaps, p)) = SourceOf(r)
                                         \/ k[2] \in Asserts(W.snaps, p)
    BY DEF Retracted
  <2>0. r \in Reporter
    BY <1>6 DEF Speakers
  <2>1. ASSUME NEW s \in S, s.by = r PROVE \E p \in J : p[3] = k[1] /\ SourceOf(By(W.snaps, p)) = SourceOf(r)
    BY SMT, <1>6, <1>11, <2>1
  <2>2. CASE (\A s \in S : s.by # r) /\ k \in DOMAIN db.caps
    <3>1. told'[r] = told[r] /\ r \in Reporter \ torn
      BY <1>5, <2>0, <2>2 DEF Speakers
    <3> QED BY <1>4, <1>12, <2>2, <3>1 DEF Retracted
  <2>3. CASE k \notin DOMAIN db.caps
    <3>1. PICK s \in S : k \in Claims(s)
      BY <1>3, <1>4, <2>3 DEF Grounded
    <3> QED BY <1>11, <3>1
  <2> QED BY <2>1, <2>2, <2>3
<1>14. Kept(db'.caps, told', R, W.snaps, J)
  <2> SUFFICES ASSUME NEW r \in R, NEW k \in told'[r].firm, \A q \in Reporter \ {r} : k \notin told'[q].once
               PROVE  \/ k \in DOMAIN db'.caps /\ db'.caps[k] = SourceOf(r)
                      \/ \E p \in J : p[3] = k[1] /\ By(W.snaps, p) = r /\ k[2] \in Asserts(W.snaps, p)
    BY DEF Kept
  <2>0. r \in Reporter
    BY <1>6 DEF Speakers
  <2>1. ASSUME NEW s \in S, s.by = r
        PROVE  \E p \in J : p[3] = k[1] /\ By(W.snaps, p) = r /\ k[2] \in Asserts(W.snaps, p)
    <3>1. k \in Claims(s)
      BY <1>6, <1>7, <2>1
    <3> QED BY <1>11, <2>1, <3>1
  <2>2. CASE \A s \in S : s.by # r
    <3>1. told'[r] = told[r] /\ r \in Reporter \ torn
      BY SMT, <1>5, <2>0, <2>2 DEF Speakers
    <3>2. \A q \in Reporter \ {r} : k \notin told[q].once
      <4>1. \A q \in Reporter : told[q].once \subseteq told'[q].once
        BY SMT, <1>5
      <4> QED BY <4>1
    <3>3. k \in DOMAIN db.caps /\ db.caps[k] = SourceOf(r)
      BY <1>12, <3>1, <3>2 DEF Kept
    <3> QED BY <1>4, <3>3
  <2> QED BY <2>1, <2>2
<1>15. SInv /\ J \subseteq CapabilityJobs(W.snaps)
  BY DEF CInv
<1> HIDE DEF J
<1> QED BY <1>2, <1>3, <1>8, <1>9, <1>10, <1>13, <1>14, <1>15, ProceedCInv

\* One reconciliation: it disposes of what its own source owns of the entity and
\* spares what the others do, unless they claim the same.
LEMMA ClaimsCInv == CInv /\ ReconcileClaims(Daemon) => CInv'
<1> SUFFICES ASSUME CInv, ReconcileClaims(Daemon) PROVE CInv'
  OBVIOUS
<1> DEFINE W == work[Daemon]
           R == (Reporter \ torn) \cup Speakers(W)
<1>1. PICK p \in W.jobs :
         /\ db' = ReconcileCapabilities(p[3], SourceOf(W.snaps[p[1]].by), W.snaps[p[1]].ents[p[2]][p[3]])
         /\ Proceed(Daemon, W.jobs \ {p})
  BY DEF ReconcileClaims
<1>2. W.pc = "caps" /\ told' = told
  BY DEF ReconcileClaims
<1> DEFINE s == W.snaps[p[1]]
           e == p[3]
           src == SourceOf(s.by)
           caps == Asserts(W.snaps, p)
           left == W.jobs \ {p}
<1>3. /\ SInv /\ Paired /\ Sound(told) /\ Spoken(W) /\ Noted(told, W)
      /\ W.jobs \subseteq CapabilityJobs(W.snaps)
      /\ Retracted(db.caps, told, R, W.snaps, W.jobs) /\ Kept(db.caps, told, R, W.snaps, W.jobs)
  BY <1>2 DEF CInv
<1>4. db' = ReconcileCapabilities(e, src, caps) /\ By(W.snaps, p) = s.by
  BY <1>1 DEF Asserts, By
<1>5. /\ s \in Range(W.snaps) /\ p[2] \in DOMAIN s.ents /\ e \in DOMAIN s.ents[p[2]] /\ e \in Reported(s)
      /\ \A c \in caps : <<e, c>> \in Claims(s)
  BY <1>3, JobsOf
<1>6. /\ s.by \in Reporter /\ OwnHost(s.by, Reported(s))
      /\ told[s.by].ents = Reported(s) /\ told[s.by].claims = Claims(s) /\ told[s.by].firm = Firm(s)
  BY <1>3, <1>5 DEF Spoken, Noted
<1>7. \A k \in Firm(s) : k[1] = e => k[2] \in caps
  BY <1>5 DEF Firm, Asserts
<1>8. \A r \in R : r \in Reporter
  BY <1>3 DEF Spoken, Speakers
<1>9. ASSUME NEW r \in Reporter, e \in told[r].ents, SourceOf(r) = src PROVE r = s.by
  <2>1. OwnHost(r, told[r].ents)
    BY <1>3 DEF Sound
  <2>2. SourceOf(s.by) = SourceOf(r) /\ e \in told[r].ents /\ e \in Reported(s)
    BY <1>5, <1>9
  <2> HIDE DEF e, s
  <2> QED BY <1>6, <2>1, <2>2, SameReporter
<1> HIDE DEF s, src, caps, e
<1>10. /\ \A k \in DOMAIN db'.caps :
             /\ k = <<k[1], k[2]>>
             /\ \/ k[1] = e /\ k[2] \in caps /\ db'.caps[k] = src
                \/ /\ ~(k[1] = e /\ k[2] \in caps)
                   /\ k \in DOMAIN db.caps /\ db'.caps[k] = db.caps[k]
                   /\ k[1] = e => db.caps[k] # src
       /\ \A c \in caps : <<e, c>> \in DOMAIN db'.caps /\ db'.caps[<<e, c>>] = src
       /\ \A k \in DOMAIN db.caps :
             k[1] # e \/ (db.caps[k] # src /\ k[2] \notin caps) => k \in DOMAIN db'.caps /\ db'.caps[k] = db.caps[k]
  BY SMT, <1>3, <1>4, ReconciledRows DEF SInv, GInv
<1>11. Paired'
  BY <1>10 DEF Paired
<1>12. Retracted(db'.caps, told', R, W.snaps, left)
  <2> SUFFICES ASSUME NEW r \in R, NEW k \in DOMAIN db'.caps, SourceOf(r) = db'.caps[k], k[1] \in told[r].ents,
                      k \notin told[r].claims
               PROVE  \E q \in left : /\ q[3] = k[1]
                                      /\ \/ SourceOf(By(W.snaps, q)) = SourceOf(r)
                                         \/ k[2] \in Asserts(W.snaps, q)
    BY <1>2 DEF Retracted
  <2>1. CASE k[1] = e /\ k[2] \in caps
    <3>1. r = s.by
      BY <1>8, <1>9, <1>10, <2>1
    <3>2. <<e, k[2]>> \in Claims(s) /\ k = <<e, k[2]>>
      BY <1>5, <1>10, <2>1
    <3> QED BY <1>6, <3>1, <3>2
  <2>2. CASE ~(k[1] = e /\ k[2] \in caps)
    <3>1. k \in DOMAIN db.caps /\ db'.caps[k] = db.caps[k] /\ (k[1] = e => db.caps[k] # src)
      BY <1>10, <2>2
    <3>2. PICK q \in W.jobs : /\ q[3] = k[1]
                              /\ \/ SourceOf(By(W.snaps, q)) = SourceOf(r)
                                 \/ k[2] \in Asserts(W.snaps, q)
      BY <1>3, <3>1 DEF Retracted
    <3>3. q # p
      BY <1>4, <2>2, <3>1, <3>2 DEF e, src, caps
    <3> QED BY <3>2, <3>3
  <2> QED BY <2>1, <2>2
<1>13. Kept(db'.caps, told', R, W.snaps, left)
  <2> SUFFICES ASSUME NEW r \in R, NEW k \in told[r].firm, \A q \in Reporter \ {r} : k \notin told[q].once,
                      ~(k \in DOMAIN db'.caps /\ db'.caps[k] = SourceOf(r))
               PROVE  \E q \in left : q[3] = k[1] /\ By(W.snaps, q) = r /\ k[2] \in Asserts(W.snaps, q)
    BY <1>2 DEF Kept
  <2>1. k \in told[r].claims /\ k[1] \in told[r].ents
    BY <1>3, <1>8 DEF Sound
  <2>2. CASE s.by = r /\ k[1] = e
    <3>1. k[2] \in caps
      BY <1>6, <1>7, <2>2
    <3>2. k = <<e, k[2]>>
      BY SMT, <1>6, <2>1, <2>2 DEF Claims
    <3> QED BY SMT, <1>10, <2>2, <3>1, <3>2 DEF src
  <2>3. CASE ~(s.by = r /\ k[1] = e)
    <3>1. ASSUME k \in DOMAIN db.caps, db.caps[k] = SourceOf(r) PROVE FALSE
      <4>1. CASE k[1] # e
        BY <1>10, <3>1, <4>1
      <4>2. CASE k[1] = e
        <5>1. s.by # r /\ SourceOf(r) # src
          BY <1>8, <1>9, <2>1, <2>3, <4>2
        <5>2. k \notin Claims(s)
          <6>1. k \notin told[s.by].once
            BY <1>6, <5>1
          <6>2. told[s.by].claims \subseteq told[s.by].once
            BY <1>3, <1>6 DEF Sound
          <6> QED BY <1>6, <6>1, <6>2
        <5>3. k[2] \notin caps
          BY <1>3, <1>5, <3>1, <4>2, <5>2 DEF Paired
        <5> QED BY <1>10, <3>1, <5>1, <5>3
      <4> QED BY <4>1, <4>2
    <3>2. PICK q \in W.jobs : q[3] = k[1] /\ By(W.snaps, q) = r /\ k[2] \in Asserts(W.snaps, q)
      BY <1>3, <3>1 DEF Kept
    <3>3. q # p
      BY <1>4, <2>3, <3>2 DEF e
    <3> QED BY <3>2, <3>3
  <2> QED BY <2>2, <2>3
<1>14. SInv' /\ Sound(told') /\ Noted(told', W)
  BY <1>2, <1>3, ReconcileSInv
<1>15. left \subseteq CapabilityJobs(W.snaps) /\ W.pc # "idle" /\ Proceed(Daemon, left)
  BY <1>1, <1>2, <1>3
<1> HIDE DEF left
<1> QED BY <1>3, <1>11, <1>12, <1>13, <1>14, <1>15, ProceedCInv

\* Every step of one process keeps the stored claims in step with the reports.
LEMMA StepCInv == Worker = {Daemon} /\ CInv /\ [Next]_vars => CInv'
<1> SUFFICES ASSUME Worker = {Daemon}, CInv, [Next]_vars PROVE CInv'
  OBVIOUS
<1>0. SInv'
  BY StepSInv DEF CInv
<1>1. CASE Interrupt(Daemon) \/ Restart
  <2>1. db' = db /\ told' = told /\ work' = [work EXCEPT ![Daemon] = Resting]
    BY <1>1 DEF Interrupt, Restart
  <2>2. work'[Daemon].pc = "idle"
    BY <2>1, RestingIdle, InventoryAssumption DEF CInv, SInv, GInv
  <2>3. torn' = Reporter \/ (work[Daemon].pc = "idle" /\ torn' = torn)
    BY <1>1 DEF Interrupt, Restart
  <2>4. Paired' /\ Sound(told)'
    BY <2>1 DEF CInv, Paired, Sound
  <2>5. CASE torn' = Reporter
    <3>1. Reporter \ torn' = {}
      BY <2>5
    <3>2. Retracted(db.caps, told, Reporter \ torn, <<>>, {})' /\ Kept(db.caps, told, Reporter \ torn, <<>>, {})'
      BY <3>1 DEF Retracted, Kept
    <3> QED BY <1>0, <2>2, <2>4, <3>2 DEF CInv
  <2>6. CASE work[Daemon].pc = "idle" /\ torn' = torn
    <3>1. Retracted(db.caps, told, Reporter \ torn, <<>>, {})' /\ Kept(db.caps, told, Reporter \ torn, <<>>, {})'
      BY <2>1, <2>6 DEF CInv, Retracted, Kept, By, Asserts
    <3> QED BY <1>0, <2>2, <2>4, <3>1 DEF CInv
  <2> QED BY <2>3, <2>5, <2>6
<1>2. CASE UNCHANGED vars
  <2>1. Paired' = Paired /\ Sound(told)' = Sound(told) /\ Spoken(work[Daemon])' = Spoken(work[Daemon])
    BY <1>2 DEF Paired, Sound, Spoken, Speakers, vars
  <2>2. /\ Noted(told, work[Daemon])' = Noted(told, work[Daemon])
        /\ Grounded(work[Daemon].inv, Range(work[Daemon].snaps))' = Grounded(work[Daemon].inv, Range(work[Daemon].snaps))
    BY <1>2 DEF Noted, Grounded, vars
  <2>3. work' = work /\ db' = db /\ told' = told /\ torn' = torn
    BY <1>2 DEF vars
  <2>4. /\ Retracted(db.caps, told, Reporter \ torn, <<>>, {})' = Retracted(db.caps, told, Reporter \ torn, <<>>, {})
        /\ Kept(db.caps, told, Reporter \ torn, <<>>, {})' = Kept(db.caps, told, Reporter \ torn, <<>>, {})
    BY <2>3 DEF Retracted, Kept, By, Asserts
  <2>5. LET R == (Reporter \ torn) \cup Speakers(work[Daemon])
        IN  /\ Retracted(db.caps, told, R, work[Daemon].snaps, work[Daemon].jobs)'
                  = Retracted(db.caps, told, R, work[Daemon].snaps, work[Daemon].jobs)
            /\ Kept(db.caps, told, R, work[Daemon].snaps, work[Daemon].jobs)'
                  = Kept(db.caps, told, R, work[Daemon].snaps, work[Daemon].jobs)
    BY SMT, <2>3 DEF Retracted, Kept, Speakers, By, Asserts
  <2> QED BY <1>0, <2>1, <2>2, <2>3, <2>4, <2>5 DEF CInv
<1> QED BY <1>1, <1>2, LookCInv, RegisterCInv, ReconcileCInv, SaveCInv, ClaimsCInv DEF Next

\* With one process over the database, and in every state between cycles: a
\* stored capability owned by a provider that still reports the entity is one it
\* still claims, and what a provider firmly claims and no other ever did is
\* stored, whatever the others retract and wherever the cycles before were
\* interrupted (reconcile_capabilities, save_inventory).
THEOREM ClaimsDoFollow == (Worker = {Daemon}) => (Spec => []ClaimsFollowReports)
<1> SUFFICES ASSUME Worker = {Daemon} PROVE Spec => []ClaimsFollowReports
  OBVIOUS
<1>1. CInv /\ [Next]_vars => CInv'
  BY StepCInv
<1>2. CInv => ClaimsFollowReports
  <2> SUFFICES ASSUME CInv PROVE ClaimsFollowReports
    OBVIOUS
  <2>1. Quiet => work[Daemon].pc # "caps"
    BY DEF Quiet
  <2>2. ClaimsRetracted
    BY <2>1 DEF CInv, ClaimsRetracted, Retracted
  <2>3. ClaimsKept
    BY <2>1 DEF CInv, ClaimsKept, Kept
  <2> QED BY <2>2, <2>3 DEF ClaimsFollowReports
<1> QED BY <1>1, <1>2, InitCInv, PTL DEF Spec
=============================================================================
