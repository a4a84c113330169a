---------------------------- MODULE DependencyGraph ----------------------------
(***************************************************************************)
(* The indexed dependency graph of src/src/dependency/graph.rs: a vector   *)
(* of edges and, for each entity, the positions of the edges that leave    *)
(* and enter it; the breadth-first walks over it; and the ways the         *)
(* controller builds one, by loading the stored edges and merging reports. *)
(* An edge is [source, target, crit, src]; its id is its endpoints (the    *)
(* type of the relation adds nothing to a walk).                           *)
(***************************************************************************)
EXTENDS Naturals, Sequences, SequencesExt, FiniteSets, FiniteSetsExt, PeerAssignment

CONSTANTS
    Entity,      \* entities
    Order,       \* the hosts among them, in the order of their ids
    Edge,        \* edges the sources may report
    Degree,      \* peer_monitoring.degree
    MaxEdges     \* bound on the edges of a graph

VARIABLES graph, loaded
vars == <<graph, loaded>>

Id(e) == <<e.source, e.target>>
Empty == [edges |-> <<>>, outgoing |-> [x \in Entity |-> <<>>], incoming |-> [x \in Entity |-> <<>>]]

Insert(g, e) ==
    IF \E i \in DOMAIN g.edges : Id(g.edges[i]) = Id(e)
    THEN [g EXCEPT !.edges = [i \in DOMAIN g.edges |-> IF Id(g.edges[i]) = Id(e) THEN e ELSE g.edges[i]]]
    ELSE [edges |-> Append(g.edges, e),
          outgoing |-> [g.outgoing EXCEPT ![e.source] = Append(@, Len(g.edges) + 1)],
          incoming |-> [g.incoming EXCEPT ![e.target] = Append(@, Len(g.edges) + 1)]]

FromEdges(edges) == FoldLeft(Insert, Empty, edges)

(* Only the vector shrinks; the positions stay as they were.               *)
RetainFromSource(g, src, keep) ==
    [g EXCEPT !.edges = SelectSeq(g.edges, LAMBDA e : e.src # src \/ Id(e) \in keep)]

DependenciesOf(g, x) == [i \in DOMAIN g.outgoing[x] |-> g.edges[g.outgoing[x][i]]]
DependentsOf(g, x) == [i \in DOMAIN g.incoming[x] |-> g.edges[g.incoming[x][i]]]

(***************************************************************************)
(* Breadth first, each entity once.  `limit' bounds the depth.             *)
(***************************************************************************)
Follows(crit, strict) == ~strict \/ crit \in {"critical", "important"}

RECURSIVE WalkFrom(_, _, _, _, _, _, _)
WalkFrom(g, up, strict, limit, queue, visited, out) ==
    IF queue = <<>> THEN out
    ELSE LET current == Head(queue)
             edges == SelectSeq(IF up THEN DependenciesOf(g, current.entity) ELSE DependentsOf(g, current.entity),
                                LAMBDA e : Follows(e.crit, strict))
             ends == [i \in DOMAIN edges |-> IF up THEN edges[i].target ELSE edges[i].source]
             found == FoldLeft(LAMBDA acc, x : IF x \in visited \cup Range(acc) THEN acc ELSE Append(acc, x), <<>>, ends)
             next == IF current.depth >= limit THEN <<>>
                     ELSE [i \in DOMAIN found |-> [entity |-> found[i], depth |-> current.depth + 1]]
         IN WalkFrom(g, up, strict, limit, Tail(queue) \o next,
                     visited \cup {next[i].entity : i \in DOMAIN next}, out \o next)

(* Faulty: the origin is not marked as visited.                            *)
WalkRevisiting(g, up, strict, limit, x) ==
    WalkFrom(g, up, strict, limit, <<[entity |-> x, depth |-> 0]>>, {}, <<>>)

Walk(g, up, strict, limit, x) ==
    WalkFrom(g, up, strict, limit, <<[entity |-> x, depth |-> 0]>>, {x}, <<>>)

Unbounded == Cardinality(Entity)
Upstream(g, x, limit) == Walk(g, TRUE, FALSE, limit, x)
Downstream(g, x, limit) == Walk(g, FALSE, FALSE, limit, x)
Reached(walk) == {walk[i].entity : i \in DOMAIN walk}

SharedUpstream(g, entities) ==
    LET above == [x \in entities |-> Reached(Upstream(g, x, Unbounded))]
    IN  {y \in Entity : entities # {} /\ \A x \in entities : y \in above[x]}

GroupBySharedUpstream(g, entities) ==
    LET above == [x \in entities |-> Reached(Upstream(g, x, Unbounded))]
    IN  {y \in Entity : Cardinality({x \in entities : y \in above[x]}) > 1}

(***************************************************************************)
(* severity_for in incident/engine.rs: Info 0, Warning 1, Critical 2,      *)
(* raised by how much depends on what is blamed.                           *)
(***************************************************************************)
BaseSeverity(kind) ==
    CASE kind \in {"HOST_UNREACHABLE", "SHARED_STORAGE_FAILURE", "SLURM_CONTROL_PLANE_FAILURE"} -> 2
      [] kind \in {"RESOURCE_CONFIGURATION_MISMATCH", "GPU_CONFIGURATION_MISMATCH", "CLOCK_SKEW",
                   "SLURM_ONLY_DEGRADATION", "HOST_REBOOTED"} -> 0
      [] OTHER -> 1

FanOut(g, roots) ==
    FoldSet(LAMBDA x, most : IF Len(Downstream(g, x, Unbounded)) > most
                             THEN Len(Downstream(g, x, Unbounded)) ELSE most, 0, roots)

\* Faulty: what everything depends on is no longer raised.
SeverityForExactly(g, kind, confidence, roots) ==
    CASE confidence = "Low" -> 0
      [] confidence # "Low" /\ FanOut(g, roots) = 3 -> 2
      [] confidence # "Low" /\ FanOut(g, roots) \in 1..2 /\ BaseSeverity(kind) < 1 -> 1
      [] OTHER -> BaseSeverity(kind)

SeverityFor(g, kind, confidence, roots) ==
    CASE confidence = "Low" -> 0
      [] confidence # "Low" /\ FanOut(g, roots) >= 3 -> 2
      [] confidence # "Low" /\ FanOut(g, roots) \in 1..2 /\ BaseSeverity(kind) < 1 -> 1
      [] OTHER -> BaseSeverity(kind)

DomainOf(g) == [h \in Range(Order) |-> Reached(Upstream(g, h, Unbounded))]
Plan(g, observers) ==
    Assign(Order, ObserverCandidates(Order, observers), DomainOf(g), Degree)

(***************************************************************************)
(* A cycle of the graph: loaded from the table, merged into, one source's  *)
(* retractions, and saved; every reader of walks loads it first.           *)
(***************************************************************************)
Init == graph = Empty /\ loaded = TRUE

Report(e) ==
    /\ loaded
    /\ Len(graph.edges) < MaxEdges
    /\ graph' = Insert(graph, e)
    /\ UNCHANGED loaded

Retract(src) ==
    /\ loaded
    /\ \E keep \in SUBSET {Id(e) : e \in {f \in Range(graph.edges) : f.src = src}} :
         graph' = RetainFromSource(graph, src, keep)
    /\ loaded' = (loaded /\ graph' = graph)

Load ==
    /\ graph' = FromEdges(graph.edges)
    /\ loaded' = TRUE

Next ==
    \/ \E e \in Edge : Report(e)
    \/ \E src \in {e.src : e \in Edge} : Retract(src)
    \/ Load

Spec == Init /\ [][Next]_vars
-----------------------------------------------------------------------------
Within(up, strict) ==
    LET step == {IF up THEN <<e.source, e.target>> ELSE <<e.target, e.source>> :
                   e \in {f \in Range(graph.edges) : Follows(f.crit, strict)}}
        Steps[n \in 0..Unbounded] ==
            IF n = 0 THEN {<<x, x>> : x \in Entity}
            ELSE LET before == Steps[n - 1]
                 IN  before \cup UNION {{<<walk[1], next[2]>> : next \in {s \in step : s[1] = walk[2]}} :
                                           walk \in before}
    IN Steps

(* A graph read from the table, however it was merged into and retracted   *)
(* from before, is walked as its edges say: each entity reached once, never *)
(* the origin, at the least number of edges within the bound, nearest      *)
(* first, through optional edges only where failure may follow them.       *)
(* graph.rs:178; every reader of walks loads the graph, which rebuilds the *)
(* positions that retain_from_source (graph.rs:158) leaves behind.         *)
WalksAreShortestPaths ==
    loaded /\ graph # Empty => \A up, strict \in BOOLEAN :
        LET near == Within(up, strict) IN
        \A x \in Entity, limit \in 0..Unbounded :
            LET walk == Walk(graph, up, strict, limit, x) IN
            /\ Reached(walk) = {y \in Entity \ {x} : <<x, y>> \in near[limit]}
            /\ Len(walk) = Cardinality(Reached(walk))
            /\ \A i \in DOMAIN walk :
                  /\ <<x, walk[i].entity>> \in near[walk[i].depth] \ near[walk[i].depth - 1]
                  /\ i > 1 => walk[i - 1].depth <= walk[i].depth

(* The two indexes tell one story: what several entities share upstream    *)
(* (shared_upstream, graph.rs:114) is what each of them is downstream of,  *)
(* and so is what they are grouped by (group_by_shared_upstream).         *)
SharedIsMutual ==
    loaded =>
        LET below == [y \in Entity |-> Reached(Downstream(graph, y, Unbounded))]
        IN  \A some \in {s \in SUBSET Range(Order) : Cardinality(s) = 2} :
                /\ SharedUpstream(graph, some) = {y \in Entity : some \subseteq below[y]}
                /\ GroupBySharedUpstream(graph, some)
                     = {y \in Entity : Cardinality(some \cap below[y]) > 1}

(* Whatever the graph and whichever hosts may observe: nobody watches      *)
(* itself, everyone is watched by as many as the degree asks for or as     *)
(* there are, and a kind of viewpoint that exists (behind the same things, *)
(* behind others, behind none) is missing only when the degree has no room *)
(* for it.  peers.rs:136.                                                  *)
EveryHostWatchedWell ==
    loaded => \A observers \in SUBSET Range(Order) :
        LET plan == Plan(graph, observers)
            domain == DomainOf(graph)
        IN  \A i \in DOMAIN plan :
                LET t == plan[i].target
                    seen == Range(plan[i].observers)
                    kinds == {{c \in observers \ {t} : domain[c] = {}},
                              {c \in observers \ {t} : domain[c] \cap domain[t] # {}},
                              {c \in observers \ {t} : domain[c] # {} /\ domain[c] \cap domain[t] = {}}} \ {{}}
                IN  /\ seen \subseteq observers \ {t}
                    /\ Len(plan[i].observers) = Cardinality(seen)
                    /\ Cardinality(seen) = Smaller(Degree, Cardinality(observers \ {t}))
                    /\ Cardinality({k \in kinds : k \cap seen # {}}) = Smaller(Degree, Cardinality(kinds))

(* A dependency that is discovered never makes a fault look less serious:  *)
(* while reports only add edges or replace one, no diagnosis loses         *)
(* severity, whatever it blames and however sure it is, and a guess is     *)
(* never more than information.  incident/engine.rs:113.                   *)
SeverityNeverFalls ==
    [][loaded /\ loaded' /\ (\E e \in Edge : graph' = Insert(graph, e)) =>
          \A kind \in {"SHARED_STORAGE_FAILURE", "NFS_SERVICE_FAILURE", "SLURM_ONLY_DEGRADATION"},
            confidence \in {"Low", "High"}, roots \in {{}} \cup {{x} : x \in Entity} \cup {{x, Order[1]} : x \in Entity} :
              /\ SeverityFor(graph, kind, confidence, roots) <= SeverityFor(graph', kind, confidence, roots)
              /\ confidence = "Low" => SeverityFor(graph, kind, confidence, roots) = 0]_vars

(* Walks are shortest paths, and the two indexes they use agree.           *)
WalksAgree == WalksAreShortestPaths /\ SharedIsMutual
=============================================================================
