---------------------------- MODULE AgentDelivery ----------------------------
(***************************************************************************)
(* How an observation gets from an agent to the controller's state:        *)
(* written to the agent's SQLite spool, evicted by the spool's limits,     *)
(* sent in batches over a connection that fails, times out and delivers    *)
(* late, rejected while its target entity is unknown, inserted once by id, *)
(* and acknowledged.  Agent and controller may crash at any point.         *)
(*                                                                         *)
(* Source: src/src/agent/spool.rs, Agent::{register, record, flush, run}   *)
(* in src/src/agent/mod.rs, Controller::ingest_agent_batch in              *)
(* src/src/controller/registration.rs, apply_observations in               *)
(* src/src/persistence/observations.rs and the replay watermark of         *)
(* StateEngine::ingest.                                                    *)
(*                                                                         *)
(* Abstracted: observations are numbered in the order they finish.  Time   *)
(* passes at will between them, so the age limit drops any older part of   *)
(* the spool.                                                              *)
(***************************************************************************)
EXTENDS Integers, FiniteSets

CONSTANTS
    MaxObs,      \* bound on the observations ever recorded
    Entity,      \* the targets observations are about
    Target,      \* [Obs -> Entity]
    Priority,    \* [Obs -> 0..2]: priority_of
    Size,        \* [Obs -> Nat]: size_bytes
    Stream,      \* the (probe, observer, target) streams of the state engine
    Source,      \* [Obs -> Stream]
    MaxRows,     \* SpoolLimits.max_rows
    MaxBytes,    \* SpoolLimits.max_bytes
    Chunk,       \* rows deleted per round of the byte limit (64)
    BatchSize,   \* MAX_BATCH
    KnownAtStart, Learnable,   \* which targets the controller knows, may learn
    MaxCrash,    \* bound on crashes of agent and controller together
    MaxPrune     \* bound on rows retention deletes

Obs == 1..MaxObs

ASSUME DeliveryAssumption ==
    /\ MaxObs \in Nat /\ MaxRows \in Nat /\ MaxBytes \in Nat
    /\ Chunk \in Nat \ {0} /\ BatchSize \in Nat \ {0}
    /\ MaxCrash \in Nat /\ MaxPrune \in Nat
    /\ Target \in [Obs -> Entity]
    /\ Priority \in [Obs -> 0..2]
    /\ Size \in [Obs -> Nat]
    /\ Source \in [Obs -> Stream]
    /\ KnownAtStart \subseteq Entity /\ Learnable \subseteq Entity

VARIABLES
    made,        \* number of observations recorded so far
    spool,       \* rows of spooled_observations (survives a crash)
    pc,          \* where the agent's single task is
    registered,  \* does the agent hold an agent id and a session id?
    batch,       \* the rows of the request in hand
    wire,        \* "none", "request" or "response" of the request in hand
    rejected,    \* rejected ids of the response on the wire
    late,        \* batches the agent gave up on that may still arrive
    up,          \* is the controller running?
    known,       \* entities in the controller's inventory
    rows,        \* ids in the observations table
    counted,     \* how often the engine has counted each observation
    accepted,    \* history: ids ever inserted
    evicted,     \* history: ids dropped by the spool's limits
    crashes, prunes

vars == <<made, spool, pc, registered, batch, wire, rejected, late, up, known,
          rows, counted, accepted, evicted, crashes, prunes>>

spoolVars == <<made, spool, evicted>>
linkVars == <<batch, wire, rejected, late>>
controllerVars == <<up, known, rows, counted, accepted, prunes>>

-----------------------------------------------------------------------------
(* The spool's two orders.                                                 *)

\* Faulty: routine answers go first.
ReplaysRoutineFirst(a, b) == Priority[a] < Priority[b] \/ (Priority[a] = Priority[b] /\ a < b)

\* peek: ORDER BY priority DESC, recorded_at ASC
ReplaysBefore(a, b) == Priority[a] > Priority[b] \/ (Priority[a] = Priority[b] /\ a < b)

\* evict: ORDER BY priority ASC, recorded_at ASC
EvictsBefore(a, b) == Priority[a] < Priority[b] \/ (Priority[a] = Priority[b] /\ a < b)

FirstToReplay(n) == {o \in spool : Cardinality({q \in spool : ReplaysBefore(q, o)}) < n}

FirstToEvict(n) == {o \in spool : Cardinality({q \in spool : EvictsBefore(q, o)}) < n}

\* size_bytes: SUM(size_bytes) over the rows S.
Bytes(S) ==
    LET sum[n \in 0..MaxObs] ==
            IF n = 0 THEN 0 ELSE sum[n - 1] + (IF n \in S THEN Size[n] ELSE 0)
    IN  sum[MaxObs]

-----------------------------------------------------------------------------
(* The controller's side of a batch.                                       *)

\* Faulty: the insert alone decides what is new, so a row retention deleted is.
SupersededNever(o) == FALSE

\* The stream an observation feeds has counted it or a later one
\* (StateStream.finished_at and last_observation).
Superseded(o) == \E q \in Obs : counted[q] > 0 /\ Source[q] = Source[o] /\ q >= o

\* Of the rows just inserted, those the engine counts: it takes them in the
\* order of the batch and skips one that finished before what it has counted.
Counts(new) ==
    {o \in new :
        /\ ~Superseded(o)
        /\ \A q \in new : (Source[q] = Source[o] /\ ReplaysBefore(q, o)) => q < o}

\* ingest_agent_batch: partition by known target, insert what is new, count it,
\* in one transaction.
Ingest(b) ==
    LET new == {o \in b : Target[o] \in known} \ rows
    IN  /\ rows' = rows \cup new
        /\ accepted' = accepted \cup new
        /\ counted' = [o \in Obs |-> IF o \in Counts(new) THEN counted[o] + 1 ELSE counted[o]]
        /\ UNCHANGED <<up, known, prunes>>

-----------------------------------------------------------------------------
(* The agent: one task that records, evicts and flushes.                   *)

Init ==
    /\ made = 0 /\ spool = {} /\ evicted = {}
    /\ pc = "idle" /\ registered = FALSE
    /\ batch = {} /\ wire = "none" /\ rejected = {} /\ late = {}
    /\ up = TRUE /\ known = KnownAtStart
    /\ rows = {} /\ accepted = {}
    /\ counted = [o \in Obs |-> 0]
    /\ crashes = 0 /\ prunes = 0

\* Agent::register, from run or from a heartbeat.
Register ==
    /\ pc = "idle" /\ up /\ ~registered
    /\ registered' = TRUE
    /\ UNCHANGED <<spoolVars, pc, linkVars, controllerVars, crashes>>

\* Spool::push: n new observations in one transaction.
Push(n) ==
    /\ pc = "idle"
    /\ made + n <= MaxObs
    /\ made' = made + n
    /\ spool' = spool \cup (made + 1)..(made + n)
    /\ pc' = "age"
    /\ UNCHANGED <<evicted, registered, linkVars, controllerVars, crashes>>

Evict(S, next) ==
    /\ spool' = spool \ S
    /\ evicted' = evicted \cup S
    /\ pc' = next
    /\ UNCHANGED <<made, registered, linkVars, controllerVars, crashes>>

\* Spool::evict, three deletes that commit one by one.
EvictAged == pc = "age" /\ \E cutoff \in 1..made : Evict({o \in spool : o < cutoff}, "rows")

EvictRows == pc = "rows" /\ Evict(FirstToEvict(Cardinality(spool) - MaxRows), "bytes")

\* Faulty: rows are counted, not bytes.
EvictBytesByCount ==
    /\ pc = "bytes"
    /\ IF Cardinality(spool) > MaxBytes THEN Evict(FirstToEvict(Chunk), "bytes")
       ELSE Evict({}, "flush")

EvictBytes ==
    /\ pc = "bytes"
    /\ IF Bytes(spool) > MaxBytes THEN Evict(FirstToEvict(Chunk), "bytes")
       ELSE Evict({}, "flush")

\* Agent::flush starts: after a record, or on the tick of the run loop.
StartFlush ==
    /\ pc = "idle"
    /\ pc' = "flush"
    /\ UNCHANGED <<spoolVars, registered, linkVars, controllerVars, crashes>>

\* One round of flush: without ids or rows it returns, else it sends a batch.
Peek ==
    /\ pc = "flush"
    /\ IF registered /\ spool # {}
       THEN /\ pc' = "wait"
            /\ batch' = FirstToReplay(BatchSize)
            /\ wire' = "request"
       ELSE /\ pc' = "idle"
            /\ UNCHANGED <<batch, wire>>
    /\ UNCHANGED <<spoolVars, registered, rejected, late, controllerVars, crashes>>

\* The response arrives: acknowledge all but the rejected, and go on unless some
\* were.
Receive ==
    /\ pc = "wait" /\ wire = "response"
    /\ spool' = spool \ (batch \ rejected)
    /\ pc' = IF rejected = {} THEN "flush" ELSE "idle"
    /\ batch' = {} /\ wire' = "none" /\ rejected' = {}
    /\ UNCHANGED <<made, evicted, registered, late, controllerVars, crashes>>

\* The call fails or times out.  A request the controller has not handled yet is
\* lost, or may still arrive.
GiveUp ==
    /\ pc = "wait"
    /\ pc' = "idle"
    /\ batch' = {} /\ wire' = "none" /\ rejected' = {}
    /\ late' \in {late} \cup (IF wire = "request" THEN {late \cup {batch}} ELSE {})
    /\ UNCHANGED <<spoolVars, registered, controllerVars, crashes>>

\* The agent process dies; the spool survives, ids and the request in hand do
\* not.  It is started again at once.
AgentCrash ==
    /\ crashes < MaxCrash
    /\ crashes' = crashes + 1
    /\ pc' = "idle" /\ registered' = FALSE
    /\ batch' = {} /\ wire' = "none" /\ rejected' = {}
    /\ late' \in {late} \cup (IF wire = "request" THEN {late \cup {batch}} ELSE {})
    /\ UNCHANGED <<spoolVars, controllerVars>>

-----------------------------------------------------------------------------
(* The controller and the network.                                         *)

\* Faulty: rows the controller has already are reported as rejected.
HandleRejectsKnown ==
    /\ up /\ wire = "request"
    /\ Ingest(batch)
    /\ wire' = "response"
    /\ rejected' = {o \in batch : Target[o] \notin known \/ o \in rows}
    /\ UNCHANGED <<spoolVars, pc, registered, batch, late, crashes>>

Handle ==
    /\ up /\ wire = "request"
    /\ Ingest(batch)
    /\ wire' = "response"
    /\ rejected' = {o \in batch : Target[o] \notin known}
    /\ UNCHANGED <<spoolVars, pc, registered, batch, late, crashes>>

\* A request whose sender has gone is handled all the same; nobody reads the
\* response.
HandleLate(b) ==
    /\ up
    /\ Ingest(b)
    /\ late' = late \ {b}
    /\ UNCHANGED <<spoolVars, pc, registered, batch, wire, rejected, crashes>>

LoseLate(b) ==
    /\ late' = late \ {b}
    /\ UNCHANGED <<spoolVars, pc, registered, batch, wire, rejected, controllerVars, crashes>>

\* An entity joins the inventory: its own agent registers, or discovery finds it.
Learn(e) ==
    /\ up
    /\ known' = known \cup {e}
    /\ UNCHANGED <<spoolVars, pc, registered, linkVars, up, rows, counted, accepted, crashes, prunes>>

\* Retention deletes an old row, never the newest of its entity; the stream that
\* counted it stays.
Prune(o) ==
    /\ prunes < MaxPrune
    /\ \E q \in rows : Target[q] = Target[o] /\ q > o
    /\ prunes' = prunes + 1
    /\ rows' = rows \ {o}
    /\ UNCHANGED <<spoolVars, pc, registered, linkVars, up, known, counted, accepted, crashes>>

\* The controller dies with the requests it has not committed; a response it has
\* sent may still be read.
ControllerCrash ==
    /\ crashes < MaxCrash
    /\ crashes' = crashes + 1
    /\ up /\ up' = FALSE
    /\ wire' = IF wire = "request" THEN "none" ELSE wire
    /\ late' = {}
    /\ UNCHANGED <<spoolVars, pc, registered, batch, rejected, known, rows, counted, accepted, prunes>>

ControllerStart ==
    /\ ~up /\ up' = TRUE
    /\ UNCHANGED <<spoolVars, pc, registered, linkVars, known, rows, counted, accepted, crashes, prunes>>

Next ==
    \/ Register
    \/ \E n \in 1..MaxObs : Push(n)
    \/ EvictAged \/ EvictRows \/ EvictBytes
    \/ StartFlush \/ Peek \/ Receive \/ GiveUp
    \/ AgentCrash
    \/ Handle
    \/ \E b \in late : HandleLate(b) \/ LoseLate(b)
    \/ \E e \in Learnable : Learn(e)
    \/ \E o \in rows : Prune(o)
    \/ ControllerCrash \/ ControllerStart

Spec == Init /\ [][Next]_vars

\* The agent's loop and the service manager keep going, and the link is not down
\* for ever: requests and responses get through again and again.
Fairness ==
    /\ SF_vars(Register) /\ WF_vars(StartFlush) /\ WF_vars(Peek)
    /\ WF_vars(EvictAged) /\ WF_vars(EvictRows) /\ WF_vars(EvictBytes)
    /\ WF_vars(GiveUp) /\ SF_vars(Handle) /\ SF_vars(Receive)
    /\ WF_vars(ControllerStart)
    /\ \A e \in Learnable : WF_vars(Learn(e))

FairSpec == Spec /\ Fairness

-----------------------------------------------------------------------------
(* Properties.                                                             *)

\* Every variable has its type.
TypeOK ==
    /\ made \in 0..MaxObs
    /\ spool \subseteq Obs /\ evicted \subseteq Obs
    /\ pc \in {"idle", "age", "rows", "bytes", "flush", "wait"}
    /\ registered \in BOOLEAN
    /\ batch \subseteq Obs /\ wire \in {"none", "request", "response"}
    /\ rejected \subseteq Obs /\ late \subseteq SUBSET Obs
    /\ up \in BOOLEAN /\ known \subseteq Entity
    /\ rows \subseteq Obs /\ accepted \subseteq Obs
    /\ counted \in [Obs -> Nat]
    /\ crashes \in Nat /\ prunes \in Nat

\* Peek-then-acknowledge: a recorded observation that the limits have not evicted
\* is in the spool until the controller has committed it, whatever request,
\* response or process is lost.
NothingLost == \A o \in 1..made : o \in spool \cup evicted \cup accepted

\* The spool is bounded: unless the agent has died between a push and its
\* eviction, it is over its row or byte limit only while an eviction is due.
SpoolBounded ==
    (pc \notin {"age", "rows", "bytes"} /\ crashes = 0) =>
        Cardinality(spool) <= MaxRows /\ Bytes(spool) <= MaxBytes

\* An abnormal observation outlives routine ones: no limit but age drops a row
\* and keeps one of lower priority.
ImportantEvictedLast ==
    [][(pc \in {"rows", "bytes"}) =>
          \A o \in spool \ spool', q \in spool' : Priority[o] <= Priority[q]]_vars

\* An observation counts towards hysteresis at most once, however often it is
\* sent, whichever order its copies arrive in, and even when retention has
\* deleted its row in the meantime.
CountedAtMostOnce == \A o \in Obs : counted[o] <= 1

\* The status of an observation in the terms of the delivery contract.  One the
\* spool has dropped still waits while a request that carries it is under way.
DeliveryStatus(o) ==
    IF o > made THEN "unborn"
    ELSE IF o \in accepted THEN "delivered"
    ELSE IF o \in spool \/ (wire = "request" /\ o \in batch) \/ o \in UNION late THEN "waiting"
    ELSE "dropped"

Contract == INSTANCE DeliveryContract WITH status <- [o \in Obs |-> DeliveryStatus(o)]

\* The agent, the network and the controller implement the delivery contract.
ImplementsContract == Contract!CSpec

\* What the spool holds about an entity the controller knows is carried over by
\* some later attempt, or falls to the spool's limits: once the last observation
\* is made, no such row stays.
KnownDrains == <>[](\A o \in spool : Target[o] \notin known)

=============================================================================
