-------------------------- MODULE SpooledHysteresis --------------------------
(***************************************************************************)
(* AgentDelivery composed with the debouncer: what the controller makes of *)
(* measurements that reach it through the spool.  Each stream's debouncer  *)
(* observes, in the order of the batch, the observations a batch counts.   *)
(*                                                                         *)
(* Source: Spool::peek and priority_of in src/src/agent/spool.rs,          *)
(* apply_observations in src/src/persistence/observations.rs,              *)
(* StateEngine::ingest in src/src/state/engine.rs.                         *)
(***************************************************************************)
EXTENDS AgentDelivery, Debouncer, Sequences, SequencesExt

CONSTANTS
    Outcome,   \* [Obs -> {"Ok", "Degraded", "Failed"}]
    ProbeOf,   \* [Stream -> Probe]
    StartsAt   \* [Stream -> Health]: how the debouncer of a new stream starts

\* priority_of, and ingest's choice of a starting health: Unknown beside other
\* streams of the component, else the component's health, which is then
\* NotApplicable (ComponentIsFold: a component without a stream has no row).
ASSUME OutcomeAssumption ==
    /\ StartsAt \in [Stream -> {"Unknown", "NotApplicable"}]
    /\ ProbeOf \in [Stream -> Probe]
    /\ Outcome \in [Obs -> {"Ok", "Degraded", "Failed"}]
    /\ \A o \in Obs : Priority[o] = CASE Outcome[o] = "Ok" -> 0
                                      [] Outcome[o] = "Degraded" -> 1
                                      [] Outcome[o] = "Failed" -> 2

VARIABLE debouncer   \* [Stream -> the stream's debouncer and shown health]

dvars == <<vars, debouncer>>

Opening(s) ==
    [verdict |-> StartsAt[s], health |-> StartsAt[s], failures |-> 0, successes |-> 0]

\* The observations of stream s that this step counts, in the order of the batch.
Arrivals(s) ==
    SetToSortSeq({o \in Obs : Source[o] = s /\ counted'[o] > counted[o]}, ReplaysBefore)

Folded(s) ==
    FoldLeft(LAMBDA d, o : Measured(ProbeOf[s], d, Outcome[o]), debouncer[s], Arrivals(s))

DInit == Init /\ debouncer = [s \in Stream |-> Opening(s)]

DNext ==
    /\ Next
    /\ debouncer' = IF counted' = counted THEN debouncer ELSE [s \in Stream |-> Folded(s)]

DSpec == DInit /\ [][DNext]_dvars

DFairSpec == DSpec /\ Fairness

-----------------------------------------------------------------------------
(* Properties.                                                             *)

\* What the stream measured, in finish order, less what the limits evicted.
Measurements(s) ==
    SelectSeq([o \in 1..made |-> o],
              LAMBDA o : Source[o] = s /\ (o \in evicted => counted[o] > 0))

HasRun(s, outcome, n) ==
    LET m == Measurements(s)
    IN  \E i \in n..Len(m) : \A j \in (i - n + 1)..i : Outcome[m[j]] = outcome

\* The order of replay never fakes a recovery: a stream reads Healthy only if it
\* really measured the recovery threshold of good answers in a row, whatever was
\* spooled, retried, delivered late or rejected at first.
RecoveryIsReal ==
    \A s \in Stream : debouncer[s].verdict = "Healthy" =>
        HasRun(s, "Ok", Policy[ProbeOf[s]].recovery)

=============================================================================
