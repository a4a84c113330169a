------------------------------ MODULE Debouncer ------------------------------
(***************************************************************************)
(* Health, and the hysteresis that turns a stream of probe answers into    *)
(* one.  Pure operators on a stream record with the fields verdict,        *)
(* failures, successes (the debouncer) and health (what is shown of it).   *)
(*                                                                         *)
(* Source: src/src/state/debounce.rs, Health in src/src/state/mod.rs, cap  *)
(* in src/src/state/engine.rs.                                             *)
(***************************************************************************)
EXTENDS Integers

CONSTANTS
    Probe,      \* the registered, non-informational probes
    Policy,     \* [Probe -> DebouncePolicy]: ProbeMapping.policy
    MaxCount    \* where the u32 counters saturate

DebouncePolicy == [warning : 1..MaxCount, critical : 1..MaxCount,
                   recovery : 1..MaxCount]

ASSUME CountAssumption == MaxCount \in Nat \ {0}
ASSUME PolicyAssumption == Policy \in [Probe -> DebouncePolicy]

Health == {"NotApplicable", "Healthy", "Maintenance", "Unknown", "Degraded",
           "Unavailable"}

\* Health::severity_rank
Rank == [h \in Health |->
            CASE h = "NotApplicable" -> 0
              [] h = "Healthy"       -> 1
              [] h = "Maintenance"   -> 2
              [] h = "Unknown"       -> 3
              [] h = "Degraded"      -> 4
              [] h = "Unavailable"   -> 5]

\* ProbeStatus; "Failed" stands for Failed, Timeout and Stuck, which the engine
\* does not tell apart.
Status == {"Ok", "Degraded", "Failed", "Unsupported", "NotApplicable"}

Bump(n) == IF n < MaxCount THEN n + 1 ELSE MaxCount   \* u32::saturating_add(1)

\* Faulty: a failure after a success downgrades an outage.
NextVerdictFlapping(p, h, failures, successes) ==
    IF failures >= Policy[p].critical THEN "Unavailable"
    ELSE IF failures >= Policy[p].warning THEN "Degraded"
    ELSE IF successes >= Policy[p].recovery THEN "Healthy"
    ELSE h

\* Debouncer::observe, the choice of the next health.
NextVerdict(p, h, failures, successes) ==
    IF failures >= Policy[p].critical \/ (failures >= Policy[p].warning /\ h = "Unavailable")
      THEN "Unavailable"
    ELSE IF failures >= Policy[p].warning THEN "Degraded"
    ELSE IF successes >= Policy[p].recovery THEN "Healthy"
    ELSE h

\* cap: the worst health a status can justify.
Cap(h, status) == IF status = "Degraded" /\ h = "Unavailable" THEN "Degraded" ELSE h

\* Faulty: the runs survive a forced health.
ForcedKeepsRuns(s, h) == [s EXCEPT !.verdict = h, !.health = h]

\* Debouncer::force together with the health it is shown with.
Forced(s, h) == [s EXCEPT !.verdict = h, !.health = h, !.failures = 0, !.successes = 0]

\* Debouncer::observe and cap.
Measured(p, s, status) ==
    LET failures  == IF status = "Ok" THEN 0 ELSE Bump(s.failures)
        successes == IF status = "Ok" THEN Bump(s.successes) ELSE 0
        verdict   == NextVerdict(p, s.verdict, failures, successes)
    IN  [s EXCEPT !.failures = failures, !.successes = successes,
                  !.verdict = verdict, !.health = Cap(verdict, status)]
=============================================================================
