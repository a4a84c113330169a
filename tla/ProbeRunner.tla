----------------------------- MODULE ProbeRunner -----------------------------
(***************************************************************************)
(* An agent's probes: the schedule, the concurrency slots, the time limit, *)
(* and what is left behind by a probe that does not come back.             *)
(*                                                                         *)
(* The agent's loop calls run_due, which walks the schedule in order and   *)
(* awaits one probe after the other.  A probe runs in a task of its own    *)
(* that holds a slot; the loop waits for it no longer than the probe's     *)
(* timeout.  A task that overruns it stays, with its slot.  A mount probe  *)
(* hands its stat() to a blocking thread and waits for it for the same     *)
(* time, in the task.                                                      *)
(*                                                                         *)
(* Source: src/src/probes/runner.rs, src/src/agent/local_probes.rs,        *)
(* src/src/probes/nfs/client.rs (stat_with_deadline), the scheduling in    *)
(* src/src/agent/mod.rs and register_builtin_probes in                     *)
(* src/src/controller/mod.rs (the mount probe's debounce policy).          *)
(*                                                                         *)
(* Abstracted: clocks, to the order of their events; what a probe measures *)
(* (module Probes); the way of an observation to the controller (module    *)
(* AgentDelivery), so the stream of a key counts it at once.               *)
(***************************************************************************)
EXTENDS Debouncer, Sequences, FiniteSets, FiniteSetsExt

CONSTANTS
    Entry,        \* the schedule: 1..n, in its order
    Key,          \* [Entry -> Probe]: probe id and target; the key of slot and stream
    Limit,        \* [Probe -> Nat]: max_outstanding
    Roomy,        \* the keys whose Limit stands for u32::MAX
    Stat,         \* the entries that probe a mount
    Gpu,          \* the entries that run nvidia-smi
    MaxThreads,   \* blocking threads are counted up to here
    MaxEvents     \* how often a mount or nvidia-smi changes

ASSUME ScheduleAssumption ==
    /\ Entry \subseteq Nat /\ IsFiniteSet(Entry)
    /\ Key \in [Entry -> Probe] /\ Limit \in [Probe -> Nat \ {0}]
    /\ Roomy \subseteq Probe /\ Stat \subseteq Entry /\ Gpu \subseteq Entry
    /\ MaxThreads \in Nat /\ MaxEvents \in Nat

VARIABLES
    scheduled,    \* the entries still in the schedule
    due,          \* the entries whose next_due has passed
    turn,         \* run_due: the entries it has yet to come to
    awaited,      \* the task run_due waits for, if any: a set of at most one
    missing,      \* an observation of this turn says nvidia_smi_missing
    live,         \* the tasks that have not ended, pairs of entry and number
    slots,        \* [Probe -> Nat]: ProbeRunner::outstanding
    threads,      \* [Stat -> Nat]: threads inside stat()
    wedged,       \* the mounts that do not answer
    tool,         \* nvidia-smi is installed
    stream,       \* [StatKey -> debounced health of the key]
    events

runnerVars == <<scheduled, due, turn, awaited, missing, live, slots, threads, wedged, tool,
                stream, events>>

world == <<wedged, tool, events>>

StatKey == {Key[i] : i \in Stat}

Held(k) == {t \in live : Key[t[1]] = k}

-----------------------------------------------------------------------------
RunnerInit ==
    /\ scheduled = Entry
    /\ due = {} /\ turn = {} /\ awaited = {} /\ missing = FALSE
    /\ live = {} /\ slots = [k \in Probe |-> 0] /\ threads = [i \in Stat |-> 0]
    /\ wedged \in SUBSET Stat /\ tool = TRUE /\ events = 0
    /\ stream = [k \in StatKey |-> [verdict |-> "Unknown", health |-> "Unknown",
                                  failures |-> 0, successes |-> 0]]

\* The interval of an entry, or its jitter at the start, has passed.
ComeDue(i) ==
    /\ i \in scheduled \ due
    /\ due' = due \cup {i}
    /\ UNCHANGED <<scheduled, turn, awaited, missing, live, slots, threads, stream>>
    /\ UNCHANGED world

\* run_due takes the time once, before its loop; run_all makes everything due.
StartTurn ==
    /\ turn = {} /\ awaited = {}
    /\ \E d \in {due, scheduled} :
          /\ d # {}
          /\ due' = d /\ turn' = d
    /\ UNCHANGED <<scheduled, awaited, missing, live, slots, threads, stream>>
    /\ UNCHANGED world

\* The end of the loop body, and after the last entry the end of run_due: a
\* missing tool takes its probe out of the schedule.
Reschedule(i, gone) ==
    /\ turn' = turn \ {i} /\ awaited' = {}
    /\ LET removed == IF turn = {i} /\ (missing \/ gone) THEN Gpu ELSE {}
       IN  scheduled' = scheduled \ removed /\ due' = due \ (removed \cup {i})
    /\ missing' = (turn # {i} /\ (missing \/ gone))

\* An observation of entry i with this status; those of the mounts are followed
\* to the stream that counts them.
Record(i, status) ==
    stream' = IF i \in Stat THEN [stream EXCEPT ![Key[i]] = Measured(Key[i], @, status)]
                            ELSE stream

\* Faulty: an entry that was skipped stays due.
SkipStayingDue(i) ==
    /\ awaited = {} /\ turn # {} /\ i = Min(turn)
    /\ slots[Key[i]] >= Limit[Key[i]]
    /\ turn' = turn \ {i}
    /\ UNCHANGED <<scheduled, due, awaited, missing, live, slots, threads, stream>>
    /\ UNCHANGED world

\* OutstandingGuard::acquire refuses: Skipped::AlreadyRunning, no observation.
Skip(i) ==
    /\ awaited = {} /\ turn # {} /\ i = Min(turn)
    /\ slots[Key[i]] >= Limit[Key[i]]
    /\ Reschedule(i, FALSE)
    /\ UNCHANGED <<live, slots, threads, stream>> /\ UNCHANGED world

\* The slot is taken and the task spawned.  A mount probe starts a thread.
Spawn(i) ==
    /\ awaited = {} /\ turn # {} /\ i = Min(turn)
    /\ slots[Key[i]] < Limit[Key[i]]
    /\ slots' = [slots EXCEPT ![Key[i]] = @ + 1]
    /\ \E n \in 1..Limit[Key[i]] :
          /\ <<i, n>> \notin live
          /\ live' = live \cup {<<i, n>>} /\ awaited' = {<<i, n>>}
    /\ threads' = IF i \in Stat /\ threads[i] < MaxThreads
                    THEN [threads EXCEPT ![i] = @ + 1] ELSE threads
    /\ UNCHANGED <<scheduled, due, turn, missing, stream>> /\ UNCHANGED world

\* OutstandingGuard::drop
Release(t) ==
    /\ live' = live \ {t}
    /\ slots' = [slots EXCEPT ![Key[t[1]]] = @ - 1]

\* What a probe that comes back in time may say.
Answers(i) ==
    IF i \in Stat THEN IF i \in wedged THEN {} ELSE {"Ok", "Failed"}
    ELSE IF i \in Gpu /\ ~tool THEN {"NotApplicable"}
    ELSE {"Ok", "Failed"}

\* collect returns in time.
Answer(t) ==
    /\ t \in awaited
    /\ \E status \in Answers(t[1]) :
          /\ Record(t[1], status)
          /\ Reschedule(t[1], status = "NotApplicable" /\ t[1] \in Gpu)
    /\ Release(t)
    /\ threads' = IF t[1] \in Stat THEN [threads EXCEPT ![t[1]] = @ - 1] ELSE threads
    /\ UNCHANGED world

\* stat_with_deadline gives up first: collect returns, the thread does not.
StatGivesUp(t) ==
    /\ t \in awaited /\ t[1] \in Stat \cap wedged
    /\ Record(t[1], "Failed") /\ Reschedule(t[1], FALSE)
    /\ Release(t)
    /\ UNCHANGED threads /\ UNCHANGED world

\* Faulty: the guard is lost with the panic.
PanicLeaking(t) ==
    /\ t \in awaited /\ t[1] \notin Stat
    /\ Record(t[1], "Failed") /\ Reschedule(t[1], FALSE)
    /\ live' = live \ {t}
    /\ UNCHANGED <<slots, threads>> /\ UNCHANGED world

\* collect panics; the unwinding drops the guard.
Panic(t) ==
    /\ t \in awaited /\ t[1] \notin Stat
    /\ Record(t[1], "Failed") /\ Reschedule(t[1], FALSE)
    /\ Release(t)
    /\ UNCHANGED threads /\ UNCHANGED world

\* ProbeRunner::run gives up; the task keeps its slot.  (A key without a limit
\* is kept within its bound here.)
TimeOut(t) ==
    /\ t \in awaited
    /\ t[1] \in Stat => t[1] \in wedged
    /\ Key[t[1]] \in Roomy => slots[Key[t[1]]] < Limit[Key[t[1]]]
    /\ Record(t[1], "Failed") /\ Reschedule(t[1], FALSE)
    /\ UNCHANGED <<live, slots, threads>> /\ UNCHANGED world

\* A task that overran its timeout ends after all; a mount probe's at its own
\* deadline, which is the same.
EndLate(t) ==
    /\ t \in live \ awaited
    /\ Release(t)
    /\ UNCHANGED <<scheduled, due, turn, awaited, missing, threads, stream>>
    /\ UNCHANGED world

-----------------------------------------------------------------------------
(* The host.                                                               *)

Wedge(i) ==
    /\ events < MaxEvents
    /\ wedged' = IF i \in wedged THEN wedged \ {i} ELSE wedged \cup {i}
    /\ events' = events + 1
    /\ UNCHANGED <<scheduled, due, turn, awaited, missing, live, slots, threads, tool, stream>>

Uninstall ==
    /\ events < MaxEvents
    /\ tool' = ~tool
    /\ events' = events + 1
    /\ UNCHANGED <<scheduled, due, turn, awaited, missing, live, slots, threads, wedged, stream>>

\* The kernel answers an abandoned stat().
ThreadReturns(i) ==
    /\ i \notin wedged
    /\ threads[i] > Cardinality({t \in awaited : t[1] = i})
    /\ threads' = [threads EXCEPT ![i] = @ - 1]
    /\ UNCHANGED <<scheduled, due, turn, awaited, missing, live, slots, stream>>
    /\ UNCHANGED world

-----------------------------------------------------------------------------
Run(i) == Skip(i) \/ Spawn(i)

Return(t) == Answer(t) \/ StatGivesUp(t) \/ Panic(t) \/ TimeOut(t)

RunnerNext ==
    \/ StartTurn \/ Uninstall
    \/ \E i \in Entry : ComeDue(i) \/ Run(i)
    \/ \E t \in awaited : Return(t)
    \/ \E t \in live : EndLate(t)
    \/ \E i \in Stat : Wedge(i) \/ ThreadReturns(i)

RunnerSpec == RunnerInit /\ [][RunnerNext]_runnerVars

\* Timers fire, the loop keeps turning, and a mount probe's task ends at its
\* deadline.  Nothing is assumed of any other probe that overran its timeout.
RunnerFairness ==
    /\ WF_runnerVars(StartTurn)
    /\ \A i \in Entry : WF_runnerVars(ComeDue(i)) /\ WF_runnerVars(Run(i))
    /\ WF_runnerVars(\E t \in awaited : Return(t))
    /\ \A i \in Stat : WF_runnerVars(\E t \in live : t[1] = i /\ EndLate(t))

FairRunner == RunnerSpec /\ RunnerFairness

-----------------------------------------------------------------------------
(* Properties.                                                             *)

\* Variables stay in their types; an entry taken out of the schedule is neither
\* due nor come to again, and at most one task is awaited (run_due).
RunnerTypeOK ==
    /\ scheduled \subseteq Entry /\ due \subseteq scheduled /\ turn \subseteq due
    /\ live \subseteq Entry \X Nat /\ awaited \subseteq live /\ Cardinality(awaited) <= 1
    /\ slots \in [Probe -> Nat] /\ threads \in [Stat -> 0..MaxThreads]
    /\ wedged \subseteq Stat /\ {tool, missing} \subseteq BOOLEAN /\ events \in 0..MaxEvents

\* No slot is lost and none is handed out twice, through answers, panics,
\* timeouts and late ends: the count of a key is the number of its tasks that
\* have not ended, and never above max_outstanding (OutstandingGuard).
SlotsBalanced ==
    \A k \in Probe : slots[k] = Cardinality(Held(k)) /\ slots[k] <= Limit[k]

\* No probe that hangs, and no run of skipped turns, keeps an entry from being
\* come to, and a mount with a slot of its own is measured again and again,
\* wedged or not (run_due, "one wedged mount does not stop the others being
\* checked").
KeepsProbing ==
    \A i \in Entry :
        /\ i \in due ~> i \notin due
        /\ i \in Stat /\ (\A j \in Entry \ {i} : Key[j] # Key[i]) =>
              []<>(\E t \in awaited : t[1] = i)

\* A mount that stays wedged is shown as Unavailable in the end, and for good.
Noticed(i) == <>[](i \in wedged) => <>[](stream[Key[i]].health = "Unavailable")

\* It is if it is the only mount of its host: whether the probe or the runner
\* gives up on it, a wedged mount is measured as often as the debouncer asks.
LoneMountNoticed ==
    \A i \in Stat : (\A j \in Entry \ {i} : Key[j] # Key[i]) => Noticed(i)

\* Probing goes on, whatever hangs: for every entry, and for a wedged mount until
\* it is noticed.
ProbingGoesOn == KeepsProbing /\ LoneMountNoticed
=============================================================================
