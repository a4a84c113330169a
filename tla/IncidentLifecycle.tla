-------------------------- MODULE IncidentLifecycle --------------------------
(***************************************************************************)
(* The incidents of one cause (one fingerprint): opened by a diagnosis,    *)
(* refreshed and escalated while it lasts, recovering when the root is     *)
(* back, resolved when everything is, reopened when the fault returns      *)
(* within a window, and closed by a monitoring reset.  Each diagnosis pass *)
(* commits the incident together with the notifications it now calls for.  *)
(*                                                                         *)
(* Source: src/src/incident/{mod,engine}.rs, save_incident_in and          *)
(* load_resumable_incidents in src/src/persistence/incidents.rs,           *)
(* notifications_for_incident in src/src/notification/mod.rs, reset_state  *)
(* in src/src/persistence/reset.rs.                                        *)
(*                                                                         *)
(* Abstracted: a timeline is the number of its last event of each kind     *)
(* that notifications look at, and events are numbered in the order they   *)
(* happen.  What a pass diagnoses and which recoveries it verifies are     *)
(* inputs.  No code path acknowledges or suppresses an incident.           *)
(***************************************************************************)
EXTENDS Integers

CONSTANTS
    Severity,    \* Info (0), Warning (1), Critical (2), or some of them
    Window,      \* REOPEN_WINDOW_MINUTES
    MaxTime,     \* bound on the clock
    MaxId,       \* bound on the incidents ever opened
    MaxEvents,   \* bound on timeline events
    MaxCrash,    \* bound on crashes
    MaxReset     \* bound on resets

ASSUME LifecycleAssumption ==
    /\ Severity \subseteq 0..2 /\ 0 \in Severity
    /\ Window \in Nat \ {0} /\ MaxTime \in Nat
    /\ MaxId \in Nat /\ MaxEvents \in Nat
    /\ MaxCrash \in Nat /\ MaxReset \in Nat

Id == 1..MaxId
Event == 0..MaxEvents

VARIABLES
    now,
    up,           \* is the controller running?
    events,       \* events recorded on timelines so far
    table,        \* the incidents table
    opened,       \* how many rows it has had
    held,         \* the incident the engine holds: its id (0: none) and its row
    candidates,   \* the notification_candidates table
    reset_at,     \* when the state was last reset
    crashes, resets

ivars == <<now, up, events, table, opened, held, candidates, reset_at, crashes, resets>>

\* An incident; `recovered` is its last "recovering" or "resolved" event, and
\* `opening` its last "opened", "reopened" or "recovery_failed".
Row == [status : {"None", "Open", "Recovering", "Resolved", "Reset"},
        severity : Severity, started : 0..MaxTime, ended : 0..MaxTime,
        opening : Event, escalated : Event, changed : Event, recovered : Event]

NoRow == [status |-> "None", severity |-> 0, started |-> 0, ended |-> 0,
          opening |-> 0, escalated |-> 0, changed |-> 0, recovered |-> 0]

Nothing == [id |-> 0, row |-> NoRow]

\* IncidentStatus::is_active
Active(r) == r.status \in {"Open", "Recovering"}

-----------------------------------------------------------------------------
(* Notifications an incident calls for.                                    *)

Trigger == {"Opened", "Escalated", "DiagnosisChanged", "Recovering", "Resolved"}

Notification == [incident : Id, trigger : Trigger, event : Event, severity : Severity]

Note(i, r, trigger, event) ==
    [incident |-> i, trigger |-> trigger, event |-> event, severity |-> r.severity]

\* notifications_for_incident
NotificationsFor(i, r) ==
    IF r.status = "Resolved" THEN {Note(i, r, "Resolved", r.recovered)}
    ELSE IF r.status = "Recovering" THEN {Note(i, r, "Recovering", r.recovered)}
    ELSE IF r.status = "Open"
      THEN {Note(i, r, "Opened", r.opening)}
           \cup (IF r.escalated > r.opening
                 THEN {Note(i, r, "Escalated", r.escalated)} ELSE {})
           \cup (IF r.changed > r.opening
                 THEN {Note(i, r, "DiagnosisChanged", r.changed)} ELSE {})
    ELSE {}

\* Faulty: what an earlier incident of the cause still had to say stays.
CandidatesKept(i, r) == {c \in candidates : c.incident # i} \cup NotificationsFor(i, r)

\* save_incident_in, the candidates: those of this incident are replaced, those
\* of earlier incidents of the same cause go.
CandidatesAfter(i, r) ==
    {c \in candidates : c.incident # i /\ table[c.incident].started > r.started}
        \cup NotificationsFor(i, r)

\* save_incidents, and the engine adopts what was saved.
Save(i, r) ==
    /\ table' = [table EXCEPT ![i] = r]
    /\ candidates' = CandidatesAfter(i, r)
    /\ held' = [id |-> i, row |-> r]

-----------------------------------------------------------------------------
(* IncidentEngine::reconcile_verified.                                     *)

\* within_reopen_window
WithinWindow(r) == now - r.ended < Window

\* open_incident
OpenedRow(severity) ==
    [NoRow EXCEPT !.status = "Open", !.severity = severity, !.started = now,
                  !.opening = events + 1]

\* A diagnosis of a known incident: back to Open, escalate, refresh.  Returns
\* the row and the events it took.
Refreshed(r, severity, changed) ==
    LET e1 == IF r.status # "Open" THEN events + 1 ELSE events
        e2 == IF severity > r.severity THEN e1 + 1 ELSE e1
        e3 == IF changed THEN e2 + 1 ELSE e2
    IN  [events |-> e3,
         row |-> [r EXCEPT !.status = "Open",
                           !.ended = 0,
                           !.opening = IF r.status # "Open" THEN e1 ELSE r.opening,
                           !.severity = IF severity > r.severity THEN severity ELSE r.severity,
                           !.escalated = IF severity > r.severity THEN e2 ELSE r.escalated,
                           !.changed = IF changed THEN e3 ELSE r.changed]]

\* An active incident that is not diagnosed any more.
Undiagnosed(r, root, full) ==
    IF full
      THEN [r EXCEPT !.status = "Resolved", !.ended = now, !.recovered = events + 1]
    ELSE IF root /\ r.status # "Recovering"
      THEN [r EXCEPT !.status = "Recovering", !.recovered = events + 1]
    ELSE IF ~root /\ r.status = "Recovering"
      THEN [r EXCEPT !.status = "Open", !.opening = events + 1]
    ELSE r

-----------------------------------------------------------------------------
(* Actions.  A diagnosis pass whose transaction fails changes nothing:     *)
(* the engine adopts the reconciled copy only after the commit.            *)

IInit ==
    /\ now = 0 /\ up = TRUE /\ events = 0 /\ opened = 0
    /\ table = [i \in Id |-> NoRow]
    /\ held = Nothing
    /\ candidates = {}
    /\ reset_at = 0 /\ crashes = 0 /\ resets = 0

\* The fault is diagnosed and the engine holds no incident, or one resolved too
\* long ago.
Open(severity) ==
    /\ up /\ opened < MaxId /\ events < MaxEvents
    /\ held.row.status = "None" \/ (held.row.status = "Resolved" /\ ~WithinWindow(held.row))
    /\ Save(opened + 1, OpenedRow(severity))
    /\ opened' = opened + 1
    /\ events' = events + 1
    /\ UNCHANGED <<now, up, reset_at, crashes, resets>>

\* The fault is diagnosed and the engine holds an incident of it.
Refresh(severity, changed) ==
    LET result == Refreshed(held.row, severity, changed) IN
    /\ up /\ held.id # 0 /\ result.events <= MaxEvents
    /\ ~(held.row.status = "Resolved" /\ ~WithinWindow(held.row))
    /\ Save(held.id, result.row)
    /\ events' = result.events
    /\ UNCHANGED <<now, up, opened, reset_at, crashes, resets>>

\* The fault is not diagnosed.
Recover(root, full) ==
    LET r == Undiagnosed(held.row, root, full) IN
    /\ up /\ Active(held.row) /\ events < MaxEvents
    /\ Save(held.id, r)
    /\ events' = IF r = held.row THEN events ELSE events + 1
    /\ UNCHANGED <<now, up, opened, reset_at, crashes, resets>>

Tick ==
    /\ now < MaxTime
    /\ now' = now + 1
    /\ UNCHANGED <<up, events, table, opened, held, candidates, reset_at, crashes, resets>>

Crash ==
    /\ up /\ crashes < MaxCrash
    /\ up' = FALSE /\ held' = Nothing /\ crashes' = crashes + 1
    /\ UNCHANGED <<now, events, table, opened, candidates, reset_at, resets>>

\* Faulty: only what is active is resumed.
ResumableActive == {i \in Id : Active(table[i]) /\ table[i].started >= reset_at}

\* Faulty: an incident that is recovering is not resumed.
ResumableOpen ==
    {i \in Id : /\ table[i].started >= reset_at
                /\ \/ table[i].status = "Open"
                   \/ table[i].status = "Resolved" /\ table[i].ended >= now - Window}

\* load_resumable_incidents
Resumable ==
    {i \in Id : /\ table[i].started >= reset_at
                /\ \/ Active(table[i])
                   \/ table[i].status = "Resolved" /\ table[i].ended >= now - Window}

\* IncidentEngine::seed keeps i rather than j: an active one, then the newest.
Keeps(i, j) ==
    \/ Active(table[i]) /\ ~Active(table[j])
    \/ (Active(table[i]) <=> Active(table[j])) /\ table[i].started >= table[j].started

\* Controller::new: save what is active again, to restore its candidates, and
\* seed the engine.
Restart ==
    /\ ~up
    /\ up' = TRUE
    /\ IF Resumable = {}
         THEN UNCHANGED <<held, candidates>>
         ELSE LET i == CHOOSE i \in Resumable : \A j \in Resumable : Keeps(i, j) IN
              /\ held' = [id |-> i, row |-> table[i]]
              /\ candidates' = IF Active(table[i]) THEN CandidatesAfter(i, table[i])
                                                   ELSE candidates
    /\ UNCHANGED <<now, events, table, opened, reset_at, crashes, resets>>

\* reset_state, which requires a stopped controller.
ResetState ==
    /\ ~up /\ resets < MaxReset
    /\ table' = [i \in Id |-> IF Active(table[i])
                              THEN [table[i] EXCEPT !.status = "Reset", !.ended = now]
                              ELSE table[i]]
    /\ candidates' = {}
    /\ reset_at' = now
    /\ resets' = resets + 1
    /\ UNCHANGED <<now, up, events, opened, held, crashes>>

DiagnosisPass ==
    \/ \E severity \in Severity : Open(severity)
    \/ \E severity \in Severity, changed \in BOOLEAN : Refresh(severity, changed)
    \/ \E root, full \in BOOLEAN : Recover(root, full)

-----------------------------------------------------------------------------

ITypeOK ==
    /\ now \in 0..MaxTime /\ up \in BOOLEAN
    /\ events \in Event /\ opened \in 0..MaxId
    /\ table \in [Id -> Row]
    /\ held \in [id : 0..MaxId, row : Row]
    /\ candidates \subseteq Notification
    /\ reset_at \in 0..MaxTime /\ crashes \in 0..MaxCrash /\ resets \in 0..MaxReset

\* IncidentEngine holds one incident per cause, and only it is written: at most
\* one stored incident of a cause is ever active, whatever crashes, restarts and
\* resets come between, and while the controller runs it is the one the engine
\* holds, with the row the store has.
OneActive ==
    /\ \A i, j \in Id : Active(table[i]) /\ Active(table[j]) => i = j
    /\ up => \A i \in Id : Active(table[i]) => held = [id |-> i, row |-> table[i]]

\* Incident i was resolved so recently that its fault is the same one if it
\* returns, and no reset has come between.
Recent(i) ==
    table[i].status = "Resolved" /\ WithinWindow(table[i]) /\ table[i].started >= reset_at

\* "A returning fault within the window is the same incident, not a new one"
\* (incident/engine.rs), also when the controller restarted in between.
ReturnIsReopened ==
    [][opened' # opened => \A i \in Id : ~Recent(i) /\ ~Active(table[i])]_ivars

\* What was resolved too long ago, or reset, is over: no pass, late commit or
\* restart makes it active again.
ClosedStaysClosed ==
    [][\A i \in Id :
          \/ table[i].status = "Reset"
          \/ table[i].status = "Resolved" /\ (~WithinWindow(table[i]) \/ table[i].started < reset_at)
          => table'[i] = table[i]]_ivars
=============================================================================
