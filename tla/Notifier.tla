------------------------------- MODULE Notifier -------------------------------
(***************************************************************************)
(* The notification worker, running beside the diagnosis passes of         *)
(* IncidentLifecycle: it reads the candidates they committed, waits its    *)
(* turn, looks again whether a message still holds, sends it, remembers it *)
(* and records it.  It takes no lock while it sends, so passes, crashes    *)
(* and maintenance windows come between any two of its steps.              *)
(*                                                                         *)
(* Source: notification_loop in src/src/controller/server.rs, notify in    *)
(* src/src/controller/notify.rs, src/src/notification/dedup.rs and         *)
(* src/src/persistence/notifications.rs.                                   *)
(*                                                                         *)
(* Abstracted: a maintenance window covers every affected entity or it     *)
(* does not count.  Providers only answer or fail; a failed call may have  *)
(* been heard all the same.  Records of versions before event identities   *)
(* are left out.                                                           *)
(***************************************************************************)
EXTENDS IncidentLifecycle, Sequences

CONSTANTS
    Provider,
    Floor,        \* notification.min_severity
    MaxFaults     \* bound on calls and records that fail, unread histories and
                  \* maintenance windows

ASSUME NotifierAssumption ==
    /\ Floor \in 0..2 /\ MaxFaults \in Nat

VARIABLES
    worker,       \* where the worker is
    quiet,        \* did the windows read at the start of the pass cover the incident?
    queue,        \* messages and providers this pass has still to look at
    current,      \* the one it is dealing with, if any
    sent,         \* Deduplicator::sent
    records,      \* the notifications table
    maintained,   \* is a maintenance window in force?
    faults,
    inbox,        \* history: what each provider heard, in order
    blind         \* history: deliveries the worker may not know of

wvars == <<worker, quiet, queue, current, sent>>
nvars == <<ivars, wvars, records, maintained, faults, inbox, blind>>

\* Notification::deduplication_key
Key(n) == [incident |-> n.incident, trigger |-> n.trigger, event |-> n.event]

Keys == [incident : Id, trigger : Trigger, event : Event]

\* Trigger::is_recovery
IsRecovery(k) == k.trigger \in {"Recovering", "Resolved"}

Item == [note : Notification, to : Provider]
Delivery == [key : Keys, to : Provider]

DeliveryOf(m) == [key |-> Key(m.note), to |-> m.to]

NInit ==
    /\ IInit
    /\ worker = "idle" /\ quiet = FALSE /\ queue = {} /\ current = {}
    /\ sent = {} /\ records = {}
    /\ maintained = FALSE /\ faults = 0
    /\ inbox = [p \in Provider |-> <<>>] /\ blind = {}

-----------------------------------------------------------------------------
(* One pass of notification_loop.                                          *)

\* Faulty: the history is read only once, before the first delivery.
BeginUnseeded ==
    /\ up /\ worker = "idle"
    /\ worker' = "pass"
    /\ quiet' = maintained
    /\ queue' = [note : candidates, to : Provider]
    /\ UNCHANGED <<ivars, current, sent, records, maintained, faults, inbox, blind>>

\* Read the windows (active_maintenance fails open), merge the delivery history,
\* read the candidates.  A history that cannot be read is only warned about.
Begin ==
    /\ up /\ worker = "idle"
    /\ worker' = "pass"
    /\ quiet' \in {maintained, FALSE}
    /\ queue' = [note : candidates, to : Provider]
    /\ \/ sent' = sent \cup records /\ UNCHANGED <<faults, blind>>
       \/ /\ faults < MaxFaults
          /\ faults' = faults + 1
          /\ blind' = blind \cup (records \ sent)
          /\ UNCHANGED sent
    /\ UNCHANGED <<ivars, current, records, maintained, inbox>>

\* The pass goes through its messages oldest first.
First(m) == \A other \in queue : m.note.event <= other.note.event

\* Faulty: deduplicated by incident and trigger, not by event.
SkippedByTrigger(m) ==
    \/ m.note.severity < Floor /\ ~IsRecovery(m.note)
    \/ quiet
    \/ \E d \in sent : /\ d.to = m.to /\ d.key.incident = m.note.incident
                       /\ d.key.trigger = m.note.trigger

\* Too mild to tell, under maintenance, or told already (should_send).
Skipped(m) ==
    \/ m.note.severity < Floor /\ ~IsRecovery(m.note)
    \/ quiet
    \/ DeliveryOf(m) \in sent

Consider(m) ==
    /\ worker = "pass" /\ m \in queue /\ First(m)
    /\ queue' = queue \ {m}
    /\ IF Skipped(m)
         THEN UNCHANGED <<worker, current>>
         ELSE worker' = "spacing" /\ current' = {m}
    /\ UNCHANGED <<ivars, quiet, sent, records, maintained, faults, inbox, blind>>

\* is_notification_current
IsCurrent(k) == k \in {Key(n) : n \in candidates}

\* After the wait: does the message still hold, and has a window started?
Recheck(m) ==
    /\ worker = "spacing" /\ current = {m}
    /\ \/ /\ IF IsCurrent(Key(m.note)) /\ ~maintained
               THEN worker' = "sending" /\ UNCHANGED current
               ELSE worker' = "pass" /\ current' = {}
          /\ UNCHANGED faults
       \/ /\ IsCurrent(Key(m.note))   \* the windows cannot be read
          /\ faults < MaxFaults
          /\ faults' = faults + 1
          /\ worker' = "sending" /\ UNCHANGED current
    /\ UNCHANGED <<ivars, quiet, queue, sent, records, maintained, inbox, blind>>

\* The look-up, or an incident, cannot be read: the pass ends.
PassFails ==
    /\ worker \in {"pass", "spacing"} /\ faults < MaxFaults
    /\ faults' = faults + 1
    /\ worker' = "retaining" /\ queue' = {} /\ current' = {}
    /\ UNCHANGED <<ivars, quiet, sent, records, maintained, inbox, blind>>

Hear(m) == inbox' = [inbox EXCEPT ![m.to] = Append(@, Key(m.note))]

\* provider.send answers Ok, and the worker remembers the delivery.
SendOk(m) ==
    /\ worker = "sending" /\ current = {m}
    /\ Hear(m)
    /\ sent' = sent \cup {DeliveryOf(m)}
    /\ worker' = "recording"
    /\ UNCHANGED <<ivars, quiet, queue, current, records, maintained, faults, blind>>

\* provider.send fails; the message may have been heard.
SendFails(m) ==
    /\ worker = "sending" /\ current = {m}
    /\ faults < MaxFaults
    /\ faults' = faults + 1
    /\ \/ UNCHANGED <<inbox, blind>>
       \/ Hear(m) /\ blind' = blind \cup {DeliveryOf(m)}
    /\ worker' = "pass" /\ current' = {}
    /\ UNCHANGED <<ivars, quiet, queue, sent, records, maintained>>

\* save_notification; a failure is only warned about.
Record(m) ==
    /\ worker = "recording" /\ current = {m}
    /\ \/ records' = records \cup {DeliveryOf(m)} /\ UNCHANGED <<faults, blind>>
       \/ /\ faults < MaxFaults
          /\ faults' = faults + 1
          /\ blind' = blind \cup {DeliveryOf(m)}
          /\ UNCHANGED records
    /\ worker' = "pass" /\ current' = {}
    /\ UNCHANGED <<ivars, quiet, queue, sent, maintained, inbox>>

EndPass ==
    /\ worker = "pass" /\ queue = {}
    /\ worker' = "retaining"
    /\ UNCHANGED <<ivars, quiet, queue, current, sent, records, maintained, faults, inbox, blind>>

\* retain_candidates, unless the candidates cannot be read.
Retain ==
    /\ worker = "retaining"
    /\ worker' = "idle" /\ quiet' = FALSE
    /\ \/ sent' = {d \in sent : IsCurrent(d.key)} /\ UNCHANGED faults
       \/ faults < MaxFaults /\ faults' = faults + 1 /\ UNCHANGED sent
    /\ UNCHANGED <<ivars, queue, current, records, maintained, inbox, blind>>

-----------------------------------------------------------------------------
(* What runs beside it.                                                    *)

\* An operator declares a maintenance window.
StartMaintenance ==
    /\ ~maintained /\ faults < MaxFaults
    /\ maintained' = TRUE /\ faults' = faults + 1
    /\ UNCHANGED <<ivars, wvars, records, inbox, blind>>

EndMaintenance ==
    /\ maintained
    /\ maintained' = FALSE
    /\ UNCHANGED <<ivars, wvars, records, faults, inbox, blind>>

\* The controller stops with its worker; a delivery not yet recorded is
\* forgotten.
Stop ==
    /\ Crash
    /\ worker' = "idle" /\ quiet' = FALSE /\ queue' = {} /\ current' = {} /\ sent' = {}
    /\ blind' = IF worker = "recording" THEN blind \cup {DeliveryOf(m) : m \in current}
                                        ELSE blind
    /\ UNCHANGED <<records, maintained, faults, inbox>>

\* A step of the incidents' side leaves the worker alone.
Beside(A) == A /\ UNCHANGED <<wvars, records, maintained, faults, inbox, blind>>

Handle(m) == Recheck(m) \/ SendOk(m) \/ SendFails(m) \/ Record(m)

WorkerStep ==
    \/ Begin \/ EndPass \/ Retain
    \/ \E m \in queue : Consider(m)
    \/ \E m \in current : Handle(m)

NNext ==
    \/ Beside(DiagnosisPass) \/ Beside(Tick) \/ Beside(Restart) \/ Beside(ResetState)
    \/ Stop
    \/ WorkerStep \/ PassFails
    \/ StartMaintenance \/ EndMaintenance

NSpec == NInit /\ [][NNext]_nvars

\* The worker's loop is never left, a stopped controller is started again, and
\* a maintenance window ends.  That a provider answers in the end is the bound
\* on faults.
NFairSpec ==
    NSpec /\ WF_nvars(WorkerStep) /\ WF_nvars(Beside(Restart)) /\ WF_nvars(EndMaintenance)

-----------------------------------------------------------------------------

NTypeOK ==
    /\ ITypeOK
    /\ worker \in {"idle", "pass", "spacing", "sending", "recording", "retaining"}
    /\ quiet \in BOOLEAN
    /\ queue \subseteq Item /\ current \subseteq Item
    /\ sent \subseteq Delivery /\ records \subseteq Delivery /\ blind \subseteq Delivery
    /\ maintained \in BOOLEAN /\ faults \in 0..MaxFaults
    /\ inbox \in [Provider -> Seq(Keys)]

\* "Later lifecycle states replace obsolete messages, so a recovery cannot
\* arrive after a returning outage" (notification/mod.rs): whatever passes,
\* crashes and retries come while the worker waits, no provider hears a
\* recovery after the opening of a later outage.
RecoveryNotAfterReturn ==
    \A p \in Provider : \A i, j \in 1..Len(inbox[p]) :
        i < j /\ inbox[p][i].trigger = "Opened" /\ IsRecovery(inbox[p][j])
        => inbox[p][i].event < inbox[p][j].event

\* Deduplicator: a provider hears a message twice only when the worker could not
\* know of the first time, because the call seemed to fail, its record was not
\* saved, or the history could not be read; a restart alone repeats nothing.
NoRepeatedAlert ==
    \A p \in Provider : \A i, j \in 1..Len(inbox[p]) :
        i < j /\ inbox[p][i] = inbox[p][j] => [key |-> inbox[p][i], to |-> p] \in blind

\* The message of event e is to be told to p: severe enough, or the end of a
\* fault ("an operator told about a fault is owed the ending").
Due(p, e) ==
    \E n \in candidates :
        /\ n.event = e
        /\ n.severity >= Floor \/ IsRecovery(n)
        /\ \A i \in 1..Len(inbox[p]) : inbox[p][i] # Key(n)

\* "offered until each provider records delivery" (notification/mod.rs): what is
\* due is told, or stops being true, although calls fail, windows come and go
\* and the controller crashes.
DueIsTold == \A p \in Provider, e \in Event : Due(p, e) ~> ~Due(p, e)
=============================================================================
