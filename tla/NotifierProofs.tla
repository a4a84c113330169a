---------------------------- MODULE NotifierProofs ----------------------------
(***************************************************************************)
(* Proofs about IncidentLifecycle and Notifier, for every number of        *)
(* incidents, events, providers, crashes, resets, faults and windows.      *)
(*                                                                         *)
(* The incidents' side: only the newest incident, number `opened`, can be  *)
(* active; each earlier one ended a whole Window before a later one        *)
(* started, or before a reset.  That is why a restart resumes the newest.  *)
(* The worker's side: what it is about to send was current when it looked, *)
(* and everything a provider heard is recorded or known to be unrecorded.  *)
(***************************************************************************)
EXTENDS Notifier, TLAPS

\* Most steps are first-order: Zenon, unless a step says otherwise.
USE Zenon

\* What is true of each stored incident.
SoundRow(i) ==
    LET r == table[i] IN
    /\ r.status # "None" /\ r.started <= now
    /\ r.opening <= events /\ r.recovered <= events
    /\ r.status = "Resolved" => r.started <= r.ended /\ r.ended <= now
    /\ Active(r) => r.started >= reset_at
    /\ r.status = "Reset" => r.started <= reset_at
    /\ r.status \in {"Recovering", "Resolved"} => r.opening < r.recovered

\* Incident i ended, and by time t its fault would be a new incident.
Over(i, t) ==
    /\ ~Active(table[i])
    /\ table[i].status = "Resolved" /\ table[i].started >= reset_at
       => table[i].ended + Window <= t

\* The engine holds the newest incident, or there is nothing to hold.
SoundHeld ==
    /\ ~up => held = Nothing
    /\ held.id = 0 => held = Nothing
    /\ up /\ held.id = 0 => \A i \in 1..opened : Over(i, now)
    /\ held.id # 0 => /\ held.id = opened /\ held.row = table[opened]
                      /\ held.row.status \in {"Open", "Recovering", "Resolved"}
                      /\ held.row.started >= reset_at

IInv ==
    /\ ITypeOK
    /\ reset_at <= now
    /\ \A i \in Id : i > opened => table[i] = NoRow
    /\ \A i \in 1..opened : SoundRow(i)
    /\ \A i \in 1..opened : i # opened => Over(i, table[opened].started)
    /\ SoundHeld
    /\ opened = 0 => candidates = {}
    /\ opened # 0 => candidates \subseteq NotificationsFor(opened, table[opened])

\* No opening told so far is later than the newest one.
Past(k) == k.trigger = "Opened" => opened # 0 /\ k.event <= table[opened].opening

AllPast == \A p \in Provider : \A i \in 1..Len(inbox[p]) : Past(inbox[p][i])

\* Every delivery is recorded, about to be, or one the worker may not know of.
Accounted ==
    \A p \in Provider : \A i \in 1..Len(inbox[p]) :
        LET d == [key |-> inbox[p][i], to |-> p] IN
        \/ d \in blind \/ d \in records
        \/ worker = "recording" /\ \E m \in current : d = DeliveryOf(m)

\* What the worker holds while it waits, sends and records.
SoundWorker ==
    /\ worker \notin {"spacing", "sending", "recording"} => current = {}
    /\ \A m, n \in current : m = n
    /\ worker \in {"pass", "spacing", "sending", "recording"} => records \subseteq sent \cup blind
    /\ worker \in {"spacing", "sending"} => \A m \in current : DeliveryOf(m) \notin sent
    /\ worker = "recording" => \A m \in current : DeliveryOf(m) \in sent
    /\ worker = "sending" => \A m \in current : Past(m.note)
    /\ worker = "sending" =>
         \A m \in current : IsRecovery(m.note) =>
            \A i \in 1..Len(inbox[m.to]) :
               inbox[m.to][i].trigger = "Opened" => inbox[m.to][i].event < m.note.event

NInv ==
    /\ IInv /\ NTypeOK /\ SoundWorker /\ AllPast /\ Accounted
    /\ RecoveryNotAfterReturn /\ NoRepeatedAlert

-----------------------------------------------------------------------------
(* The rows the engine computes.                                           *)

\* notifications_for_incident yields notifications of that incident.
LEMMA NotesType ==
    ASSUME NEW i \in Id, NEW r \in Row
    PROVE  /\ NotificationsFor(i, r) \subseteq Notification
           /\ \A n \in NotificationsFor(i, r) : n.incident = i
BY SMT DEF NotificationsFor, Note, Notification, Trigger, Row

\* What a recovery or an opening among an incident's notifications says.
LEMMA NotesMeaning ==
    ASSUME NEW i \in Id, NEW r \in Row, NEW n \in NotificationsFor(i, r)
    PROVE  /\ n.trigger = "Opened" => n.event = r.opening
           /\ IsRecovery(n) => r.status \in {"Recovering", "Resolved"} /\ n.event = r.recovered
BY SMT DEF NotificationsFor, Note, IsRecovery, Row

\* open_incident: a new incident starts now, with a new event.
LEMMA OpenedRowIs ==
    ASSUME LifecycleAssumption, ITypeOK, NEW s \in Severity, events < MaxEvents
    PROVE  /\ OpenedRow(s) \in Row
           /\ OpenedRow(s).status = "Open" /\ OpenedRow(s).started = now
           /\ OpenedRow(s).opening = events + 1 /\ OpenedRow(s).recovered = 0
<1>1. /\ now \in 0..MaxTime /\ events + 1 \in Event /\ NoRow \in Row
  BY SMT DEF LifecycleAssumption, ITypeOK, Event, NoRow, Row
<1>2. NoRow.recovered = 0
  BY DEF NoRow
<1> DEFINE e == events + 1
<1>3. OpenedRow(s) = [NoRow EXCEPT !.status = "Open", !.severity = s, !.started = now, !.opening = e]
  BY DEF OpenedRow
<1> HIDE DEF e
<1> QED BY <1>1, <1>2, <1>3 DEF Row, e

\* A refresh keeps the start and the last recovery, and never takes back an
\* opening.
LEMMA RefreshedIs ==
    ASSUME LifecycleAssumption, ITypeOK, NEW r \in Row, r.opening <= events,
           NEW s \in Severity, NEW c \in BOOLEAN, Refreshed(r, s, c).events <= MaxEvents
    PROVE  LET n == Refreshed(r, s, c) IN
           /\ n.row \in Row /\ n.events \in Event /\ n.events >= events
           /\ n.row.status = "Open" /\ n.row.started = r.started
           /\ n.row.recovered = r.recovered
           /\ n.row.opening >= r.opening /\ n.row.opening <= n.events
<1> DEFINE e1 == IF r.status # "Open" THEN events + 1 ELSE events
           e2 == IF s > r.severity THEN e1 + 1 ELSE e1
           e3 == IF c THEN e2 + 1 ELSE e2
           opening == IF r.status # "Open" THEN e1 ELSE r.opening
           severity == IF s > r.severity THEN s ELSE r.severity
           escalated == IF s > r.severity THEN e2 ELSE r.escalated
           change == IF c THEN e3 ELSE r.changed
           row == [r EXCEPT !.status = "Open", !.ended = 0, !.opening = opening,
                            !.severity = severity, !.escalated = escalated, !.changed = change]
<1>1. Refreshed(r, s, c) = [events |-> e3, row |-> row]
  BY DEF Refreshed
<1>2. /\ events \in Nat /\ MaxEvents \in Nat /\ 0 \in 0..MaxTime
      /\ r.opening \in Event /\ r.escalated \in Event /\ r.changed \in Event
      /\ r.severity \in Severity
  BY SMT DEF ITypeOK, Event, LifecycleAssumption, Row
<1>3. e1 \in Nat /\ e2 \in Nat /\ e3 \in Nat /\ events <= e1 /\ e1 <= e2 /\ e2 <= e3
  BY SMT, <1>2
<1>4. e3 <= MaxEvents
  BY SMT, <1>1
<1>5. e1 \in Event /\ e2 \in Event /\ e3 \in Event
  BY SMT, <1>2, <1>3, <1>4 DEF Event
<1>6. opening >= r.opening /\ opening <= e3
  <2> HIDE DEF e1, e2, e3
  <2> QED BY SMT, <1>2, <1>3 DEF Event, e1
<1>7. opening \in Event /\ severity \in Severity /\ escalated \in Event /\ change \in Event
  BY <1>2, <1>5
<1> HIDE DEF e1, e2, e3, opening, severity, escalated, change
<1>8. /\ row \in Row /\ row.status = "Open" /\ row.started = r.started
      /\ row.recovered = r.recovered /\ row.opening = opening
  BY <1>2, <1>7 DEF Row
<1> HIDE DEF row
<1> QED BY SMT, <1>1, <1>2, <1>3, <1>5, <1>6, <1>8

\* What follows for an active incident that is not diagnosed any more.
LEMMA UndiagnosedIs ==
    ASSUME LifecycleAssumption, ITypeOK, NEW r \in Row, Active(r), events < MaxEvents,
           r.opening <= events, r.recovered <= events, r.started <= now,
           r.status = "Recovering" => r.opening < r.recovered,
           NEW root \in BOOLEAN, NEW full \in BOOLEAN
    PROVE  LET n == Undiagnosed(r, root, full)
               e == IF n = r THEN events ELSE events + 1 IN
           /\ n \in Row /\ e \in Event /\ e >= events
           /\ n.status \in {"Open", "Recovering", "Resolved"} /\ n.started = r.started
           /\ n.opening >= r.opening /\ n.opening <= e /\ n.recovered <= e
           /\ n.status = "Resolved" => n.ended = now
           /\ n.status \in {"Recovering", "Resolved"} => n.opening < n.recovered
<1> DEFINE n == Undiagnosed(r, root, full)
<1>1. /\ events \in Nat /\ MaxEvents \in Nat /\ events + 1 \in Event /\ now \in 0..MaxTime
      /\ events \in Event /\ r.opening \in Nat /\ r.recovered \in Nat
  BY SMT DEF ITypeOK, Event, LifecycleAssumption, Row
<1> DEFINE e == events + 1
           resolved == [r EXCEPT !.status = "Resolved", !.ended = now, !.recovered = e]
           recovering == [r EXCEPT !.status = "Recovering", !.recovered = e]
           failed == [r EXCEPT !.status = "Open", !.opening = e]
<1>2. /\ full => n = resolved
      /\ ~full /\ root /\ r.status # "Recovering" => n = recovering
      /\ ~full /\ ~root /\ r.status = "Recovering" => n = failed
      /\ ~full /\ ~(root /\ r.status # "Recovering") /\ ~(~root /\ r.status = "Recovering") => n = r
  BY DEF Undiagnosed
<1>3. e \in Event /\ e \in Nat /\ e > events
  BY SMT, <1>1
<1> HIDE DEF e
<1>4. /\ resolved \in Row /\ resolved.status = "Resolved" /\ resolved.started = r.started
      /\ resolved.opening = r.opening /\ resolved.recovered = e /\ resolved.ended = now
  BY <1>1, <1>3 DEF Row
<1>5. /\ recovering \in Row /\ recovering.status = "Recovering" /\ recovering.started = r.started
      /\ recovering.opening = r.opening /\ recovering.recovered = e
  BY <1>1, <1>3 DEF Row
<1>6. /\ failed \in Row /\ failed.status = "Open" /\ failed.started = r.started
      /\ failed.opening = e /\ failed.recovered = r.recovered
  BY <1>1, <1>3 DEF Row
<1> HIDE DEF n, resolved, recovering, failed
<1>7. CASE n = resolved
  BY SMT, <1>1, <1>3, <1>4, <1>7 DEF Active, e, n
<1>8. CASE n = recovering /\ r.status # "Recovering"
  BY SMT, <1>1, <1>3, <1>5, <1>8 DEF Active, e, n
<1>9. CASE n = failed /\ r.status = "Recovering"
  BY SMT, <1>1, <1>3, <1>6, <1>9 DEF Active, e, n
<1>10. CASE n = r
  BY SMT, <1>1, <1>10 DEF Active, n
<1> QED BY <1>2, <1>7, <1>8, <1>9, <1>10 DEF n

-----------------------------------------------------------------------------
(* The incidents' side is inductive.                                       *)

\* A commit of the newest incident, or of one newer still, leaves its
\* notifications and no others.
LEMMA CommitReplaces ==
    ASSUME LifecycleAssumption, IInv, NEW i \in Id, NEW r \in Row,
           i = opened \/ i = opened + 1,
           opened # 0 => table[opened].started <= r.started
    PROVE  CandidatesAfter(i, r) = NotificationsFor(i, r)
<1>1. opened \in Nat
  BY SMT DEF IInv, ITypeOK, LifecycleAssumption
<1>2. CASE opened = 0
  BY <1>2 DEF IInv, CandidatesAfter
<1>3. CASE opened # 0
  <2>1. opened \in Id /\ table[opened] \in Row
    BY SMT, <1>1, <1>3 DEF IInv, ITypeOK, Id, LifecycleAssumption
  <2>2. \A c \in candidates : c.incident = opened
    BY <1>3, <2>1, NotesType DEF IInv
  <2>3. ~(table[opened].started > r.started)
    BY SMT, <1>3, <2>1 DEF Row, LifecycleAssumption
  <2> QED BY <2>2, <2>3 DEF CandidatesAfter
<1> QED BY <1>2, <1>3

\* Saving the incident the engine holds keeps the invariant.
LEMMA SaveKeeps ==
    ASSUME LifecycleAssumption, IInv, held.id # 0, NEW r \in Row, NEW e \in Event,
           r.started = held.row.started, e >= events,
           r.status \in {"Open", "Recovering", "Resolved"},
           r.opening <= e, r.recovered <= e,
           r.status = "Resolved" => r.ended = now,
           r.status \in {"Recovering", "Resolved"} => r.opening < r.recovered,
           Save(held.id, r), events' = e,
           UNCHANGED <<now, up, opened, reset_at, crashes, resets>>
    PROVE  IInv'
<1>1. /\ held.id = opened /\ held.row = table[opened] /\ held.row.started >= reset_at
      /\ opened \in Id /\ opened # 0 /\ up
  BY SMT DEF IInv, SoundHeld, ITypeOK, Id, LifecycleAssumption, Nothing
<1>2. /\ table' = [table EXCEPT ![opened] = r] /\ held' = [id |-> opened, row |-> r]
      /\ table \in [Id -> Row] /\ table'[opened] = r
      /\ \A i \in Id : i # opened => table'[i] = table[i]
  BY <1>1 DEF Save, IInv, ITypeOK
<1>3. candidates' = NotificationsFor(opened, r)
  <2>1. table[opened].started <= r.started
    BY SMT, <1>1, <1>2 DEF Row, LifecycleAssumption
  <2> QED BY <1>1, <2>1, CommitReplaces DEF Save
<1>4. now \in Nat /\ reset_at \in Nat /\ events \in Nat /\ e \in Nat /\ opened \in Nat /\ MaxId \in Nat
  BY SMT DEF IInv, ITypeOK, Event, LifecycleAssumption
<1>5. ITypeOK'
  BY <1>1, <1>2, <1>3, NotesType DEF IInv, ITypeOK, Id
<1>6. \A i \in 1..opened : SoundRow(i)'
  <2> SUFFICES ASSUME NEW i \in 1..opened PROVE SoundRow(i)'
    OBVIOUS
  <2>1. i \in Id /\ table[i] \in Row /\ SoundRow(i)
    BY SMT, <1>1, <1>2, <1>4 DEF IInv, Id
  <2>2. CASE i = opened
    <3>1. table[opened].started <= now
      BY <2>1, <2>2 DEF SoundRow
    <3> QED BY SMT, <1>1, <1>2, <1>4, <2>2, <3>1 DEF SoundRow, Active, Row
  <2>3. CASE i # opened
    BY SMT, <1>2, <1>4, <2>1, <2>3 DEF SoundRow, Active, Row, Event
  <2> QED BY <2>2, <2>3
<1>7. \A i \in 1..opened : i # opened => Over(i, table[opened].started)'
  <2> SUFFICES ASSUME NEW i \in 1..opened, i # opened
               PROVE  Over(i, table[opened].started)'
    OBVIOUS
  <2>1. i \in Id /\ Over(i, table[opened].started) /\ table'[i] = table[i]
    BY SMTT(60), <1>1, <1>2, <1>4 DEF IInv, Id
  <2>2. table'[opened'].started = table[opened].started
    BY <1>1, <1>2
  <2> QED BY <2>1, <2>2 DEF Over
<1>8. SoundHeld'
  BY <1>1, <1>2 DEF SoundHeld
<1>9. candidates' \subseteq NotificationsFor(opened', table'[opened'])
  BY <1>2, <1>3
<1>10. \A i \in Id : i > opened => table'[i] = NoRow
  BY SMT, <1>2, <1>4 DEF IInv, Id
<1> QED BY <1>1, <1>4, <1>5, <1>6, <1>7, <1>8, <1>9, <1>10 DEF IInv

\* A pass that diagnoses the held incident again keeps the invariant.
LEMMA RefreshKeeps ==
    ASSUME LifecycleAssumption, IInv, NEW s \in Severity, NEW c \in BOOLEAN, Refresh(s, c)
    PROVE  IInv'
<1> DEFINE n == Refreshed(held.row, s, c)
<1>1. /\ held.id # 0 /\ n.events <= MaxEvents /\ Save(held.id, n.row) /\ events' = n.events
      /\ UNCHANGED <<now, up, opened, reset_at, crashes, resets>>
  BY DEF Refresh
<1>2. /\ held.row \in Row /\ held.row = table[opened] /\ opened \in 1..opened
      /\ SoundRow(opened) /\ events \in Nat
  BY SMT, <1>1 DEF IInv, ITypeOK, SoundHeld, LifecycleAssumption, Event
<1>3. held.row.opening <= events /\ held.row.recovered <= events
  BY <1>2 DEF SoundRow
<1>4. /\ n.row \in Row /\ n.events \in Event /\ n.events >= events
      /\ n.row.status = "Open" /\ n.row.started = held.row.started
      /\ n.row.recovered = held.row.recovered /\ n.row.opening <= n.events
  BY ZenonT(60), <1>1, <1>2, <1>3, RefreshedIs DEF IInv
<1>5. n.row.recovered <= n.events
  BY SMT, <1>2, <1>3, <1>4 DEF Row, Event, LifecycleAssumption
<1> HIDE DEF n
<1> QED BY <1>1, <1>4, <1>5, SaveKeeps

\* A pass that does not diagnose the held incident keeps the invariant.
LEMMA RecoverKeeps ==
    ASSUME LifecycleAssumption, IInv, NEW root \in BOOLEAN, NEW full \in BOOLEAN,
           Recover(root, full)
    PROVE  IInv'
<1> DEFINE n == Undiagnosed(held.row, root, full)
           e == IF n = held.row THEN events ELSE events + 1
<1>1. /\ Active(held.row) /\ events < MaxEvents /\ Save(held.id, n) /\ events' = e
      /\ UNCHANGED <<now, up, opened, reset_at, crashes, resets>>
  BY DEF Recover
<1>2. held.id # 0
  BY SMT, <1>1 DEF IInv, SoundHeld, Nothing, NoRow, Active
<1>3. /\ held.row \in Row /\ held.row = table[opened] /\ opened \in 1..opened /\ SoundRow(opened)
  BY SMT, <1>2 DEF IInv, ITypeOK, SoundHeld, LifecycleAssumption
<1>4. /\ held.row.opening <= events /\ held.row.recovered <= events /\ held.row.started <= now
      /\ held.row.status = "Recovering" => held.row.opening < held.row.recovered
  BY <1>3 DEF SoundRow
<1>5. /\ n \in Row /\ e \in Event /\ e >= events
      /\ n.status \in {"Open", "Recovering", "Resolved"} /\ n.started = held.row.started
      /\ n.opening <= e /\ n.recovered <= e
      /\ n.status = "Resolved" => n.ended = now
      /\ n.status \in {"Recovering", "Resolved"} => n.opening < n.recovered
  BY SMT, <1>1, <1>3, <1>4, UndiagnosedIs DEF IInv
<1> HIDE DEF n, e
<1> QED BY <1>1, <1>2, <1>5, SaveKeeps

\* When reconcile_verified opens a new incident, every earlier one is over.
LEMMA OpenAfterAll ==
    ASSUME LifecycleAssumption, IInv, NEW s \in Severity, Open(s)
    PROVE  \A i \in 1..opened : Over(i, now)
<1>1. CASE held.id = 0
  BY <1>1 DEF IInv, SoundHeld, Open
<1>2. CASE held.id # 0
  <2>1. /\ held.row = table[opened] /\ opened \in Id /\ table[opened] \in Row
        /\ now \in Nat /\ Window \in Nat /\ MaxId \in Nat
        /\ opened \in 1..opened /\ \A i \in 1..opened : i \in Id
    BY SMT, <1>2 DEF IInv, SoundHeld, ITypeOK, Id, LifecycleAssumption
  <2>2. table[opened].status = "Resolved" /\ ~(now - table[opened].ended < Window)
    BY <1>2, <2>1 DEF Open, WithinWindow, IInv, SoundHeld
  <2>3. Over(opened, now)
    BY SMT, <2>1, <2>2 DEF Over, Active, Row, LifecycleAssumption
  <2>4. table[opened].started <= now
    BY <2>1 DEF IInv, SoundRow
  <2>5. ASSUME NEW i \in 1..opened, i # opened PROVE Over(i, now)
    <3>1. Over(i, table[opened].started) /\ table[i] \in Row
      BY <2>1, <2>5 DEF IInv, ITypeOK
    <3> QED BY SMT, <2>1, <2>4, <3>1 DEF Over, Row, LifecycleAssumption
  <2> QED BY <2>3, <2>5
<1> QED BY <1>1, <1>2

\* Opening a new incident keeps the invariant.
LEMMA OpenKeeps ==
    ASSUME LifecycleAssumption, IInv, NEW s \in Severity, Open(s)
    PROVE  IInv'
<1> DEFINE k == opened + 1
           r == OpenedRow(s)
<1>1. /\ opened < MaxId /\ events < MaxEvents /\ Save(k, r) /\ opened' = k /\ events' = events + 1
      /\ UNCHANGED <<now, up, reset_at, crashes, resets>> /\ up
  BY DEF Open
<1>2. /\ r \in Row /\ r.status = "Open" /\ r.started = now
      /\ r.opening = events + 1 /\ r.recovered = 0
  BY <1>1, OpenedRowIs DEF IInv
<1>3. /\ now \in Nat /\ events \in Nat /\ opened \in Nat /\ MaxId \in Nat /\ MaxEvents \in Nat
      /\ reset_at \in Nat /\ reset_at <= now
      /\ table \in [Id -> Row] /\ k \in Id /\ \A i \in 1..opened : i \in Id /\ i # k
  BY SMT, <1>1 DEF IInv, ITypeOK, Id, Event, LifecycleAssumption
<1>4. \A i \in 1..opened : Over(i, now)
  BY OpenAfterAll
<1> HIDE DEF r
<1>5. /\ table' = [table EXCEPT ![k] = r] /\ held' = [id |-> k, row |-> r] /\ table'[k] = r
      /\ \A i \in Id : i # k => table'[i] = table[i]
  BY <1>1, <1>3 DEF Save
<1>6. candidates' = NotificationsFor(k, r)
  <2>1. opened # 0 => table[opened].started <= r.started
    BY SMT, <1>2, <1>3 DEF IInv, SoundRow
  <2> QED BY <1>1, <1>2, <1>3, <2>1, CommitReplaces DEF Save
<1>7. ITypeOK'
  <2>1. events' \in Event /\ k \in 0..MaxId
    BY SMT, <1>1, <1>3 DEF Event
  <2>2. candidates' \subseteq Notification
    BY <1>2, <1>3, <1>6, NotesType
  <2> QED BY <1>1, <1>2, <1>3, <1>5, <2>1, <2>2 DEF IInv, ITypeOK
<1>8. \A i \in 1..k : SoundRow(i)'
  <2> SUFFICES ASSUME NEW i \in 1..k PROVE SoundRow(i)'
    OBVIOUS
  <2>1. CASE i = k
    BY SMT, <1>1, <1>2, <1>3, <1>5, <2>1 DEF SoundRow, Active
  <2>2. CASE i # k
    <3>1. i \in 1..opened /\ i \in Id /\ table'[i] = table[i] /\ table[i] \in Row /\ SoundRow(i)
      BY SMT, <1>3, <1>5, <2>2 DEF IInv
    <3> QED BY SMT, <1>1, <1>3, <3>1 DEF SoundRow, Active, Row, Event
  <2> QED BY <2>1, <2>2
<1>9. \A i \in 1..k : i # k => Over(i, table[opened].started)'
  <2> SUFFICES ASSUME NEW i \in 1..k, i # k PROVE Over(i, table[opened].started)'
    OBVIOUS
  <2>1. i \in 1..opened /\ table'[i] = table[i] /\ Over(i, now)
    BY SMT, <1>3, <1>4, <1>5
  <2>2. table'[opened'].started = now
    BY <1>1, <1>2, <1>5
  <2> QED BY <1>1, <2>1, <2>2 DEF Over
<1>10. SoundHeld'
  BY SMT, <1>1, <1>2, <1>3, <1>5 DEF SoundHeld
<1>11. \A i \in Id : i > k => table'[i] = NoRow
  BY SMT, <1>3, <1>5 DEF IInv, Id
<1>12. candidates' \subseteq NotificationsFor(opened', table'[opened']) /\ opened' # 0
  BY SMT, <1>1, <1>3, <1>5, <1>6
<1> QED BY <1>1, <1>3, <1>7, <1>8, <1>9, <1>10, <1>11, <1>12 DEF IInv

\* The clock and a crash keep the invariant.
LEMMA TickKeeps ==
    ASSUME LifecycleAssumption, IInv, Tick
    PROVE  IInv'
<1>1. /\ now \in Nat /\ now' = now + 1 /\ now' \in 0..MaxTime /\ Window \in Nat /\ opened \in Nat
      /\ MaxId \in Nat /\ reset_at \in Nat
      /\ UNCHANGED <<up, events, table, opened, held, candidates, reset_at, crashes, resets>>
      /\ \A i \in 1..opened : i \in Id /\ table[i] \in Row
  BY SMT DEF Tick, IInv, ITypeOK, LifecycleAssumption, Id
<1>2. ITypeOK'
  BY <1>1 DEF IInv, ITypeOK
<1>3. \A i \in 1..opened : SoundRow(i)'
  BY SMTT(60), <1>1 DEF IInv, SoundRow, Row, Active, LifecycleAssumption
<1>4. \A i \in 1..opened : i # opened => Over(i, table[opened].started)'
  BY <1>1 DEF IInv, Over
<1>5. SoundHeld'
  <2>1. up /\ held.id = 0 => \A i \in 1..opened : Over(i, now)'
    BY SMTT(60), <1>1 DEF IInv, SoundHeld, Over, Row, LifecycleAssumption
  <2> QED BY <1>1, <2>1 DEF IInv, SoundHeld
<1> QED BY SMT, <1>1, <1>2, <1>3, <1>4, <1>5 DEF IInv

\* A crash forgets what the engine holds and nothing else.
LEMMA CrashKeeps ==
    ASSUME LifecycleAssumption, IInv, Crash
    PROVE  IInv'
<1>1. /\ up' = FALSE /\ held' = Nothing /\ crashes' \in 0..MaxCrash /\ 0 \in 0..MaxId
      /\ UNCHANGED <<now, events, table, opened, candidates, reset_at, resets>>
  BY SMT DEF Crash, IInv, ITypeOK, LifecycleAssumption
<1>2. Nothing \in [id : 0..MaxId, row : Row] /\ Nothing.id = 0
  BY SMT, <1>1 DEF Nothing, NoRow, Row, Event, LifecycleAssumption
<1>3. ITypeOK'
  BY <1>1, <1>2 DEF IInv, ITypeOK
<1>4. SoundHeld'
  BY <1>1, <1>2 DEF SoundHeld
<1> QED BY <1>1, <1>3, <1>4 DEF IInv, SoundRow, Over

\* If anything is resumable, IncidentEngine::seed keeps the newest incident.
LEMMA SeedKeepsNewest ==
    ASSUME LifecycleAssumption, IInv, Resumable # {}
    PROVE  /\ opened \in Resumable
           /\ (CHOOSE i \in Resumable : \A j \in Resumable : Keeps(i, j)) = opened
<1>1. /\ now \in Nat /\ reset_at \in Nat /\ Window \in Nat /\ Window > 0 /\ opened \in Nat
      /\ MaxId \in Nat /\ opened <= MaxId /\ \A i \in Id : table[i] \in Row
  BY SMT DEF IInv, ITypeOK, LifecycleAssumption
<1>2. \A i \in Resumable : i \in Id /\ i \in 1..opened
  <2> SUFFICES ASSUME NEW i \in Resumable PROVE i \in Id /\ i \in 1..opened
    OBVIOUS
  <2>1. i \in Id /\ table[i].status # "None"
    BY DEF Resumable, Active
  <2>2. ~(i > opened)
    BY SMT, <2>1 DEF IInv, NoRow
  <2> QED BY SMT, <1>1, <2>1, <2>2 DEF Id
<1>3. opened \in Id /\ opened \in 1..opened
  <2>1. PICK i \in Resumable : i \in 1..opened
    BY <1>2
  <2> QED BY SMT, <1>1, <2>1 DEF Id
<1>4. ASSUME NEW i \in Resumable, i # opened
      PROVE  /\ table[i].status = "Resolved" /\ ~Active(table[i])
             /\ table[i].ended >= now - Window /\ table[i].started >= reset_at
             /\ table[i].ended + Window <= table[opened].started
             /\ table[i].started < table[opened].started
  <2>1. i \in Id /\ i \in 1..opened /\ Over(i, table[opened].started) /\ SoundRow(i)
    BY <1>2, <1>4 DEF IInv
  <2>2. /\ table[i].status = "Resolved" /\ ~Active(table[i])
        /\ table[i].ended >= now - Window /\ table[i].started >= reset_at
    BY <2>1 DEF Resumable, Over
  <2>3. table[i].ended + Window <= table[opened].started
    BY <2>1, <2>2 DEF Over
  <2>4. table[i].started <= table[i].ended
    BY <2>1, <2>2 DEF SoundRow
  <2> QED BY SMT, <1>1, <1>3, <2>1, <2>2, <2>3, <2>4 DEF Row, LifecycleAssumption
<1>5. opened \in Resumable
  <2> SUFFICES ASSUME opened \notin Resumable PROVE FALSE
    OBVIOUS
  <2>1. PICK i \in Resumable : i # opened
    OBVIOUS
  <2>2. /\ table[i].ended >= now - Window /\ table[i].started >= reset_at
        /\ table[i].ended + Window <= table[opened].started
        /\ table[i].started < table[opened].started
    BY <1>4, <2>1
  <2>3. SoundRow(opened) /\ table[opened] \in Row /\ table[i] \in Row /\ i \in Id
    BY <1>1, <1>2, <1>3 DEF IInv
  <2>4. table[opened].started >= reset_at /\ table[opened].status # "Reset"
    BY SMT, <1>1, <2>2, <2>3 DEF SoundRow, Row, LifecycleAssumption
  <2>5. table[opened].status = "Resolved" => table[opened].ended >= now - Window
    BY SMT, <1>1, <2>2, <2>3 DEF SoundRow, Row, LifecycleAssumption
  <2> QED BY <1>3, <2>3, <2>4, <2>5 DEF Resumable, SoundRow, Active, Row
<1>6. \A j \in Resumable : Keeps(opened, j)
  <2> SUFFICES ASSUME NEW j \in Resumable PROVE Keeps(opened, j)
    OBVIOUS
  <2>1. table[j].started \in Nat /\ table[opened].started \in Nat
    BY SMT, <1>1, <1>2, <1>3 DEF Row, LifecycleAssumption
  <2>2. CASE j = opened
    BY SMT, <2>1, <2>2 DEF Keeps
  <2>3. CASE j # opened
    BY SMT, <1>4, <2>1, <2>3 DEF Keeps, Active
  <2> QED BY <2>2, <2>3
<1>7. ASSUME NEW i \in Resumable, Keeps(i, opened) PROVE i = opened
  <2> SUFFICES ASSUME i # opened PROVE FALSE
    OBVIOUS
  <2>1. ~Active(table[i]) /\ table[i].started < table[opened].started
    BY <1>4
  <2> QED BY SMT, <1>1, <1>2, <1>3, <1>7, <2>1 DEF Keeps, Row, LifecycleAssumption
<1> DEFINE best == CHOOSE i \in Resumable : \A j \in Resumable : Keeps(i, j)
<1>8. best \in Resumable /\ \A j \in Resumable : Keeps(best, j)
  BY <1>5, <1>6
<1> QED BY <1>5, <1>7, <1>8

\* Controller::new resumes the newest incident, or nothing that could return.
LEMMA RestartKeeps ==
    ASSUME LifecycleAssumption, IInv, Restart
    PROVE  IInv'
<1>1. /\ up' = TRUE /\ held = Nothing
      /\ UNCHANGED <<now, events, table, opened, reset_at, crashes, resets>>
  BY DEF Restart, IInv, SoundHeld
<1>2. /\ now \in Nat /\ reset_at \in Nat /\ Window \in Nat /\ opened \in Nat /\ MaxId \in Nat
      /\ opened <= MaxId /\ \A i \in Id : table[i] \in Row
      /\ \A i \in 1..opened : i \in Id
  BY SMTT(60) DEF IInv, ITypeOK, LifecycleAssumption, Id
<1>3. CASE Resumable = {}
  <2>1. UNCHANGED <<held, candidates>>
    BY <1>3 DEF Restart
  <2>2. \A i \in 1..opened : Over(i, now)'
    <3> SUFFICES ASSUME NEW i \in 1..opened PROVE Over(i, now)'
      OBVIOUS
    <3>1. i \in Id /\ SoundRow(i) /\ table[i] \in Row /\ i \notin Resumable
      BY <1>2, <1>3 DEF IInv
    <3>2. ~Active(table[i])
      BY <3>1 DEF Resumable, SoundRow
    <3>3. table[i].status = "Resolved" /\ table[i].started >= reset_at
          => table[i].ended + Window <= now
      BY SMT, <1>2, <3>1 DEF Resumable, Row, LifecycleAssumption
    <3> QED BY <1>1, <3>2, <3>3 DEF Over
  <2>3. SoundHeld'
    BY <1>1, <2>1, <2>2 DEF SoundHeld, Nothing
  <2>4. ITypeOK'
    BY <1>1, <2>1 DEF IInv, ITypeOK
  <2> QED BY <1>1, <2>1, <2>3, <2>4 DEF IInv, SoundRow, Over
<1>4. CASE Resumable # {}
  <2>1. /\ opened \in Resumable /\ held' = [id |-> opened, row |-> table[opened]]
        /\ candidates' = IF Active(table[opened]) THEN CandidatesAfter(opened, table[opened])
                                                  ELSE candidates
    BY <1>4, SeedKeepsNewest DEF Restart
  <2>2. /\ opened \in Id /\ table[opened] \in Row /\ table[opened].started >= reset_at
        /\ table[opened].status \in {"Open", "Recovering", "Resolved"} /\ opened # 0
    BY SMTT(60), <1>2, <2>1 DEF Resumable, Active, Id
  <2>3. candidates' \subseteq NotificationsFor(opened, table[opened])
    <3>1. table[opened].started <= table[opened].started
      BY SMT, <2>2 DEF Row, LifecycleAssumption
    <3> QED BY <2>1, <2>2, <3>1, CommitReplaces DEF IInv
  <2>4. candidates' \subseteq Notification
    BY <2>2, <2>3, NotesType
  <2>5. ITypeOK'
    BY <1>1, <1>2, <2>1, <2>2, <2>4 DEF IInv, ITypeOK
  <2>6. SoundHeld'
    BY <1>1, <2>1, <2>2 DEF SoundHeld
  <2> QED BY <1>1, <2>2, <2>3, <2>5, <2>6 DEF IInv, SoundRow, Over
<1> QED BY <1>3, <1>4

\* reset_state closes whatever is active.
LEMMA ResetKeeps ==
    ASSUME LifecycleAssumption, IInv, ResetState
    PROVE  IInv'
<1>1. /\ ~up /\ held = Nothing /\ candidates' = {} /\ reset_at' = now /\ resets' \in 0..MaxReset
      /\ UNCHANGED <<now, up, events, opened, held, crashes>>
  <2>1. /\ ~up /\ candidates' = {} /\ reset_at' = now /\ resets < MaxReset /\ resets' = resets + 1
        /\ UNCHANGED <<now, up, events, opened, held, crashes>>
    BY DEF ResetState
  <2>2. resets' \in 0..MaxReset
    BY SMT, <2>1 DEF IInv, ITypeOK, LifecycleAssumption
  <2> QED BY <2>1, <2>2 DEF IInv, SoundHeld
<1>2. /\ now \in Nat /\ now \in 0..MaxTime /\ opened \in Nat /\ MaxId \in Nat /\ opened <= MaxId
      /\ reset_at \in Nat /\ reset_at <= now /\ Window \in Nat
      /\ table \in [Id -> Row] /\ \A i \in 1..opened : i \in Id
  BY SMTT(60) DEF IInv, ITypeOK, LifecycleAssumption, Id
<1>3. ASSUME NEW i \in Id
      PROVE  /\ table'[i] \in Row
             /\ table'[i].started = table[i].started /\ table'[i].opening = table[i].opening
             /\ table'[i].recovered = table[i].recovered
             /\ Active(table[i]) => table'[i].status = "Reset"
             /\ ~Active(table[i]) => table'[i] = table[i]
  <2>1. table'[i] = IF Active(table[i]) THEN [table[i] EXCEPT !.status = "Reset", !.ended = now]
                                        ELSE table[i]
    BY DEF ResetState
  <2>2. table[i] \in Row
    BY <1>2
  <2>3. CASE Active(table[i])
    BY ZenonT(60), <1>2, <2>1, <2>2, <2>3 DEF Row
  <2>4. CASE ~Active(table[i])
    BY <2>1, <2>2, <2>4
  <2> QED BY <2>3, <2>4
<1>4. \A i \in Id : ~Active(table'[i])
  BY <1>3 DEF Active
<1>5. table' \in [Id -> Row]
  <2>1. table' = [i \in Id |-> table'[i]]
    BY DEF ResetState
  <2> QED BY <1>3, <2>1
<1>6. ITypeOK'
  BY <1>1, <1>2, <1>5 DEF IInv, ITypeOK
<1>7. \A i \in 1..opened : SoundRow(i)'
  <2> SUFFICES ASSUME NEW i \in 1..opened PROVE SoundRow(i)'
    OBVIOUS
  <2>1. i \in Id /\ SoundRow(i) /\ table[i] \in Row
    BY <1>2 DEF IInv
  <2>2. CASE Active(table[i])
    BY <1>1, <1>3, <1>4, <2>1, <2>2 DEF SoundRow
  <2>3. CASE ~Active(table[i])
    BY <1>1, <1>2, <1>3, <1>4, <2>1, <2>3 DEF SoundRow, Row, LifecycleAssumption
  <2> QED BY <2>2, <2>3
<1>8. \A i \in 1..opened : i # opened => Over(i, table[opened].started)'
  <2> SUFFICES ASSUME NEW i \in 1..opened, i # opened PROVE Over(i, table[opened].started)'
    OBVIOUS
  <2>1. /\ i \in Id /\ opened \in Id /\ table[i] \in Row
        /\ Over(i, table[opened].started)
    BY SMT, <1>2 DEF IInv, Id
  <2>2. table'[i] = table[i] /\ table'[opened].started = table[opened].started
    BY <1>3, <2>1 DEF Over
  <2> QED BY SMT, <1>1, <1>2, <2>1, <2>2 DEF Over, Row, LifecycleAssumption
<1>9. \A i \in Id : i > opened => table'[i] = NoRow
  BY SMTT(60), <1>3 DEF IInv, Active, NoRow
<1>10. SoundHeld'
  BY <1>1 DEF SoundHeld, Nothing
<1> QED BY SMTT(60), <1>1, <1>2, <1>6, <1>7, <1>8, <1>9, <1>10 DEF IInv

\* The initial state satisfies the invariant.
LEMMA InitIInv ==
    ASSUME LifecycleAssumption, IInit
    PROVE  IInv
<1>1. NoRow \in Row /\ 0 \in 0..MaxId
  BY SMT DEF NoRow, Row, Event, LifecycleAssumption
<1>2. ITypeOK
  BY SMT, <1>1 DEF IInit, ITypeOK, Nothing, Event, LifecycleAssumption
<1> QED BY SMT, <1>2 DEF IInit, IInv, SoundHeld, Nothing

IStep == DiagnosisPass \/ Tick \/ Crash \/ Restart \/ ResetState

\* Every step of the incidents' side, and every stuttering one, keeps it.
LEMMA StepIInv ==
    ASSUME LifecycleAssumption, IInv, IStep \/ UNCHANGED ivars
    PROVE  IInv'
<1>1. CASE DiagnosisPass
  BY <1>1, OpenKeeps, RefreshKeeps, RecoverKeeps DEF DiagnosisPass
<1>2. CASE UNCHANGED ivars
  BY <1>2 DEF ivars, IInv, ITypeOK, SoundRow, Over, SoundHeld
<1> QED BY <1>1, <1>2, TickKeeps, CrashKeeps, RestartKeeps, ResetKeeps DEF IStep

\* A step of the whole system is a step of the incidents' side or leaves it.
LEMMA StepProjects ==
    ASSUME [NNext]_nvars
    PROVE  IStep \/ UNCHANGED ivars
BY DEF NNext, nvars, Beside, Stop, WorkerStep, Handle, PassFails, Begin, EndPass, Retain,
       Consider, Recheck, SendOk, SendFails, Record, StartMaintenance, EndMaintenance, IStep

\* The invariant of the incidents' side holds in the whole system.
THEOREM LifecycleInvariant == NSpec => []IInv
<1>1. NInit => IInv
  BY LifecycleAssumption, InitIInv DEF NInit
<1>2. IInv /\ [NNext]_nvars => IInv'
  BY LifecycleAssumption, StepIInv, StepProjects
<1> QED BY <1>1, <1>2, PTL DEF NSpec

\* At most one stored incident of a cause is active, and a running engine holds
\* it: for any number of crashes, restarts and resets.
THEOREM OneActiveHolds == NSpec => []OneActive
<1>1. IInv => OneActive
  <2> SUFFICES ASSUME IInv PROVE OneActive
    OBVIOUS
  <2>1. ASSUME NEW i \in Id, Active(table[i]) PROVE i = opened
    <3>1. opened \in Nat /\ MaxId \in Nat
      BY SMTT(60), LifecycleAssumption DEF IInv, ITypeOK, LifecycleAssumption
    <3>2. ~(i > opened)
      BY SMT, <2>1 DEF IInv, NoRow, Active
    <3> QED BY SMT, <2>1, <3>1, <3>2 DEF IInv, Over, Id
  <2>2. ASSUME up, NEW i \in Id, Active(table[i]) PROVE held = [id |-> i, row |-> table[i]]
    <3>1. i = opened /\ i \in 1..opened
      BY SMTT(60), <2>1, <2>2, LifecycleAssumption DEF Id, LifecycleAssumption
    <3>2. held.id # 0
      BY <2>2, <3>1 DEF IInv, SoundHeld, Over
    <3>3. held \in [id : 0..MaxId, row : Row] /\ held.id = i /\ held.row = table[i]
      BY <3>1, <3>2 DEF IInv, SoundHeld, ITypeOK
    <3> QED BY <3>3
  <2> QED BY <2>1, <2>2 DEF OneActive
<1> QED BY <1>1, LifecycleInvariant, PTL

\* A fault that returns within the window, with no reset in between, never gets
\* a new incident, whether or not the controller restarted.
THEOREM ReturnIsReopenedHolds == NSpec => ReturnIsReopened
<1> DEFINE A == opened' # opened => \A i \in Id : ~Recent(i) /\ ~Active(table[i])
<1>1. IInv /\ [NNext]_nvars => [A]_ivars
  <2> SUFFICES ASSUME IInv, [NNext]_nvars, opened' # opened, NEW i \in Id
               PROVE  ~Recent(i) /\ ~Active(table[i])
    OBVIOUS
  <2>1. PICK s \in Severity : Open(s)
    BY StepProjects DEF IStep, DiagnosisPass, Refresh, Recover, Tick, Crash, Restart, ResetState, ivars
  <2>2. \A j \in 1..opened : Over(j, now)
    BY <2>1, LifecycleAssumption, OpenAfterAll
  <2>3. /\ now \in Nat /\ Window \in Nat /\ opened \in Nat /\ MaxId \in Nat
        /\ table[i] \in Row /\ MaxTime \in Nat
    BY SMTT(60), LifecycleAssumption DEF IInv, ITypeOK, LifecycleAssumption
  <2>4. CASE i > opened
    BY SMT, <2>4 DEF IInv, NoRow, Recent, Active
  <2>5. CASE ~(i > opened)
    <3>1. Over(i, now)
      BY SMT, <2>2, <2>3, <2>5 DEF Id
    <3> QED BY SMT, <2>3, <3>1 DEF Over, Recent, WithinWindow, Row
  <2> QED BY <2>4, <2>5
<1> QED BY <1>1, LifecycleInvariant, PTL DEF NSpec, ReturnIsReopened

\* Which row a step of the incidents' side may change.
LEMMA ChangesOnlyLive ==
    ASSUME LifecycleAssumption, IInv, IStep \/ UNCHANGED ivars,
           NEW i \in Id, table'[i] # table[i]
    PROVE  \/ table[i].status = "None" \/ Active(table[i])
           \/ table[i].status = "Resolved" /\ WithinWindow(table[i]) /\ table[i].started >= reset_at
<1>1. table \in [Id -> Row] /\ opened \in Nat
  BY SMTT(60) DEF IInv, ITypeOK, LifecycleAssumption
<1>2. ASSUME NEW s \in Severity, Open(s)
      PROVE  table[i].status = "None"
  <2>1. table' = [table EXCEPT ![opened + 1] = OpenedRow(s)]
    BY <1>2 DEF Open, Save
  <2>2. i = opened + 1
    BY <1>1, <2>1
  <2>3. table[i] = NoRow
    BY SMTT(60), <1>1, <2>2 DEF IInv
  <2> QED BY SMTT(60), <2>3 DEF NoRow
<1>3. ASSUME NEW s \in Severity, NEW c \in BOOLEAN, Refresh(s, c)
      PROVE  \/ Active(table[i])
             \/ table[i].status = "Resolved" /\ WithinWindow(table[i]) /\ table[i].started >= reset_at
  <2>1. /\ held.id # 0 /\ ~(held.row.status = "Resolved" /\ ~WithinWindow(held.row))
        /\ table' = [table EXCEPT ![held.id] = Refreshed(held.row, s, c).row]
    BY <1>3 DEF Refresh, Save
  <2>2. i = held.id
    BY <1>1, <2>1
  <2>3. /\ held.row = table[i] /\ held.row.started >= reset_at
        /\ held.row.status \in {"Open", "Recovering", "Resolved"}
    BY <2>1, <2>2 DEF IInv, SoundHeld
  <2> QED BY <2>1, <2>3 DEF Active
<1>4. ASSUME NEW root \in BOOLEAN, NEW full \in BOOLEAN, Recover(root, full)
      PROVE  Active(table[i])
  <2>1. /\ Active(held.row)
        /\ table' = [table EXCEPT ![held.id] = Undiagnosed(held.row, root, full)]
    BY <1>4 DEF Recover, Save
  <2>2. i = held.id
    BY <1>1, <2>1
  <2>3. held.id # 0
    BY SMT, <2>1 DEF IInv, SoundHeld, Nothing, NoRow, Active
  <2> QED BY <2>1, <2>2, <2>3 DEF IInv, SoundHeld
<1>5. ASSUME ResetState PROVE Active(table[i])
  BY <1>5 DEF ResetState
<1> QED BY <1>2, <1>3, <1>4, <1>5 DEF IStep, DiagnosisPass, Tick, Crash, Restart, ivars

\* Start times are times.
LEMMA StartedIsNat ==
    ASSUME LifecycleAssumption, NEW T \in [Id -> Row], NEW t \in 0..MaxTime, NEW i \in Id
    PROVE  T[i].started \in Nat /\ t \in Nat
BY SMT DEF Row, LifecycleAssumption

\* An incident that was reset, or resolved longer ago than the window, is never
\* touched again.
THEOREM ClosedStaysClosedHolds == NSpec => ClosedStaysClosed
<1> DEFINE Closed(i) ==
      \/ table[i].status = "Reset"
      \/ table[i].status = "Resolved" /\ (~WithinWindow(table[i]) \/ table[i].started < reset_at)
<1>1. IInv /\ [NNext]_nvars => [\A i \in Id : Closed(i) => table'[i] = table[i]]_ivars
  <2> SUFFICES ASSUME IInv, [NNext]_nvars, NEW i \in Id, Closed(i), table'[i] # table[i]
               PROVE  FALSE
    OBVIOUS
  <2>1. table[i].started \in Nat /\ reset_at \in Nat
    <3>1. table \in [Id -> Row] /\ reset_at \in 0..MaxTime
      BY DEF IInv, ITypeOK
    <3> QED BY <3>1, LifecycleAssumption, StartedIsNat
  <2>2. \/ table[i].status = "None" \/ Active(table[i])
        \/ table[i].status = "Resolved" /\ WithinWindow(table[i]) /\ table[i].started >= reset_at
    BY LifecycleAssumption, StepProjects, ChangesOnlyLive
  <2> QED BY SMTT(60), <2>1, <2>2 DEF Active
<1> QED BY <1>1, LifecycleInvariant, PTL DEF NSpec, ClosedStaysClosed

-----------------------------------------------------------------------------
(* The worker's side.                                                      *)

\* Steps of the incidents' side never take back the newest opening.
LEMMA OpeningGrows ==
    ASSUME LifecycleAssumption, IInv, IStep \/ UNCHANGED ivars, opened # 0
    PROVE  opened' # 0 /\ table'[opened'].opening >= table[opened].opening
<1>1. /\ table \in [Id -> Row] /\ opened \in Id /\ SoundRow(opened) /\ opened \in Nat
      /\ table[opened] \in Row /\ table[opened].opening \in Nat /\ events \in Nat
      /\ table[opened].opening <= events
  <2>1. table \in [Id -> Row] /\ opened \in Id /\ opened \in Nat /\ events \in Nat /\ opened \in 1..opened
    BY SMT DEF IInv, ITypeOK, Id, Event, LifecycleAssumption
  <2>2. SoundRow(opened) /\ table[opened] \in Row
    BY <2>1 DEF IInv
  <2> QED BY SMTT(60), <2>1, <2>2 DEF SoundRow, Row, Event, LifecycleAssumption
<1>2. ASSUME NEW s \in Severity, Open(s)
      PROVE  opened' # 0 /\ table'[opened'].opening >= table[opened].opening
  <2>1. /\ opened' = opened + 1 /\ opened + 1 \in Id
        /\ table' = [table EXCEPT ![opened + 1] = OpenedRow(s)]
    BY SMTT(60), <1>1, <1>2 DEF Open, Save, Id, IInv, ITypeOK, LifecycleAssumption
  <2>2. OpenedRow(s).opening = events + 1
    BY <1>2, OpenedRowIs DEF Open, IInv
  <2> QED BY SMTT(60), <1>1, <2>1, <2>2
<1>3. ASSUME NEW s \in Severity, NEW c \in BOOLEAN, Refresh(s, c)
      PROVE  opened' # 0 /\ table'[opened'].opening >= table[opened].opening
  <2>1. /\ opened' = opened /\ held.id = opened /\ held.row = table[opened]
        /\ table' = [table EXCEPT ![opened] = Refreshed(table[opened], s, c).row]
        /\ Refreshed(table[opened], s, c).events <= MaxEvents
    BY <1>3 DEF Refresh, Save, IInv, SoundHeld
  <2>2. Refreshed(table[opened], s, c).row.opening >= table[opened].opening
    BY <1>1, <2>1, RefreshedIs DEF IInv
  <2> QED BY <1>1, <2>1, <2>2
<1>4. ASSUME NEW root \in BOOLEAN, NEW full \in BOOLEAN, Recover(root, full)
      PROVE  opened' # 0 /\ table'[opened'].opening >= table[opened].opening
  <2>1. held.id # 0
    BY SMT, <1>4 DEF Recover, IInv, SoundHeld, Nothing, NoRow, Active
  <2>2. /\ opened' = opened /\ held.id = opened /\ held.row = table[opened]
        /\ Active(table[opened]) /\ events < MaxEvents
        /\ table' = [table EXCEPT ![opened] = Undiagnosed(table[opened], root, full)]
    BY <1>4, <2>1 DEF Recover, Save, IInv, SoundHeld
  <2>3. Undiagnosed(table[opened], root, full).opening >= table[opened].opening
    BY <1>1, <2>2, UndiagnosedIs DEF IInv, SoundRow
  <2> QED BY <1>1, <2>2, <2>3
<1>5. ASSUME ResetState
      PROVE  opened' # 0 /\ table'[opened'].opening >= table[opened].opening
  <2>1. /\ opened' = opened
        /\ table'[opened] = IF Active(table[opened])
                            THEN [table[opened] EXCEPT !.status = "Reset", !.ended = now]
                            ELSE table[opened]
    BY <1>1, <1>5 DEF ResetState
  <2>2. table'[opened].opening = table[opened].opening
    BY <1>1, <2>1 DEF Row
  <2> QED BY SMT, <1>1, <2>1, <2>2
<1>6. CASE Tick \/ Crash \/ Restart \/ UNCHANGED ivars
  BY SMTT(60), <1>1, <1>6 DEF Tick, Crash, Restart, ivars
<1> QED BY <1>2, <1>3, <1>4, <1>5, <1>6 DEF IStep, DiagnosisPass

\* So what was past stays past.
LEMMA PastStays ==
    ASSUME LifecycleAssumption, IInv, IInv', IStep \/ UNCHANGED ivars, NEW k, k.event \in Nat, Past(k)
    PROVE  Past(k)'
<1> SUFFICES ASSUME k.trigger = "Opened" PROVE opened' # 0 /\ k.event <= table'[opened'].opening
  BY DEF Past
<1>1. opened # 0 /\ k.event <= table[opened].opening
  BY DEF Past
<1>2. opened' # 0 /\ table'[opened'].opening >= table[opened].opening
  BY <1>1, OpeningGrows
<1>3. table[opened].opening \in Nat
  <2>1. table \in [Id -> Row] /\ opened \in Id
    BY SMTT(60), <1>1 DEF IInv, ITypeOK, Id, LifecycleAssumption
  <2> QED BY SMTT(60), <2>1 DEF Row, Event, LifecycleAssumption
<1>4. table'[opened'].opening \in Nat
  <2>1. table' \in [Id -> Row] /\ opened' \in Id
    BY SMT, <1>2 DEF IInv, ITypeOK, Id, LifecycleAssumption
  <2> QED BY SMTT(60), <2>1 DEF Row, Event, LifecycleAssumption
<1> QED BY SMT, <1>1, <1>2, <1>3, <1>4

\* What a provider has heard once a message reaches it.
LEMMA HearAppends ==
    ASSUME NEW m \in Item, inbox \in [Provider -> Seq(Keys)], Hear(m)
    PROVE  /\ inbox' \in [Provider -> Seq(Keys)]
           /\ \A p \in Provider : p # m.to => inbox'[p] = inbox[p]
           /\ Len(inbox[m.to]) \in Nat
           /\ Len(inbox'[m.to]) = Len(inbox[m.to]) + 1
           /\ \A i \in 1..Len(inbox[m.to]) : inbox'[m.to][i] = inbox[m.to][i]
           /\ inbox'[m.to][Len(inbox[m.to]) + 1] = Key(m.note)
<1>1. m.to \in Provider /\ Key(m.note) \in Keys
  BY DEF Item, Notification, Key, Keys
<1>2. inbox' = [inbox EXCEPT ![m.to] = Append(inbox[m.to], Key(m.note))]
  BY DEF Hear
<1>3. inbox[m.to] \in Seq(Keys)
  BY <1>1
<1>4. inbox'[m.to] = Append(inbox[m.to], Key(m.note))
  BY <1>1, <1>2
<1>5. Append(inbox[m.to], Key(m.note)) \in Seq(Keys)
  BY SMT, <1>1, <1>3
<1> QED BY SMT, <1>1, <1>2, <1>3, <1>4, <1>5

\* What a provider heard is about an event.
LEMMA HeardEvent ==
    ASSUME LifecycleAssumption, NEW s \in Seq(Keys), NEW i \in 1..Len(s)
    PROVE  s[i] \in Keys /\ s[i].event \in Nat
<1>1. s[i] \in Keys
  BY SMT
<1> QED BY SMT, <1>1 DEF Keys, Event, LifecycleAssumption

\* What diagnosis passes, the clock, restarts, resets and windows do beside the
\* worker keeps the invariant.
LEMMA BesideKeeps ==
    ASSUME LifecycleAssumption, NInv, IStep \/ UNCHANGED ivars,
           UNCHANGED <<wvars, records, inbox, blind>>,
           maintained' \in BOOLEAN, faults' \in 0..MaxFaults
    PROVE  NInv'
<1>1. IInv' /\ IInv
  BY StepIInv DEF NInv
<1>2. UNCHANGED <<worker, quiet, queue, current, sent, records, inbox, blind>>
  BY DEF wvars
<1>3. NTypeOK'
  BY <1>1, <1>2 DEF NInv, NTypeOK, IInv
<1>4. \A m \in current : m.note.event \in Nat /\ m.note.trigger \in Trigger
  BY SMTT(60) DEF NInv, NTypeOK, Item, Notification, Event, LifecycleAssumption
<1>5. worker = "sending" => \A m \in current : Past(m.note)'
  BY <1>1, <1>4, PastStays DEF NInv, SoundWorker
<1>6. SoundWorker'
  BY <1>2, <1>5 DEF NInv, SoundWorker, DeliveryOf, Key, IsRecovery, Past
<1>7. AllPast'
  <2> SUFFICES ASSUME NEW p \in Provider, NEW i \in 1..Len(inbox[p]) PROVE Past(inbox[p][i])'
    BY <1>2 DEF AllPast
  <2>1. inbox[p] \in Seq(Keys)
    BY DEF NInv, NTypeOK
  <2>2. inbox[p][i].event \in Nat
    BY <2>1, HeardEvent
  <2>3. Past(inbox[p][i])
    BY DEF NInv, AllPast
  <2>4. opened # 0 => opened' # 0 /\ table'[opened'].opening >= table[opened].opening
    BY <1>1, OpeningGrows
  <2> DEFINE k == inbox[p][i]
  <2>5. k' = k
    BY <1>2
  <2> SUFFICES ASSUME k.trigger = "Opened"
               PROVE  opened' # 0 /\ k.event <= table'[opened'].opening
    BY <2>5 DEF Past
  <2>6. opened # 0 /\ k.event <= table[opened].opening
    BY <2>3 DEF Past
  <2>7. table[opened].opening \in Nat
    <3>1. table \in [Id -> Row] /\ opened \in Id
      BY SMTT(60), <1>1, <2>6 DEF IInv, ITypeOK, Id, LifecycleAssumption
    <3> QED BY SMTT(60), <3>1 DEF Row, Event, LifecycleAssumption
  <2>8. table'[opened'].opening \in Nat
    <3>1. table' \in [Id -> Row] /\ opened' \in Id
      BY SMT, <1>1, <2>4, <2>6 DEF IInv, ITypeOK, Id, LifecycleAssumption
    <3> QED BY SMTT(60), <3>1 DEF Row, Event, LifecycleAssumption
  <2> QED BY SMTT(60), <2>2, <2>4, <2>6, <2>7, <2>8
<1>8. Accounted' /\ RecoveryNotAfterReturn' /\ NoRepeatedAlert'
  <2>1. Accounted'
    BY ZenonT(60), <1>2 DEF NInv, Accounted
  <2>2. RecoveryNotAfterReturn'
    BY <1>2 DEF NInv, RecoveryNotAfterReturn, IsRecovery
  <2>3. NoRepeatedAlert'
    BY <1>2 DEF NInv, NoRepeatedAlert
  <2> QED BY <2>1, <2>2, <2>3
<1> QED BY <1>1, <1>3, <1>6, <1>7, <1>8 DEF NInv

\* A message that reaches its provider keeps the order of openings and
\* recoveries, and repeats only what the worker may not know of.
LEMMA HearKeeps ==
    ASSUME LifecycleAssumption, NInv, worker = "sending", NEW m \in Item, current = {m},
           Hear(m), UNCHANGED ivars, blind \subseteq blind'
    PROVE  AllPast' /\ RecoveryNotAfterReturn' /\ NoRepeatedAlert'
<1> DEFINE p == m.to
           last == Len(inbox[p]) + 1
           d == DeliveryOf(m)
<1>1. /\ inbox' \in [Provider -> Seq(Keys)]
      /\ \A q \in Provider : q # p => inbox'[q] = inbox[q]
      /\ Len(inbox[p]) \in Nat /\ Len(inbox'[p]) = last
      /\ \A i \in 1..Len(inbox[p]) : inbox'[p][i] = inbox[p][i]
      /\ inbox'[p][last] = Key(m.note)
  BY HearAppends DEF NInv, NTypeOK
<1>2. p \in Provider /\ Key(m.note).trigger = m.note.trigger /\ Key(m.note).event = m.note.event
  BY DEF Item, Key
<1>3. \A i \in 1..last : i \in 1..Len(inbox[p]) \/ i = last
  BY SMTT(60), <1>1
<1>4. AllPast'
  <2>1. Past(m.note) /\ opened' = opened /\ table' = table
    BY DEF NInv, SoundWorker, ivars
  <2>2. \A i \in 1..Len(inbox'[p]) :
           inbox'[p][i].trigger = "Opened" => opened # 0 /\ inbox'[p][i].event <= table[opened].opening
    BY <1>1, <1>2, <1>3, <2>1 DEF NInv, AllPast, Past
  <2>3. \A q \in Provider : \A i \in 1..Len(inbox'[q]) :
           inbox'[q][i].trigger = "Opened" => opened # 0 /\ inbox'[q][i].event <= table[opened].opening
    BY <1>1, <2>2 DEF NInv, AllPast, Past
  <2> QED BY <2>1, <2>3 DEF AllPast, Past
<1>5. RecoveryNotAfterReturn'
  <2> SUFFICES ASSUME NEW q \in Provider, NEW i \in 1..Len(inbox'[q]), NEW j \in 1..Len(inbox'[q]),
                      i < j, inbox'[q][i].trigger = "Opened", IsRecovery(inbox'[q][j])
               PROVE  inbox'[q][i].event < inbox'[q][j].event
    BY DEF RecoveryNotAfterReturn, IsRecovery
  <2>1. CASE q # p
    BY <1>1, <2>1 DEF NInv, RecoveryNotAfterReturn
  <2>2. CASE q = p /\ j = last
    <3>1. i \in 1..Len(inbox[p]) /\ IsRecovery(m.note)
      BY SMTT(60), <1>1, <1>2, <2>2 DEF IsRecovery
    <3>2. inbox[p][i].trigger = "Opened" => inbox[p][i].event < m.note.event
      BY <3>1 DEF NInv, SoundWorker
    <3> QED BY <1>1, <1>2, <2>2, <3>1, <3>2
  <2>3. CASE q = p /\ j # last
    <3>1. i \in 1..Len(inbox[p]) /\ j \in 1..Len(inbox[p])
      BY SMTT(60), <1>1, <2>3
    <3> QED BY <1>1, <2>3, <3>1 DEF NInv, RecoveryNotAfterReturn
  <2> QED BY <2>1, <2>2, <2>3
<1>6. NoRepeatedAlert'
  <2> SUFFICES ASSUME NEW q \in Provider, NEW i \in 1..Len(inbox'[q]), NEW j \in 1..Len(inbox'[q]),
                      i < j, inbox'[q][i] = inbox'[q][j]
               PROVE  [key |-> inbox'[q][i], to |-> q] \in blind
    BY DEF NoRepeatedAlert
  <2>1. CASE q # p
    BY <1>1, <2>1 DEF NInv, NoRepeatedAlert
  <2>2. CASE q = p /\ j = last
    <3>1. i \in 1..Len(inbox[p]) /\ inbox[p][i] = Key(m.note)
      BY SMT, <1>1, <2>2
    <3>2. d = [key |-> inbox[p][i], to |-> p] /\ d \notin sent
      BY <3>1 DEF DeliveryOf, NInv, SoundWorker
    <3>3. d \in blind \/ d \in records
      BY <1>2, <3>1, <3>2 DEF NInv, Accounted
    <3>4. d \in blind
      BY <3>2, <3>3 DEF NInv, SoundWorker
    <3> QED BY <1>1, <2>2, <3>1, <3>2, <3>4
  <2>3. CASE q = p /\ j # last
    <3>1. i \in 1..Len(inbox[p]) /\ j \in 1..Len(inbox[p])
      BY SMTT(60), <1>1, <2>3
    <3> QED BY <1>1, <2>3, <3>1 DEF NInv, NoRepeatedAlert
  <2> QED BY <2>1, <2>2, <2>3
<1> QED BY <1>4, <1>5, <1>6

\* A step in which no provider hears anything and no incident changes.
LEMMA SilentKeeps ==
    ASSUME LifecycleAssumption, NInv, UNCHANGED <<ivars, inbox>>, blind \subseteq blind',
           NTypeOK', SoundWorker', Accounted'
    PROVE  NInv'
<1>1. IInv'
  BY StepIInv DEF NInv
<1>2. AllPast'
  BY DEF NInv, AllPast, Past, ivars
<1>3. RecoveryNotAfterReturn' /\ NoRepeatedAlert'
  BY DEF NInv, RecoveryNotAfterReturn, NoRepeatedAlert, IsRecovery
<1> QED BY <1>1, <1>2, <1>3 DEF NInv

\* The type invariant survives a step that leaves the incidents alone.
LEMMA TypeFrame ==
    ASSUME LifecycleAssumption, NInv, UNCHANGED ivars,
           worker' \in {"idle", "pass", "spacing", "sending", "recording", "retaining"},
           quiet' \in BOOLEAN, queue' \subseteq Item, current' \subseteq Item,
           sent' \subseteq Delivery, records' \subseteq Delivery, blind' \subseteq Delivery,
           UNCHANGED maintained, faults' \in 0..MaxFaults,
           inbox' \in [Provider -> Seq(Keys)]
    PROVE  NTypeOK'
<1>1. ITypeOK'
  BY StepIInv DEF NInv, IInv
<1> QED BY <1>1 DEF NInv, NTypeOK

\* A worker that holds no message has accounted for every delivery.
LEMMA AccountedFrame ==
    ASSUME NInv, worker # "recording", UNCHANGED inbox,
           blind \subseteq blind', records \subseteq records'
    PROVE  Accounted'
BY DEF NInv, Accounted

\* Starting a pass keeps the invariant.
LEMMA BeginKeeps ==
    ASSUME LifecycleAssumption, NotifierAssumption, NInv, Begin
    PROVE  NInv'
<1>1. /\ worker = "idle" /\ worker' = "pass" /\ current = {}
      /\ UNCHANGED <<ivars, current, records, maintained, inbox>>
      /\ queue' = [note : candidates, to : Provider] /\ quiet' \in {maintained, FALSE}
  BY DEF Begin, NInv, SoundWorker
<1>2. /\ sent' \subseteq sent \cup records /\ blind \subseteq blind'
      /\ blind' \subseteq blind \cup records /\ records \subseteq sent' \cup blind'
  BY DEF Begin
<1>3. faults' \in 0..MaxFaults
  BY SMT DEF Begin, NInv, NTypeOK, NotifierAssumption
<1>4. queue' \subseteq Item
  BY <1>1 DEF NInv, NTypeOK, ITypeOK, Item
<1>5. NTypeOK'
  BY <1>1, <1>2, <1>3, <1>4, TypeFrame DEF NInv, NTypeOK
<1>6. SoundWorker'
  BY <1>1, <1>2 DEF SoundWorker
<1>7. Accounted'
  BY <1>1, <1>2, AccountedFrame
<1> QED BY <1>1, <1>2, <1>5, <1>6, <1>7, SilentKeeps

\* Looking at the next message keeps the invariant.
LEMMA ConsiderKeeps ==
    ASSUME LifecycleAssumption, NInv, NEW m \in queue, Consider(m)
    PROVE  NInv'
<1>1. /\ worker = "pass" /\ queue' \subseteq queue /\ m \in Item
      /\ UNCHANGED <<ivars, quiet, sent, records, maintained, faults, inbox, blind>>
      /\ current = {} /\ records \subseteq sent \cup blind
  BY DEF Consider, NInv, NTypeOK, SoundWorker
<1>2. \/ worker' = "pass" /\ current' = {}
      \/ worker' = "spacing" /\ current' = {m} /\ DeliveryOf(m) \notin sent
  BY <1>1 DEF Consider, Skipped
<1>3. NTypeOK'
  BY <1>1, <1>2, TypeFrame DEF NInv, NTypeOK
<1>4. SoundWorker'
  <2>1. CASE worker' = "pass" /\ current' = {}
    BY <1>1, <2>1 DEF SoundWorker
  <2>2. CASE worker' = "spacing" /\ current' = {m} /\ DeliveryOf(m) \notin sent
    BY <1>1, <2>2 DEF SoundWorker
  <2> QED BY <1>2, <2>1, <2>2
<1>5. Accounted'
  BY <1>1, AccountedFrame
<1> QED BY <1>1, <1>3, <1>4, <1>5, SilentKeeps

\* A recovery that is current is later than every opening told.
LEMMA RecheckKeeps ==
    ASSUME LifecycleAssumption, NotifierAssumption, NInv, NEW m \in current, Recheck(m)
    PROVE  NInv'
<1>1. /\ worker = "spacing" /\ current = {m} /\ m \in Item
      /\ UNCHANGED <<ivars, quiet, queue, sent, records, maintained, inbox, blind>>
      /\ records \subseteq sent \cup blind /\ DeliveryOf(m) \notin sent
  BY DEF Recheck, NInv, NTypeOK, SoundWorker
<1>2. \/ worker' = "pass" /\ current' = {}
      \/ worker' = "sending" /\ current' = {m} /\ IsCurrent(Key(m.note))
  BY <1>1 DEF Recheck
<1>3. faults' \in 0..MaxFaults
  BY SMTT(60) DEF Recheck, NInv, NTypeOK, NotifierAssumption
<1>4. NTypeOK'
  BY <1>1, <1>2, <1>3, TypeFrame DEF NInv, NTypeOK
<1>5. ASSUME IsCurrent(Key(m.note))
      PROVE  /\ Past(m.note)
             /\ IsRecovery(m.note) =>
                  \A i \in 1..Len(inbox[m.to]) :
                     inbox[m.to][i].trigger = "Opened" => inbox[m.to][i].event < m.note.event
  <2>1. PICK n \in candidates : Key(n) = Key(m.note)
    BY <1>5 DEF IsCurrent
  <2>2. n.trigger = m.note.trigger /\ n.event = m.note.event
    BY <2>1 DEF Key
  <2>3. opened # 0 /\ n \in NotificationsFor(opened, table[opened])
    BY <2>1 DEF NInv, IInv
  <2>4. opened \in Id /\ table[opened] \in Row /\ opened \in 1..opened
    BY SMT, <2>3 DEF NInv, IInv, ITypeOK, Id, LifecycleAssumption
  <2>5. SoundRow(opened)
    BY <2>4 DEF NInv, IInv
  <2>6. /\ n.trigger = "Opened" => n.event = table[opened].opening
        /\ IsRecovery(n) => /\ table[opened].status \in {"Recovering", "Resolved"}
                            /\ n.event = table[opened].recovered
    BY <2>3, <2>4, NotesMeaning
  <2>7. table[opened].opening \in Nat /\ table[opened].recovered \in Nat
    BY SMTT(60), <2>4 DEF Row, Event, LifecycleAssumption
  <2>8. Past(m.note)
    BY SMTT(60), <2>2, <2>3, <2>6, <2>7 DEF Past
  <2>9. ASSUME IsRecovery(m.note), NEW i \in 1..Len(inbox[m.to]), inbox[m.to][i].trigger = "Opened"
        PROVE  inbox[m.to][i].event < m.note.event
    <3>1. m.to \in Provider /\ inbox[m.to] \in Seq(Keys)
      BY <1>1 DEF NInv, NTypeOK, Item
    <3>2. inbox[m.to][i] \in Keys
      BY SMTT(60), <3>1
    <3>3. inbox[m.to][i].event \in Nat
      BY SMT, <3>2 DEF Keys, Event, LifecycleAssumption
    <3>4. inbox[m.to][i].event <= table[opened].opening
      BY <2>9, <3>1 DEF NInv, AllPast, Past
    <3>5. table[opened].opening < m.note.event /\ m.note.event \in Nat
      BY <2>2, <2>5, <2>6, <2>7, <2>9 DEF SoundRow, IsRecovery
    <3> QED BY SMTT(60), <2>7, <3>3, <3>4, <3>5
  <2> QED BY <2>8, <2>9
<1>6. SoundWorker'
  <2>1. CASE worker' = "pass" /\ current' = {}
    BY <1>1, <2>1 DEF SoundWorker
  <2>2. CASE worker' = "sending" /\ current' = {m} /\ IsCurrent(Key(m.note))
    <3>1. opened' = opened /\ table' = table
      BY <1>1 DEF ivars
    <3> QED BY <1>1, <1>5, <2>2, <3>1 DEF SoundWorker, Past
  <2> QED BY <1>2, <2>1, <2>2
<1>7. Accounted'
  BY <1>1, AccountedFrame
<1> QED BY <1>1, <1>4, <1>6, <1>7, SilentKeeps

\* A delivery is the same record however it is written.
LEMMA DeliveryType ==
    ASSUME NEW m \in Item
    PROVE  DeliveryOf(m) \in Delivery /\ m.to \in Provider
           /\ DeliveryOf(m) = [key |-> Key(m.note), to |-> m.to]
BY DEF Item, Notification, DeliveryOf, Key, Delivery, Keys

\* A message that is heard keeps the account if it ends up blind, recorded or
\* about to be.
LEMMA HearAccounted ==
    ASSUME NInv, worker = "sending", NEW m \in Item, Hear(m),
           blind \subseteq blind', records' = records,
           \/ DeliveryOf(m) \in blind'
           \/ worker' = "recording" /\ current' = {m}
    PROVE  Accounted'
<1>1. /\ \A q \in Provider : q # m.to => inbox'[q] = inbox[q]
      /\ Len(inbox[m.to]) \in Nat /\ Len(inbox'[m.to]) = Len(inbox[m.to]) + 1
      /\ \A i \in 1..Len(inbox[m.to]) : inbox'[m.to][i] = inbox[m.to][i]
      /\ inbox'[m.to][Len(inbox[m.to]) + 1] = Key(m.note)
  BY HearAppends DEF NInv, NTypeOK
<1> SUFFICES ASSUME NEW p \in Provider, NEW i \in 1..Len(inbox'[p])
             PROVE  LET d == [key |-> inbox'[p][i], to |-> p] IN
                    \/ d \in blind' \/ d \in records'
                    \/ worker' = "recording" /\ \E n \in current' : d = DeliveryOf(n)
  BY DEF Accounted
<1>2. CASE p = m.to /\ i = Len(inbox[m.to]) + 1
  <2>1. [key |-> inbox'[p][i], to |-> p] = DeliveryOf(m)
    <3>1. inbox'[p][i] = Key(m.note) /\ p = m.to
      BY <1>1, <1>2
    <3> QED BY <3>1 DEF DeliveryOf
  <2>2. CASE DeliveryOf(m) \in blind'
    BY <2>1, <2>2
  <2>3. CASE worker' = "recording" /\ current' = {m}
    BY <2>1, <2>3
  <2> QED BY <2>2, <2>3
<1>3. CASE ~(p = m.to /\ i = Len(inbox[m.to]) + 1)
  <2>1. i \in 1..Len(inbox[p]) /\ inbox'[p][i] = inbox[p][i]
    <3>1. CASE p # m.to
      BY <1>1, <3>1
    <3>2. CASE p = m.to
      <4>1. i \in 1..(Len(inbox[m.to]) + 1) /\ i # Len(inbox[m.to]) + 1
        BY <1>1, <1>3, <3>2
      <4>2. i \in 1..Len(inbox[m.to])
        BY SMTT(60), <1>1, <4>1
      <4> QED BY <1>1, <3>2, <4>2
    <3> QED BY <3>1, <3>2
  <2>2. [key |-> inbox[p][i], to |-> p] \in blind \/ [key |-> inbox[p][i], to |-> p] \in records
    BY <2>1 DEF NInv, Accounted
  <2> QED BY <2>1, <2>2
<1> QED BY <1>2, <1>3

\* A successful call keeps the invariant.
LEMMA SendOkKeeps ==
    ASSUME LifecycleAssumption, NInv, NEW m \in current, SendOk(m)
    PROVE  NInv'
<1>1. /\ worker = "sending" /\ current = {m} /\ m \in Item /\ Hear(m)
      /\ sent' = sent \cup {DeliveryOf(m)} /\ worker' = "recording"
      /\ UNCHANGED <<ivars, quiet, queue, current, records, maintained, faults, blind>>
      /\ records \subseteq sent \cup blind
  BY DEF SendOk, NInv, NTypeOK, SoundWorker
<1>2. IInv'
  BY <1>1, StepIInv DEF NInv
<1>3. inbox' \in [Provider -> Seq(Keys)]
  BY <1>1, HearAppends DEF NInv, NTypeOK
<1>4. NTypeOK'
  BY ZenonT(60), <1>1, <1>3, TypeFrame, DeliveryType DEF NInv, NTypeOK
<1>5. SoundWorker'
  BY <1>1 DEF SoundWorker
<1>6. Accounted'
  BY <1>1, HearAccounted
<1>7. AllPast' /\ RecoveryNotAfterReturn' /\ NoRepeatedAlert'
  BY <1>1, HearKeeps
<1> QED BY <1>2, <1>4, <1>5, <1>6, <1>7 DEF NInv

\* So does a call that fails, heard or not.
LEMMA SendFailsKeeps ==
    ASSUME LifecycleAssumption, NotifierAssumption, NInv, NEW m \in current, SendFails(m)
    PROVE  NInv'
<1>1. /\ worker = "sending" /\ current = {m} /\ m \in Item
      /\ worker' = "pass" /\ current' = {}
      /\ UNCHANGED <<ivars, quiet, queue, sent, records, maintained>>
      /\ records \subseteq sent \cup blind
  BY DEF SendFails, NInv, NTypeOK, SoundWorker
<1>2. faults' \in 0..MaxFaults
  BY SMTT(60) DEF SendFails, NInv, NTypeOK, NotifierAssumption
<1>3. IInv'
  BY <1>1, StepIInv DEF NInv
<1>4. CASE UNCHANGED <<inbox, blind>>
  <2>1. NTypeOK'
    BY <1>1, <1>2, <1>4, TypeFrame DEF NInv, NTypeOK
  <2>2. SoundWorker'
    BY <1>1, <1>4 DEF SoundWorker
  <2>3. Accounted'
    BY <1>1, <1>4, AccountedFrame
  <2> QED BY <1>1, <1>4, <2>1, <2>2, <2>3, SilentKeeps
<1>5. CASE Hear(m) /\ blind' = blind \cup {DeliveryOf(m)}
  <2>1. inbox' \in [Provider -> Seq(Keys)]
    BY <1>1, <1>5, HearAppends DEF NInv, NTypeOK
  <2>2. NTypeOK'
    BY ZenonT(60), <1>1, <1>2, <1>5, <2>1, TypeFrame, DeliveryType DEF NInv, NTypeOK
  <2>3. SoundWorker'
    BY <1>1, <1>5 DEF SoundWorker
  <2>4. Accounted'
    BY <1>1, <1>5, HearAccounted
  <2>5. AllPast' /\ RecoveryNotAfterReturn' /\ NoRepeatedAlert'
    BY <1>1, <1>5, HearKeeps
  <2> QED BY <1>3, <2>2, <2>3, <2>4, <2>5 DEF NInv
<1> QED BY <1>4, <1>5 DEF SendFails

\* A delivery that was being recorded is recorded or blind afterwards.
LEMMA RecordedOrBlind ==
    ASSUME NInv, UNCHANGED inbox, blind \subseteq blind', records \subseteq records',
           worker = "recording" => \A m \in current : DeliveryOf(m) \in blind' \cup records'
    PROVE  Accounted'
<1> SUFFICES ASSUME NEW p \in Provider, NEW i \in 1..Len(inbox[p])
             PROVE  LET d == [key |-> inbox[p][i], to |-> p] IN d \in blind' \/ d \in records'
  BY DEF Accounted
<1>1. LET d == [key |-> inbox[p][i], to |-> p] IN
      \/ d \in blind \/ d \in records
      \/ worker = "recording" /\ \E m \in current : d = DeliveryOf(m)
  BY DEF NInv, Accounted
<1> QED BY <1>1

\* save_notification, whether it succeeds or not, keeps the invariant.
LEMMA RecordKeeps ==
    ASSUME LifecycleAssumption, NotifierAssumption, NInv, NEW m \in current, Record(m)
    PROVE  NInv'
<1>1. /\ worker = "recording" /\ current = {m} /\ m \in Item
      /\ worker' = "pass" /\ current' = {}
      /\ UNCHANGED <<ivars, quiet, queue, sent, maintained, inbox>>
      /\ records \subseteq sent \cup blind /\ DeliveryOf(m) \in sent
  BY DEF Record, NInv, NTypeOK, SoundWorker
<1>2. /\ blind \subseteq blind' /\ blind' \subseteq blind \cup {DeliveryOf(m)}
      /\ records \subseteq records' /\ records' \subseteq records \cup {DeliveryOf(m)}
      /\ DeliveryOf(m) \in blind' \cup records'
  BY DEF Record
<1>3. faults' \in 0..MaxFaults
  BY SMTT(60) DEF Record, NInv, NTypeOK, NotifierAssumption
<1>4. NTypeOK'
  <2>1. blind' \subseteq Delivery /\ records' \subseteq Delivery
    BY <1>1, <1>2, DeliveryType DEF NInv, NTypeOK
  <2> QED BY <1>1, <1>3, <2>1, TypeFrame DEF NInv, NTypeOK
<1>5. SoundWorker'
  BY <1>1, <1>2 DEF SoundWorker
<1>6. Accounted'
  BY <1>1, <1>2, RecordedOrBlind
<1> QED BY <1>1, <1>2, <1>4, <1>5, <1>6, SilentKeeps

\* Ending a pass, early or not, and retain_candidates keep the invariant.
LEMMA EndKeeps ==
    ASSUME LifecycleAssumption, NotifierAssumption, NInv, EndPass \/ PassFails \/ Retain
    PROVE  NInv'
<1>1. /\ worker \in {"pass", "spacing", "retaining"} /\ worker' \in {"retaining", "idle"}
      /\ current' = {} /\ queue' \subseteq queue /\ sent' \subseteq sent
      /\ UNCHANGED <<ivars, records, maintained, inbox, blind>>
  BY DEF EndPass, PassFails, Retain, NInv, SoundWorker
<1>2. quiet' \in BOOLEAN
  BY DEF EndPass, PassFails, Retain, NInv, NTypeOK
<1>3. faults' \in 0..MaxFaults
  BY SMTT(60) DEF EndPass, PassFails, Retain, NInv, NTypeOK, NotifierAssumption
<1>4. NTypeOK'
  BY <1>1, <1>2, <1>3, TypeFrame DEF NInv, NTypeOK
<1>5. SoundWorker'
  BY <1>1 DEF SoundWorker
<1>6. Accounted'
  BY <1>1, AccountedFrame
<1> QED BY <1>1, <1>4, <1>5, <1>6, SilentKeeps

\* A crash of the controller and its worker keeps the invariant: what was being
\* recorded becomes a delivery nobody knows of.
LEMMA StopKeeps ==
    ASSUME LifecycleAssumption, NInv, Stop
    PROVE  NInv'
<1>1. /\ worker' = "idle" /\ quiet' = FALSE /\ queue' = {} /\ current' = {} /\ sent' = {}
      /\ blind' = IF worker = "recording" THEN blind \cup {DeliveryOf(m) : m \in current} ELSE blind
      /\ UNCHANGED <<records, maintained, faults, inbox>>
      /\ UNCHANGED <<table, opened>> /\ IInv'
  <2>1. IInv'
    BY CrashKeeps DEF Stop, NInv
  <2> QED BY <2>1 DEF Stop, Crash
<1>2. \A m \in current : DeliveryOf(m) \in Delivery
  BY DeliveryType DEF NInv, NTypeOK
<1>3. NTypeOK'
  BY <1>1, <1>2 DEF NInv, NTypeOK, IInv
<1>4. SoundWorker'
  BY <1>1 DEF SoundWorker
<1>5. Accounted'
  BY <1>1, RecordedOrBlind
<1>6. AllPast'
  BY <1>1 DEF NInv, AllPast, Past
<1>7. RecoveryNotAfterReturn'
  BY <1>1 DEF NInv, RecoveryNotAfterReturn, IsRecovery
<1>8. NoRepeatedAlert'
  BY <1>1 DEF NInv, NoRepeatedAlert
<1> QED BY <1>1, <1>3, <1>4, <1>5, <1>6, <1>7, <1>8 DEF NInv

\* The initial state of the whole system satisfies the invariant.
LEMMA InitNInv ==
    ASSUME LifecycleAssumption, NotifierAssumption, NInit
    PROVE  NInv
<1>1. IInv
  BY InitIInv DEF NInit
<1>2. inbox = [p \in Provider |-> <<>>] /\ \A p \in Provider : Len(inbox[p]) = 0
  BY DEF NInit
<1>3. NTypeOK
  <2>1. inbox \in [Provider -> Seq(Keys)]
    BY SMTT(60), <1>2
  <2>2. faults \in 0..MaxFaults
    BY SMTT(60) DEF NInit, NotifierAssumption
  <2>3. ITypeOK
    BY <1>1 DEF IInv
  <2> QED BY <2>1, <2>2, <2>3 DEF NInit, NTypeOK
<1>4. SoundWorker
  BY DEF NInit, SoundWorker
<1>5. AllPast /\ Accounted /\ RecoveryNotAfterReturn /\ NoRepeatedAlert
  BY SMTT(60), <1>2 DEF AllPast, Accounted, RecoveryNotAfterReturn, NoRepeatedAlert
<1> QED BY <1>1, <1>3, <1>4, <1>5 DEF NInv

\* The worker and the incidents' side together keep the invariant: whatever runs
\* between two steps of the worker.
THEOREM NotifierInvariant == NSpec => []NInv
<1>1. NInit => NInv
  BY LifecycleAssumption, NotifierAssumption, InitNInv
<1>2. NInv /\ [NNext]_nvars => NInv'
  <2> SUFFICES ASSUME NInv, [NNext]_nvars PROVE NInv'
    OBVIOUS
  <2> USE LifecycleAssumption, NotifierAssumption
  <2>1. CASE Beside(DiagnosisPass) \/ Beside(Tick) \/ Beside(Restart) \/ Beside(ResetState)
    BY <2>1, BesideKeeps DEF Beside, IStep, NInv, NTypeOK
  <2>2. CASE StartMaintenance \/ EndMaintenance
    <3>1. faults' \in 0..MaxFaults
      BY SMT, <2>2 DEF StartMaintenance, EndMaintenance, NInv, NTypeOK, NotifierAssumption
    <3>2. maintained' \in BOOLEAN
      BY <2>2 DEF StartMaintenance, EndMaintenance
    <3> QED BY <2>2, <3>1, <3>2, BesideKeeps DEF StartMaintenance, EndMaintenance
  <2>3. CASE UNCHANGED nvars
    <3>1. UNCHANGED <<ivars, wvars, records, faults, inbox, blind, maintained>>
      BY <2>3 DEF nvars
    <3> QED BY <3>1, BesideKeeps DEF NInv, NTypeOK
  <2>4. CASE \E m \in queue : Consider(m)
    BY <2>4, ConsiderKeeps
  <2>5. CASE \E m \in current : Handle(m)
    BY <2>5, RecheckKeeps, SendOkKeeps, SendFailsKeeps, RecordKeeps DEF Handle
  <2>6. CASE Begin \/ EndPass \/ Retain \/ PassFails
    BY <2>6, BeginKeeps, EndKeeps
  <2>7. CASE Stop
    BY <2>7, StopKeeps
  <2> QED BY <2>1, <2>2, <2>3, <2>4, <2>5, <2>6, <2>7 DEF NNext, WorkerStep
<1> QED BY <1>1, <1>2, PTL DEF NSpec

\* Every variable keeps its type.
THEOREM NotifierTypes == NSpec => []NTypeOK
<1>1. NInv => NTypeOK
  BY DEF NInv
<1> QED BY <1>1, NotifierInvariant, PTL

\* No provider ever hears a recovery after the opening of a later outage: for
\* any interleaving of passes, retries, crashes and restarts.
THEOREM RecoveryNotAfterReturnHolds == NSpec => []RecoveryNotAfterReturn
<1>1. NInv => RecoveryNotAfterReturn
  BY DEF NInv
<1> QED BY <1>1, NotifierInvariant, PTL

\* A provider hears a message twice only when the first delivery could not be
\* known: restarts and retries alone repeat nothing.
THEOREM NoRepeatedAlertHolds == NSpec => []NoRepeatedAlert
<1>1. NInv => NoRepeatedAlert
  BY DEF NInv
<1> QED BY <1>1, NotifierInvariant, PTL
=============================================================================
