--------------------------- MODULE EvidenceProofs ---------------------------
(***************************************************************************)
(* For every set of streams, every retention that is long against the      *)
(* horizon, and every bound: what is cited is never deleted, pruning is    *)
(* not seen by a pass, the newest rows stay, nothing counts twice, and     *)
(* only good news resolves an incident.                                    *)
(*                                                                         *)
(* EvidenceKept is not inductive by itself: a pass reads its evidence in   *)
(* one transaction and cites it in another.  What carries it over the gap  *)
(* is that the evidence in hand is within the horizon, and no clock runs   *)
(* during a pass, so pruning, which spares what is younger than the        *)
(* retention period, spares it too.                                        *)
(***************************************************************************)
EXTENDS Evidence, FiniteSetTheorems, TLAPS

Kind == {"HOST_UNREACHABLE", "SSH_SERVICE_FAILURE"}

Row == [status : {"none", "open", "resolved", "reset", "pruned"}, ended : Nat,
        evidence : SUBSET Nat, kinds : SUBSET Kind, cites : SUBSET Nat, made : Nat]

Pass == [at : {"idle", "diagnosed", "verified"}, kinds : SUBSET Kind,
         evidence : SUBSET Nat, recovered : BOOLEAN]

Types ==
    /\ now \in Nat
    /\ IsFiniteSet(log) /\ \A o \in log : o.id \in Nat /\ o.at \in Nat
    /\ stored \subseteq log
    /\ incidents \in [1..MaxId -> Row]
    /\ pass \in Pass

\* What the pass has in hand is stored, and within the horizon.
InHand ==
    \A id \in pass.evidence : \E o \in stored : o.id = id /\ now - o.at <= Horizon

RowKept(r) == r.evidence \subseteq Ids(stored) /\ r.cites \subseteq Ids(stored)

Kept == \A i \in 1..MaxId : RowKept(incidents[i])

-----------------------------------------------------------------------------
(* Facts about the constants and about rows.                               *)

\* Retention is at least as long as the horizon.
LEMMA Periods == Horizon \in Nat /\ ObsPeriod \in Nat /\ ObsPeriod >= Horizon /\ MaxId \in Nat
  BY RetentionAssumption

\* A pass that is not running holds no evidence.
LEMMA IdleType == Idle \in Pass /\ Idle.evidence = {}
  BY DEF Idle, Pass

\* An incident that does not exist cites nothing.
LEMMA NoRowType == NoRow \in Row /\ NoRow.evidence = {} /\ NoRow.cites = {}
  BY DEF NoRow, Row

\* EvidenceKept row by row.
LEMMA KeptIsEvidenceKept == incidents \in [1..MaxId -> Row] => (Kept <=> EvidenceKept)
<1> SUFFICES ASSUME incidents \in [1..MaxId -> Row] PROVE Kept <=> EvidenceKept
  OBVIOUS
<1>1. DOMAIN incidents = 1..MaxId
  OBVIOUS
<1> QED BY <1>1 DEF Kept, RowKept, EvidenceKept, Cited

\* Resolving a row keeps its evidence and its citations.
LEMMA Closed ==
    ASSUME NEW r \in Row, NEW t \in Nat
    PROVE  LET x == [[r EXCEPT !.status = "resolved"] EXCEPT !.ended = t]
           IN  x \in Row /\ x.evidence = r.evidence /\ x.cites = r.cites
  BY DEF Row
-----------------------------------------------------------------------------
(* Pruning.                                                                *)

\* A row after prune_incidents and prune_diagnoses.
LEMMA PrunedRow ==
    ASSUME Types, NEW i \in 1..MaxId
    PROVE  LET x == PrunedDiagnoses(PrunedIncidents)[i]
           IN  /\ x \in Row
               /\ x.evidence \subseteq incidents[i].evidence
               /\ x.cites \subseteq incidents[i].cites
<1> DEFINE r == incidents[i]
           y == PrunedIncidents[i]
           x == PrunedDiagnoses(PrunedIncidents)[i]
<1>1. r \in Row
  BY DEF Types
<1>2. y = r \/ y = [r EXCEPT !.status = "pruned", !.evidence = {}]
  BY DEF PrunedIncidents
<1>3. y \in Row /\ y.evidence \subseteq r.evidence /\ y.cites = r.cites
  <2> HIDE DEF r, y
  <2> QED BY <1>1, <1>2 DEF Row
<1>4. x = y \/ x = [y EXCEPT !.cites = {}, !.kinds = {}]
  BY DEF PrunedDiagnoses
<1>5. x \in Row /\ x.evidence = y.evidence /\ x.cites \subseteq y.cites
  <2> HIDE DEF x, y
  <2> QED BY <1>3, <1>4 DEF Row
<1> QED BY <1>3, <1>5

\* What is within the horizon is younger than the retention period.
LEMMA YoungStays ==
    ASSUME Types, NEW table, NEW o \in stored, now - o.at <= Horizon
    PROVE  o \in PrunedObservations(table)
<1>1. o.at \in Nat /\ now \in Nat
  BY DEF Types
<1>2. o.at >= now - ObsPeriod
  BY <1>1, Periods
<1> QED BY <1>2 DEF PrunedObservations

\* Pruning spares what an incident cites.
LEMMA CitedStays ==
    ASSUME NEW table, NEW o \in stored, o.id \in Cited(table)
    PROVE  o \in PrunedObservations(table)
  BY DEF PrunedObservations

-----------------------------------------------------------------------------
(* The inductive invariant.                                                *)

Inv == Types /\ InHand /\ Kept

LEMMA InitInv == Init => Inv
<1> SUFFICES ASSUME Init PROVE Inv
  OBVIOUS
<1>1. Types
  BY IdleType, NoRowType, FS_EmptySet DEF Init, Types
<1>2. InHand
  BY IdleType DEF Init, InHand
<1>3. Kept
  BY NoRowType DEF Init, Kept, RowKept
<1> QED BY <1>1, <1>2, <1>3 DEF Inv

\* Steps that leave the incidents and the pass alone, and lose no observation.
LEMMA Growing ==
    ASSUME Inv, stored \subseteq stored', UNCHANGED <<incidents, pass>>,
           now' = now \/ pass.evidence = {}
    PROVE  InHand' /\ Kept'
<1>1. Ids(stored) \subseteq Ids(stored')
  BY DEF Ids
<1>2. Kept'
  BY <1>1 DEF Inv, Kept, RowKept, Ids
<1>3. InHand'
  BY DEF Inv, InHand
<1> QED BY <1>2, <1>3

LEMMA TickKeeps == Inv /\ Tick => Inv'
<1> SUFFICES ASSUME Inv, Tick PROVE Inv'
  OBVIOUS
<1>1. Types'
  BY DEF Inv, Types, Tick
<1>2. pass.evidence = {}
  BY IdleType DEF Tick
<1>3. InHand' /\ Kept'
  BY <1>2, Growing DEF Tick
<1> QED BY <1>1, <1>3 DEF Inv

\* Storing one more observation keeps the invariant.
LEMMA StoreKeeps ==
    ASSUME Inv, NEW o \in log', log \subseteq log', Store(o), UNCHANGED <<now, incidents, opened, held, pass>>,
           IsFiniteSet(log'), \A p \in log' : p.id \in Nat /\ p.at \in Nat
    PROVE  Inv'
<1>1. stored' = stored \cup {o}
  BY DEF Store
<1>2. Types'
  BY <1>1 DEF Inv, Types
<1>3. InHand' /\ Kept'
  BY <1>1, Growing
<1> QED BY <1>2, <1>3 DEF Inv

LEMMA IngestKeeps ==
    ASSUME Inv, NEW s \in Stream, NEW status, NEW at \in Nat, Ingest(s, status, at)
    PROVE  Inv'
<1> DEFINE o == [id |-> Cardinality(log) + 1, stream |-> s, status |-> status, at |-> at]
<1>1. log' = log \cup {o} /\ Store(o) /\ UNCHANGED <<now, incidents, opened, held, pass>>
  BY DEF Ingest
<1>2. IsFiniteSet(log) /\ Cardinality(log) \in Nat
  BY FS_CardinalityType DEF Inv, Types
<1>3. o.id \in Nat /\ o.at \in Nat
  BY <1>2
<1> HIDE DEF o
<1>4. IsFiniteSet(log')
  BY <1>1, <1>2, FS_AddElement
<1>5. \A p \in log' : p.id \in Nat /\ p.at \in Nat
  BY <1>1, <1>3 DEF Inv, Types
<1> QED BY <1>1, <1>4, <1>5, StoreKeeps

LEMMA ReplayKeeps ==
    ASSUME Inv, NEW o \in log, Replay(o)
    PROVE  Inv'
<1>1. log' = log /\ Store(o) /\ UNCHANGED <<now, incidents, opened, held, pass>>
  BY DEF Replay
<1>2. IsFiniteSet(log') /\ \A p \in log' : p.id \in Nat /\ p.at \in Nat
  BY <1>1 DEF Inv, Types
<1> QED BY <1>1, <1>2, StoreKeeps

LEMMA DiagnoseKeeps == Inv /\ Diagnose => Inv'
<1> SUFFICES ASSUME Inv, Diagnose PROVE Inv'
  OBVIOUS
<1> DEFINE kinds == Diagnosed(streams')
           ids == IF kinds = {} THEN {} ELSE Ids(Fresh)
<1>1. UNCHANGED <<now, log, stored, incidents, opened, held>>
  BY DEF Diagnose
<1>2. pass' = [Idle EXCEPT !.at = "diagnosed", !.kinds = kinds, !.evidence = ids]
  BY DEF Diagnose
<1>3. kinds \in SUBSET Kind
  BY Zenon DEF Diagnosed, Kind
<1>4. \A id \in ids : \E o \in stored : o.id = id /\ now - o.at <= Horizon
  BY DEF Ids, Fresh
<1>5. ids \in SUBSET Nat
  BY <1>4 DEF Inv, Types
<1> HIDE DEF kinds, ids
<1>6. pass' \in Pass /\ pass'.evidence = ids
  BY <1>2, <1>3, <1>5, IdleType DEF Pass
<1>7. Types'
  BY <1>1, <1>6 DEF Inv, Types
<1>8. InHand'
  BY <1>1, <1>4, <1>6 DEF InHand
<1>9. Kept'
  BY <1>1 DEF Inv, Kept, RowKept, Ids
<1> QED BY <1>7, <1>8, <1>9 DEF Inv

LEMMA VerifyKeeps == Inv /\ Verify => Inv'
<1> SUFFICES ASSUME Inv, Verify PROVE Inv'
  OBVIOUS
<1> DEFINE ok == held # 0 /\ pass.kinds = {} /\ Active(incidents[held]) /\ Verified(incidents[held])
<1>1. UNCHANGED <<now, log, stored, incidents, opened, held>>
  BY DEF Verify
<1>2. pass' = [pass EXCEPT !.at = "verified", !.recovered = ok]
  BY DEF Verify
<1>3. ok \in BOOLEAN
  OBVIOUS
<1> HIDE DEF ok
<1>4. pass' \in Pass /\ pass'.evidence = pass.evidence
  BY <1>2, <1>3 DEF Inv, Types, Pass
<1>5. Types'
  BY <1>1, <1>4 DEF Inv, Types
<1>6. InHand'
  BY <1>1, <1>4 DEF Inv, InHand
<1>7. Kept'
  BY <1>1 DEF Inv, Kept, RowKept, Ids
<1> QED BY <1>5, <1>6, <1>7 DEF Inv

LEMMA PruneKeeps == Inv /\ Prune => Inv'
<1> SUFFICES ASSUME Inv, Prune PROVE Inv'
  OBVIOUS
<1> DEFINE table == PrunedDiagnoses(PrunedIncidents)
<1>1. stored' = PrunedObservations(table) /\ incidents' = table
      /\ UNCHANGED <<now, log, opened, held, pass>>
  BY DEF Prune
<1>2. Types
  BY DEF Inv
<1>3. \A i \in 1..MaxId : /\ table[i] \in Row
                          /\ table[i].evidence \subseteq incidents[i].evidence
                          /\ table[i].cites \subseteq incidents[i].cites
  BY <1>2, PrunedRow
<1>4. table \in [1..MaxId -> Row] /\ DOMAIN table = 1..MaxId
  BY <1>3 DEF PrunedDiagnoses
<1> HIDE DEF table
<1>5. stored' \subseteq stored
  BY <1>1 DEF PrunedObservations
<1>6. Types'
  BY <1>1, <1>2, <1>4, <1>5 DEF Types
<1>7. InHand'
  <2> SUFFICES ASSUME NEW id \in pass.evidence
               PROVE  \E o \in stored' : o.id = id /\ now - o.at <= Horizon
    BY <1>1 DEF InHand
  <2>1. PICK o \in stored : o.id = id /\ now - o.at <= Horizon
    BY DEF Inv, InHand
  <2>2. o \in stored'
    BY <1>1, <1>2, <2>1, YoungStays
  <2> QED BY <2>1, <2>2
<1>8. Kept'
  <2> SUFFICES ASSUME NEW i \in 1..MaxId, NEW id \in table[i].evidence \cup table[i].cites
               PROVE  id \in Ids(stored')
    BY <1>1 DEF Kept, RowKept, Ids
  <2>1. id \in incidents[i].evidence \cup incidents[i].cites
    BY <1>3
  <2>2. PICK o \in stored : o.id = id
    BY <2>1 DEF Inv, Kept, RowKept, Ids
  <2>3. o.id \in Cited(table)
    BY <1>4, <2>2 DEF Cited
  <2>4. o \in stored'
    BY <1>1, <2>3, CitedStays
  <2> QED BY <2>2, <2>4 DEF Ids
<1> QED BY <1>6, <1>7, <1>8 DEF Inv

\* A row is written that cites what is stored.
LEMMA RowWritten ==
    ASSUME Inv, UNCHANGED <<now, log, stored>>, pass' = Idle,
           NEW k, NEW row \in Row, RowKept(row), incidents' = [incidents EXCEPT ![k] = row]
    PROVE  Inv'
<1>1. incidents' \in [1..MaxId -> Row]
  BY DEF Inv, Types
<1>2. Types'
  BY <1>1, IdleType DEF Inv, Types
<1>3. InHand'
  BY IdleType DEF InHand
<1>4. \A i \in 1..MaxId : incidents'[i] = row \/ incidents'[i] = incidents[i]
  BY DEF Inv, Types
<1>5. Kept'
  BY <1>4 DEF Inv, Kept, RowKept, Ids
<1> QED BY <1>2, <1>3, <1>5 DEF Inv

LEMMA CommitKeeps == Inv /\ Commit => Inv'
<1> SUFFICES ASSUME Inv, Commit PROVE Inv'
  OBVIOUS
<1>1. pass' = Idle /\ UNCHANGED <<now, log, stored>> /\ now \in Nat
  BY DEF Commit, Inv, Types
<1> DEFINE r == IF held = 0 THEN NoRow ELSE incidents[held]
           new == held = 0 \/ (r.status # "open" /\ ~WithinWindow(r))
<1>2. pass.evidence \in SUBSET Nat /\ pass.kinds \in SUBSET Kind
  BY DEF Inv, Types, Pass
<1>3. pass.evidence \subseteq Ids(stored)
  BY DEF Inv, InHand, Ids
<1>4. CASE /\ opened' = opened + 1 /\ held' = opened + 1
           /\ \E e \in Merged({}, pass.evidence) :
                 incidents' = [incidents EXCEPT ![opened + 1] =
                     [NoRow EXCEPT !.status = "open", !.evidence = e, !.kinds = pass.kinds,
                                   !.cites = pass.evidence, !.made = now]]
  <2>1. PICK e \in Merged({}, pass.evidence) :
              incidents' = [incidents EXCEPT ![opened + 1] =
                  [NoRow EXCEPT !.status = "open", !.evidence = e, !.kinds = pass.kinds,
                                !.cites = pass.evidence, !.made = now]]
    BY <1>4
  <2> DEFINE row == [NoRow EXCEPT !.status = "open", !.evidence = e, !.kinds = pass.kinds,
                                  !.cites = pass.evidence, !.made = now]
  <2>2. e \subseteq pass.evidence
    BY DEF Merged
  <2>3. row \in Row /\ row.evidence = e /\ row.cites = pass.evidence
    <3>1. e \in SUBSET Nat /\ now \in Nat
      BY <1>1, <1>2, <2>2
    <3> DEFINE k == pass.kinds  c == pass.evidence  n == NoRow  t == now
    <3>2. n \in Row /\ k \in SUBSET Kind /\ c \in SUBSET Nat /\ t \in Nat
      BY <1>2, <3>1, NoRowType
    <3> HIDE DEF k, c, n, t
    <3>3. LET x == [n EXCEPT !.status = "open", !.evidence = e, !.kinds = k, !.cites = c, !.made = t]
          IN  x \in Row /\ x.evidence = e /\ x.cites = c
      BY <3>1, <3>2 DEF Row
    <3> QED BY <3>3 DEF k, c, n, t
  <2>4. incidents' = [incidents EXCEPT ![opened + 1] = row]
    BY <2>1
  <2> HIDE DEF row
  <2>6. RowKept(row)
    BY <1>3, <2>2, <2>3 DEF RowKept
  <2> QED BY <1>1, <2>3, <2>4, <2>6, RowWritten
<1>5. CASE /\ \E e \in Merged(r.evidence, pass.evidence) :
                 incidents' = [incidents EXCEPT ![held] =
                     [@ EXCEPT !.status = "open", !.ended = 0, !.evidence = e,
                               !.kinds = pass.kinds, !.cites = pass.evidence, !.made = now]]
           /\ UNCHANGED <<opened, held>> /\ held # 0
  <2>1. PICK e \in Merged(r.evidence, pass.evidence) :
              incidents' = [incidents EXCEPT ![held] =
                  [@ EXCEPT !.status = "open", !.ended = 0, !.evidence = e,
                            !.kinds = pass.kinds, !.cites = pass.evidence, !.made = now]]
    BY <1>5
  <2> DEFINE row == [incidents[held] EXCEPT !.status = "open", !.ended = 0, !.evidence = e,
                            !.kinds = pass.kinds, !.cites = pass.evidence, !.made = now]
  <2>3. CASE held \in 1..MaxId
    <3>1. r = incidents[held] /\ r \in Row /\ RowKept(r)
      BY <1>5, <2>3 DEF Inv, Types, Kept
    <3>2. e \subseteq r.evidence \cup pass.evidence
      BY DEF Merged
    <3>3. e \in SUBSET Nat
      BY <1>2, <3>1, <3>2 DEF Row
    <3>4. row \in Row /\ row.evidence = e /\ row.cites = pass.evidence
      <4>1. now \in Nat /\ incidents[held] \in Row
        BY <1>1, <3>1
      <4> DEFINE k == pass.kinds  c == pass.evidence  n == incidents[held]  t == now
      <4>2. n \in Row /\ k \in SUBSET Kind /\ c \in SUBSET Nat /\ t \in Nat
        BY <1>2, <4>1
      <4> HIDE DEF k, c, n, t
      <4>3. LET x == [n EXCEPT !.status = "open", !.ended = 0, !.evidence = e, !.kinds = k,
                               !.cites = c, !.made = t]
            IN  x \in Row /\ x.evidence = e /\ x.cites = c
        BY <3>3, <4>2 DEF Row
      <4> QED BY <4>3 DEF k, c, n, t
    <3>5. incidents' = [incidents EXCEPT ![held] = row]
      BY <2>1, <2>3 DEF Inv, Types
    <3> HIDE DEF row, r
    <3>6. RowKept(row)
      BY <1>3, <3>1, <3>2, <3>4 DEF RowKept
    <3> QED BY <1>1, <3>4, <3>5, <3>6, RowWritten
  <2>4. CASE held \notin 1..MaxId
    <3>1. incidents' = incidents
      BY <2>1, <2>4 DEF Inv, Types
    <3>2. Types'
      BY <1>1, <3>1, IdleType DEF Inv, Types
    <3>3. InHand'
      BY <1>1, IdleType DEF InHand
    <3>4. Kept'
      BY <1>1, <3>1 DEF Inv, Kept, RowKept, Ids
    <3> QED BY <3>2, <3>3, <3>4 DEF Inv
  <2> QED BY <2>3, <2>4
<1>6. CASE /\ incidents' = IF pass.recovered
                             THEN [incidents EXCEPT ![held].status = "resolved", ![held].ended = now]
                             ELSE incidents
           /\ UNCHANGED <<opened, held>>
  <2>2. CASE incidents' = incidents
    <3>1. Types'
      BY <1>1, <2>2, IdleType DEF Inv, Types
    <3>2. InHand'
      BY <1>1, IdleType DEF InHand
    <3>3. Kept'
      BY <1>1, <2>2 DEF Inv, Kept, RowKept, Ids
    <3> QED BY <3>1, <3>2, <3>3 DEF Inv
  <2>3. CASE held \in 1..MaxId /\ incidents' # incidents
    <3> DEFINE row == [[incidents[held] EXCEPT !.status = "resolved"] EXCEPT !.ended = now]
    <3>1. incidents' = [incidents EXCEPT ![held] = row]
      BY <1>6, <2>3 DEF Inv, Types
    <3>2. incidents[held] \in Row /\ RowKept(incidents[held])
      BY <2>3 DEF Inv, Types, Kept
    <3>3. row \in Row /\ row.evidence = incidents[held].evidence /\ row.cites = incidents[held].cites
      BY <1>1, <3>2, Closed
    <3> HIDE DEF row
    <3>4. RowKept(row)
      BY <3>2, <3>3 DEF RowKept
    <3> QED BY <1>1, <3>1, <3>3, <3>4, RowWritten
  <2>4. held \notin 1..MaxId => incidents' = incidents
    BY <1>6 DEF Inv, Types
  <2> QED BY <2>2, <2>3, <2>4
<1> QED BY <1>4, <1>5, <1>6 DEF Commit

LEMMA RestartKeeps == Inv /\ Restart => Inv'
<1> SUFFICES ASSUME Inv, Restart PROVE Inv'
  OBVIOUS
<1>1. pass' = Idle /\ UNCHANGED <<now, log, stored, incidents>>
  BY DEF Restart
<1>3. Types'
  BY <1>1, IdleType DEF Inv, Types
<1>4. InHand'
  BY <1>1, IdleType DEF InHand
<1>5. Kept'
  BY <1>1 DEF Inv, Kept, RowKept, Ids
<1> QED BY <1>3, <1>4, <1>5 DEF Inv

LEMMA StepInv == Inv /\ [Next]_vars => Inv'
<1> SUFFICES ASSUME Inv, [Next]_vars PROVE Inv'
  OBVIOUS
<1>1. CASE UNCHANGED vars
  BY <1>1 DEF vars, Inv, Types, InHand, Kept, RowKept, Ids
<1>2. ASSUME NEW s \in Stream, NEW status \in {"Ok", "Failed"}, NEW at \in {now, now - 1} \cap Nat,
             Ingest(s, status, at)
      PROVE  Inv'
  BY <1>2, IngestKeeps
<1>3. ASSUME NEW o \in log, Replay(o) PROVE Inv'
  BY <1>3, ReplayKeeps
<1> QED
  BY <1>1, <1>2, <1>3, TickKeeps, DiagnoseKeeps, VerifyKeeps, CommitKeeps, PruneKeeps, RestartKeeps
  DEF Next

LEMMA AlwaysInv == Spec => []Inv
  BY InitInv, StepInv, PTL DEF Spec

-----------------------------------------------------------------------------
(* The theorems.                                                           *)

\* No observation that a stored incident or diagnosis cites is ever deleted, with
\* pruning between any two transactions of a pass (prune_observations,
\* retention_loop), for every retention that is long against the horizon.
THEOREM EvidenceIsKept == Spec => []EvidenceKept
<1>1. Inv => EvidenceKept
  BY KeptIsEvidenceKept DEF Inv, Types
<1> QED BY <1>1, AlwaysInv, PTL

\* What a pass reads as current evidence is the same before and after pruning.
LEMMA PruneIsUnseen == Inv /\ Prune => Fresh' = Fresh
<1> SUFFICES ASSUME Inv, Prune PROVE Fresh' = Fresh
  OBVIOUS
<1>1. now' = now /\ stored' = PrunedObservations(PrunedDiagnoses(PrunedIncidents))
  BY DEF Prune
<1>2. stored' \subseteq stored
  BY <1>1 DEF PrunedObservations
<1>3. ASSUME NEW o \in stored, now - o.at <= Horizon PROVE o \in stored'
  BY <1>1, <1>3, YoungStays DEF Inv
<1>4. Fresh \subseteq Fresh'
  BY <1>1, <1>2, <1>3 DEF Fresh
<1>5. ASSUME NEW o \in Fresh' PROVE o \in Fresh
  <2>1. o \in stored /\ now - o.at <= Horizon /\ o.at \in Nat /\ now \in Nat
    BY <1>1, <1>2, <1>5 DEF Fresh, Inv, Types
  <2>2. ASSUME NEW p \in stored, p.stream = o.stream PROVE p.at <= o.at
    <3>1. CASE now - p.at <= Horizon
      BY <1>3, <1>5, <2>2, <3>1 DEF Fresh
    <3>2. CASE ~(now - p.at <= Horizon)
      <4>1. p.at \in Nat
        BY DEF Inv, Types
      <4> QED BY <2>1, <3>2, <4>1, Periods
    <3> QED BY <3>1, <3>2
  <2> QED BY <2>1, <2>2 DEF Fresh
<1> QED BY <1>4, <1>5

\* The same for a whole run of the controller: retention_loop holds no lock, and
\* no pass can tell (Controller::diagnose, retention_loop).
THEOREM PruningIsUnseen == Spec => PruneUnseen
<1> DEFINE Seen == pass' = pass /\ now' = now /\ log' = log /\ stored' \subseteq stored => Fresh' = Fresh
<1>1. Inv /\ [Next]_vars => [Seen]_vars
  <2> SUFFICES ASSUME Inv, Next, pass' = pass, now' = now, log' = log, stored' \subseteq stored
               PROVE  Fresh' = Fresh
    BY DEF vars
  <2>1. CASE stored' = stored
    BY <2>1 DEF Fresh
  <2>2. CASE stored' # stored
    <3>1. ~Tick /\ ~Diagnose /\ ~Verify /\ ~Commit /\ ~Restart
      BY <2>2 DEF Tick, Diagnose, Verify, Commit, Restart
    <3>2. ASSUME NEW s \in Stream, NEW status \in {"Ok", "Failed"},
                 NEW at \in {now, now - 1} \cap Nat, Ingest(s, status, at)
          PROVE  FALSE
      BY <2>2, <3>2 DEF Ingest, Store
    <3>3. ASSUME NEW o \in log, Replay(o) PROVE FALSE
      BY <2>2, <3>3 DEF Replay, Store
    <3>4. Prune
      BY <3>1, <3>2, <3>3 DEF Next
    <3> QED BY <3>4, PruneIsUnseen
  <2> QED BY <2>1, <2>2
<1> QED BY <1>1, AlwaysInv, PTL DEF Spec, PruneUnseen
-----------------------------------------------------------------------------
(* A recovery is believed for what was heard.  It is established in one    *)
(* transaction and committed in another; pruning between them may delete   *)
(* the evidence it rests on, but not that it was there.                    *)

\* An id is one observation's.
Logged ==
    /\ \A o \in log : o.id \in 1..Cardinality(log)
    /\ \A o, p \in log : o.id = p.id => o = p

\* Whatever bad answer the incident cites, the same probe has answered well since.
Answered(i) ==
    \A e \in log : e.id \in incidents[i].evidence /\ Bad(e) =>
        \E o \in log : o.stream[1] = e.stream[1] /\ ~Bad(o) /\ o.at > e.at

News ==
    /\ Logged
    /\ pass.recovered /\ held \in 1..MaxId => Answered(held)
    /\ \A i \in 1..MaxId : incidents[i].status = "resolved" => Answered(i)

\* A pass that is not running has seen no recovery.
LEMMA IdleNews == Idle.recovered = FALSE
  BY DEF Idle

\* Steps that resolve nothing, cite nothing new, and lose no observation.
LEMMA Uneventful ==
    ASSUME Inv, News, Logged', log \subseteq log', \A o \in log' \ log : o.id \notin Ids(log),
           \A i \in 1..MaxId : /\ incidents'[i].evidence \subseteq incidents[i].evidence
                               /\ incidents'[i].status = "resolved" => incidents[i].status = "resolved",
           pass'.recovered => pass.recovered /\ held' = held
    PROVE  News'
<1>1. \A i \in 1..MaxId : incidents[i].evidence \subseteq Ids(log)
  BY DEF Inv, Types, Kept, RowKept, Ids
<1>2. ASSUME NEW i \in 1..MaxId, Answered(i) PROVE Answered(i)'
  <2> SUFFICES ASSUME NEW e \in log', e.id \in incidents'[i].evidence, Bad(e)
               PROVE  \E o \in log' : o.stream[1] = e.stream[1] /\ ~Bad(o) /\ o.at > e.at
    BY DEF Answered, Bad
  <2>1. e \in log /\ e.id \in incidents[i].evidence
    BY <1>1
  <2> QED BY <1>2, <2>1 DEF Answered
<1> QED BY <1>2 DEF News

LEMMA IngestNews ==
    ASSUME Inv, News, NEW s \in Stream, NEW status, NEW at \in Nat, Ingest(s, status, at)
    PROVE  News'
<1> DEFINE o == [id |-> Cardinality(log) + 1, stream |-> s, status |-> status, at |-> at]
           n == Cardinality(log)
<1>1. log' = log \cup {o} /\ UNCHANGED <<incidents, held, pass>>
  BY DEF Ingest
<1>2. IsFiniteSet(log) /\ n \in Nat
  BY FS_CardinalityType DEF Inv, Types
<1>3. o.id = n + 1
  OBVIOUS
<1> HIDE DEF o
<1>4. \A p \in log : p.id \in 1..n
  BY DEF News, Logged
<1>5. o.id \notin Ids(log) /\ o \notin log
  BY <1>2, <1>3, <1>4 DEF Ids
<1>6. Cardinality(log') = n + 1
  BY <1>1, <1>2, <1>5, FS_AddElement
<1>7. Logged'
  BY <1>1, <1>2, <1>3, <1>4, <1>5, <1>6 DEF News, Logged, Ids
<1> QED BY <1>1, <1>5, <1>7, Uneventful

\* What verification accepts is an answer to everything the incident cites.
LEMMA VerifyNews == ASSUME Inv, News, Verify PROVE News'
<1> DEFINE ok == held # 0 /\ pass.kinds = {} /\ Active(incidents[held]) /\ Verified(incidents[held])
<1>1. UNCHANGED <<log, stored, incidents, held>> /\ pass' = [pass EXCEPT !.at = "verified", !.recovered = ok]
  BY DEF Verify
<1>2. ASSUME ok, held \in 1..MaxId PROVE Answered(held)
  <2> DEFINE r == incidents[held]
  <2> SUFFICES ASSUME NEW e \in log, e.id \in r.evidence, Bad(e)
               PROVE  \E o \in log : o.stream[1] = e.stream[1] /\ ~Bad(o) /\ o.at > e.at
    BY DEF Answered
  <2>1. Verified(r)
    BY <1>2
  <2>2. PICK old \in stored : old.id = e.id /\ Refuted(old, r.kinds)
    BY <2>1 DEF Verified, Ids
  <2>3. old = e
    BY <2>2 DEF News, Logged, Inv, Types
  <2>4. Fresh \subseteq log /\ Remote \subseteq Fresh /\ \A o \in Remote : o.stream[1] = "network.tcp"
    BY DEF Fresh, Remote, Inv, Types
  <2>5. CASE RefutedQuorum(e) /\ e.stream[1] = "network.tcp"
    <3>1. Remote # {}
      BY <2>5, FS_EmptySet DEF RefutedQuorum
    <3> QED BY <2>4, <2>5, <3>1 DEF RefutedQuorum
  <2>6. CASE RefutedDirectly(e)
    BY <2>4, <2>6 DEF RefutedDirectly
  <2> QED BY <2>2, <2>3, <2>5, <2>6 DEF Refuted
<1> HIDE DEF ok
<1>3. pass'.recovered = ok
  BY <1>1 DEF Inv, Types, Pass
<1> QED BY <1>1, <1>2, <1>3 DEF News, Logged, Answered

LEMMA CommitNews == ASSUME Inv, News, Commit PROVE News'
<1>1. pass' = Idle /\ ~pass'.recovered /\ UNCHANGED <<log, stored>> /\ now \in Nat
  BY IdleNews DEF Commit, Inv, Types
<1>2. DOMAIN incidents = 1..MaxId /\ \A i \in 1..MaxId : incidents[i] \in Row
  BY DEF Inv, Types
<1>3. ASSUME NEW k, NEW row, incidents' = [incidents EXCEPT ![k] = row],
             row.status = "open" \/ (row.evidence = incidents[k].evidence /\ (k \in 1..MaxId => Answered(k)))
      PROVE  News'
  <2>1. \A i \in 1..MaxId : incidents'[i] = IF i = k THEN row ELSE incidents[i]
    BY <1>2, <1>3
  <2>2. ASSUME NEW i \in 1..MaxId, incidents'[i].status = "resolved" PROVE Answered(i)'
    <3>1. Answered(i) /\ incidents'[i].evidence = incidents[i].evidence
      BY <1>3, <2>1, <2>2 DEF News
    <3> QED BY <1>1, <3>1 DEF Answered, Bad
  <2> QED BY <1>1, <2>2 DEF News, Logged
<1> DEFINE r == IF held = 0 THEN NoRow ELSE incidents[held]
           k == pass.kinds  c == pass.evidence  t == now
<1>4. CASE \E e \in Merged({}, c) :
              incidents' = [incidents EXCEPT ![opened + 1] =
                  [NoRow EXCEPT !.status = "open", !.evidence = e, !.kinds = k, !.cites = c, !.made = t]]
  <2>1. PICK e \in Merged({}, c) :
              incidents' = [incidents EXCEPT ![opened + 1] =
                  [NoRow EXCEPT !.status = "open", !.evidence = e, !.kinds = k, !.cites = c, !.made = t]]
    BY <1>4
  <2> DEFINE n == NoRow
             row == [n EXCEPT !.status = "open", !.evidence = e, !.kinds = k, !.cites = c, !.made = t]
  <2>2. n \in Row
    BY NoRowType
  <2>3. row.status = "open"
    <3> HIDE DEF n, k, c, t
    <3> QED BY <2>2 DEF Row
  <2>4. incidents' = [incidents EXCEPT ![opened + 1] = row]
    BY <2>1
  <2> HIDE DEF row
  <2> QED BY <1>3, <2>3, <2>4
<1>5. CASE held \in 1..MaxId /\ \E e \in Merged(r.evidence, c) :
              incidents' = [incidents EXCEPT ![held] =
                  [@ EXCEPT !.status = "open", !.ended = 0, !.evidence = e, !.kinds = k, !.cites = c, !.made = t]]
  <2>1. PICK e \in Merged(r.evidence, c) :
              incidents' = [incidents EXCEPT ![held] =
                  [@ EXCEPT !.status = "open", !.ended = 0, !.evidence = e, !.kinds = k, !.cites = c, !.made = t]]
    BY <1>5
  <2> DEFINE n == incidents[held]
             row == [n EXCEPT !.status = "open", !.ended = 0, !.evidence = e, !.kinds = k, !.cites = c, !.made = t]
  <2>2. n \in Row
    BY <1>2, <1>5
  <2>3. row.status = "open"
    <3> HIDE DEF n, k, c, t
    <3> QED BY <2>2 DEF Row
  <2>4. incidents' = [incidents EXCEPT ![held] = row]
    BY <1>2, <1>5, <2>1
  <2> HIDE DEF row
  <2> QED BY <1>3, <2>3, <2>4
<1>6. CASE /\ held \in 1..MaxId /\ pass.recovered
           /\ incidents' = [incidents EXCEPT ![held].status = "resolved", ![held].ended = now]
  <2> DEFINE row == [[incidents[held] EXCEPT !.status = "resolved"] EXCEPT !.ended = now]
  <2>1. incidents' = [incidents EXCEPT ![held] = row]
    BY <1>2, <1>6
  <2>2. row.evidence = incidents[held].evidence
    BY <1>1, <1>2, <1>6, Closed
  <2> HIDE DEF row
  <2>3. Answered(held)
    BY <1>6 DEF News
  <2> QED BY <1>3, <2>1, <2>2, <2>3
<1>7. CASE incidents' = incidents
  BY <1>1, <1>7 DEF News, Logged, Answered, Bad
<1>8. \/ \E e \in Merged({}, c) :
              incidents' = [incidents EXCEPT ![opened + 1] =
                  [NoRow EXCEPT !.status = "open", !.evidence = e, !.kinds = k, !.cites = c, !.made = t]]
      \/ \E e \in Merged(r.evidence, c) :
              incidents' = [incidents EXCEPT ![held] =
                  [@ EXCEPT !.status = "open", !.ended = 0, !.evidence = e, !.kinds = k, !.cites = c, !.made = t]]
      \/ pass.recovered /\ incidents' = [incidents EXCEPT ![held].status = "resolved", ![held].ended = now]
      \/ incidents' = incidents
  BY DEF Commit
<1>9. CASE held \notin 1..MaxId /\ \E e \in Merged(r.evidence, c) :
              incidents' = [incidents EXCEPT ![held] =
                  [@ EXCEPT !.status = "open", !.ended = 0, !.evidence = e, !.kinds = k, !.cites = c, !.made = t]]
  <2>1. PICK e \in Merged(r.evidence, c) :
              incidents' = [incidents EXCEPT ![held] =
                  [@ EXCEPT !.status = "open", !.ended = 0, !.evidence = e, !.kinds = k, !.cites = c, !.made = t]]
    BY <1>9
  <2>2. incidents' = incidents
    BY <1>9, <2>1 DEF Inv, Types
  <2> QED BY <1>7, <2>2
<1>10. CASE /\ held \notin 1..MaxId
            /\ incidents' = [incidents EXCEPT ![held].status = "resolved", ![held].ended = now]
  <2>1. incidents' = incidents
    BY <1>10 DEF Inv, Types
  <2> QED BY <1>7, <2>1
<1> QED BY <1>4, <1>5, <1>6, <1>7, <1>8, <1>9, <1>10

LEMMA PruneNews == ASSUME Inv, News, Prune PROVE News'
<1>1. incidents' = PrunedDiagnoses(PrunedIncidents) /\ UNCHANGED <<log, pass, held>>
  BY DEF Prune
<1>2. ASSUME NEW i \in 1..MaxId
      PROVE  /\ incidents'[i].evidence \subseteq incidents[i].evidence
             /\ incidents'[i].status = "resolved" => incidents[i].status = "resolved"
  <2> DEFINE r == incidents[i]
             y == PrunedIncidents[i]
             x == PrunedDiagnoses(PrunedIncidents)[i]
  <2>1. r \in Row
    BY DEF Inv, Types
  <2>2. y = r \/ y = [r EXCEPT !.status = "pruned", !.evidence = {}]
    BY DEF PrunedIncidents
  <2>3. y \in Row /\ y.evidence \subseteq r.evidence /\ (y.status = "resolved" => r.status = "resolved")
    <3> HIDE DEF r, y
    <3> QED BY <2>1, <2>2 DEF Row
  <2>4. x = y \/ x = [y EXCEPT !.cites = {}, !.kinds = {}]
    BY DEF PrunedDiagnoses
  <2>5. x.evidence = y.evidence /\ x.status = y.status
    <3> HIDE DEF x, y
    <3> QED BY <2>3, <2>4 DEF Row
  <2> QED BY <1>1, <2>3, <2>5
<1>3. Logged'
  BY <1>1 DEF News, Logged
<1> QED BY <1>1, <1>2, <1>3, Uneventful

LEMMA StepNews == Inv /\ News /\ [Next]_vars => News'
<1> SUFFICES ASSUME Inv, News, [Next]_vars PROVE News'
  OBVIOUS
<1>1. ASSUME UNCHANGED <<log, incidents>>, pass'.recovered => pass.recovered /\ held' = held PROVE News'
  <2>1. Logged'
    BY <1>1 DEF News, Logged
  <2> QED BY <1>1, <2>1, Uneventful
<1>2. CASE Tick \/ UNCHANGED vars
  BY <1>1, <1>2 DEF Tick, vars
<1>3. CASE Diagnose
  <2> DEFINE kinds == Diagnosed(streams')
             ids == IF kinds = {} THEN {} ELSE Ids(Fresh)
  <2>1. pass' = [Idle EXCEPT !.at = "diagnosed", !.kinds = kinds, !.evidence = ids]
    BY <1>3 DEF Diagnose
  <2> HIDE DEF kinds, ids
  <2>2. pass'.recovered = FALSE
    BY <2>1 DEF Idle
  <2> QED BY <1>1, <1>3, <2>2 DEF Diagnose
<1>4. CASE Restart
  BY <1>1, <1>4, IdleNews DEF Restart
<1>5. ASSUME NEW s \in Stream, NEW status \in {"Ok", "Failed"}, NEW at \in {now, now - 1} \cap Nat,
             Ingest(s, status, at)
      PROVE  News'
  BY <1>5, IngestNews
<1>6. ASSUME NEW o \in log, Replay(o) PROVE News'
  BY <1>1, <1>6 DEF Replay
<1> QED BY <1>2, <1>3, <1>4, <1>5, <1>6, VerifyNews, CommitNews, PruneNews DEF Next

LEMMA AlwaysNews == Spec => []News
<1>1. Init => News
  BY FS_EmptySet, IdleNews, NoRowType DEF Init, News, Logged, NoRow
<1> QED BY <1>1, StepNews, AlwaysInv, PTL DEF Spec

\* An incident is resolved by good news: for every bad answer it cites, the same
\* probe has answered well since, and neither silence nor the loss of old
\* evidence between the pass's transactions stands in for it
\* (diagnose_and_correlate, reconcile_verified).
THEOREM GoodNewsResolves == Spec => []ResolvedByGoodNews
<1>1. News => ResolvedByGoodNews
  BY DEF News, Answered, ResolvedByGoodNews
<1> QED BY <1>1, AlwaysNews, PTL
-----------------------------------------------------------------------------
(* An observation counts once.  Its row does not see to that, since it may *)
(* be pruned and uploaded again; the stream's watermark does.              *)

Fields == {"verdict", "health", "failures", "successes", "last", "at", "expired"}

StreamTypes ==
    /\ DOMAIN streams = Stream
    /\ \A s \in Stream : DOMAIN streams[s] = Fields /\ streams[s].at \in Nat

\* The agent's clock does not stand still between two measurements of a stream.
Apart ==
    /\ \A o \in log : o.id \in 1..MaxObs /\ o.stream \in Stream
    /\ \A o, p \in log : o.stream = p.stream /\ o.at = p.at => o = p

\* What was counted is at or below its stream's watermark.
Below(o) ==
    /\ streams[o.stream].at >= o.at
    /\ streams[o.stream].at = o.at => streams[o.stream].last = o.id

Tally ==
    /\ counted \in [1..MaxObs -> Nat]
    /\ \A i \in 1..MaxObs : counted[i] # 0 => \E o \in log : o.id = i
    /\ \A o \in log : counted[o.id] # 0 => counted[o.id] = 1 /\ Below(o)

Watermark == StreamTypes /\ Apart /\ Tally

\* One observation is stored, for the first time or again.
LEMMA StoreTally ==
    ASSUME Inv, News, Watermark, NEW o, o.id \in 1..MaxObs, o.stream \in Stream, o.at \in Nat,
           Store(o), log' = log \cup {o}, o \in log \/ counted[o.id] = 0, Logged', Apart'
    PROVE  Watermark'
<1>1. \A p \in log : p.at \in Nat /\ p.id \in 1..MaxObs /\ p.stream \in Stream
  BY DEF Inv, Types, Watermark, Apart
<1>2. CASE ~Counts(o)
  <2>1. streams' = streams /\ counted' = counted
    BY <1>2 DEF Store, Watermark, Tally
  <2>2. Tally'
    BY <2>1 DEF Watermark, Tally, Below
  <2> QED BY <2>1, <2>2 DEF Watermark, StreamTypes
<1>3. CASE Counts(o)
  <2> DEFINE w == streams[o.stream]
             m == Measured(o.stream[1], w, o.status)
             id == o.id  at == o.at
             n == [m EXCEPT !.last = id, !.at = at, !.expired = FALSE]
  <2>1. DOMAIN w = Fields /\ w.at \in Nat /\ w.last # o.id /\ w.at <= o.at
    BY <1>3 DEF Counts, Watermark, StreamTypes
  <2>2. streams' = [streams EXCEPT ![o.stream] = n]
    BY <1>3 DEF Store, Watermark, StreamTypes
  <2>3. DOMAIN m = Fields
    <3> DEFINE failures  == IF o.status = "Ok" THEN 0 ELSE Bump(w.failures)
               successes == IF o.status = "Ok" THEN Bump(w.successes) ELSE 0
               verdict   == NextVerdict(o.stream[1], w.verdict, failures, successes)
               health    == Cap(verdict, o.status)
    <3>1. m = [w EXCEPT !.failures = failures, !.successes = successes,
                        !.verdict = verdict, !.health = health]
      BY DEF Measured
    <3> HIDE DEF failures, successes, verdict, health, m, w
    <3> QED BY <2>1, <3>1
  <2> HIDE DEF m, id, at
  <2>4. DOMAIN n = Fields /\ n.at = at /\ n.last = id
    BY <2>3 DEF Fields
  <2> HIDE DEF n
  <2>5. /\ DOMAIN streams' = Stream /\ streams'[o.stream] = n
        /\ \A s \in Stream : s # o.stream => streams'[s] = streams[s]
    BY <2>2 DEF Watermark, StreamTypes
  <2>6. StreamTypes'
    BY <2>4, <2>5 DEF Watermark, StreamTypes, at
  <2>7. counted[o.id] = 0
    <3> SUFFICES ASSUME o \in log, counted[o.id] # 0 PROVE FALSE
      OBVIOUS
    <3>1. w.at >= o.at /\ (w.at = o.at => w.last = o.id)
      BY DEF Watermark, Tally, Below
    <3> QED BY <2>1, <3>1
  <2>8. counted' = [counted EXCEPT ![o.id] = 1]
    BY <1>3, <2>7 DEF Store, Watermark, Tally
  <2>9. /\ counted' \in [1..MaxObs -> Nat] /\ counted'[o.id] = 1
        /\ \A i \in 1..MaxObs : i # o.id => counted'[i] = counted[i]
    BY <2>8 DEF Watermark, Tally
  <2>10. \A i \in 1..MaxObs : counted'[i] # 0 => \E p \in log' : p.id = i
    BY <2>9 DEF Watermark, Tally
  <2>11. ASSUME NEW p \in log', counted'[p.id] # 0 PROVE counted'[p.id] = 1 /\ Below(p)'
    <3>1. CASE p = o
      BY <2>4, <2>5, <2>9, <3>1 DEF Below, id, at
    <3>2. CASE p # o
      <4>1. p \in log /\ p.id # o.id
        BY <3>2 DEF Logged
      <4>2. counted'[p.id] = 1 /\ Below(p)
        BY <1>1, <2>9, <2>11, <4>1 DEF Watermark, Tally
      <4>3. CASE p.stream # o.stream
        BY <1>1, <2>5, <4>1, <4>2, <4>3 DEF Below
      <4>4. CASE p.stream = o.stream
        <5>1. w.at >= p.at /\ p.at \in Nat
          BY <1>1, <4>1, <4>2, <4>4 DEF Below
        <5>2. p.at # o.at
          BY <3>2, <4>4 DEF Apart
        <5>3. o.at > p.at
          BY <2>1, <5>1, <5>2
        <5> QED BY <2>4, <2>5, <4>2, <4>4, <5>1, <5>3 DEF Below, at
      <4> QED BY <4>3, <4>4
    <3> QED BY <3>1, <3>2
  <2> QED BY <2>6, <2>9, <2>10, <2>11 DEF Watermark, Tally
<1> QED BY <1>2, <1>3

LEMMA IngestTally ==
    ASSUME Inv, News, Watermark, NEW s \in Stream, NEW status, NEW at \in Nat, Ingest(s, status, at)
    PROVE  Watermark'
<1> DEFINE o == [id |-> Cardinality(log) + 1, stream |-> s, status |-> status, at |-> at]
<1>1. /\ log' = log \cup {o} /\ Store(o) /\ o.id <= MaxObs
      /\ \A p \in log : p.stream = s => p.at # at
  BY DEF Ingest
<1>2. Cardinality(log) \in Nat
  BY FS_CardinalityType DEF Inv, Types
<1>o. o.id = Cardinality(log) + 1 /\ o.stream = s /\ o.at = at
  OBVIOUS
<1> HIDE DEF o
<1>3. o.id \in 1..MaxObs /\ o.id = Cardinality(log) + 1 /\ o.stream = s /\ o.at = at
  <2>1. MaxObs \in Nat
    BY RetentionAssumption
  <2> QED BY <1>1, <1>2, <1>o, <2>1
<1>4. Logged'
  BY IngestNews DEF News
<1>5. counted[o.id] = 0
  BY <1>2, <1>3 DEF Watermark, Tally, News, Logged
<1>6. Apart'
  BY <1>1, <1>3 DEF Watermark, Apart
<1> QED BY <1>1, <1>3, <1>4, <1>5, <1>6, StoreTally

LEMMA StepWatermark == Inv /\ News /\ Watermark /\ [Next]_vars => Watermark'
<1> SUFFICES ASSUME Inv, News, Watermark, [Next]_vars PROVE Watermark'
  OBVIOUS
<1>1. ASSUME UNCHANGED <<log, streams, counted>> PROVE Watermark'
  BY <1>1 DEF Watermark, StreamTypes, Apart, Tally, Below
<1>2. CASE Tick \/ Verify \/ Commit \/ Prune \/ Restart \/ UNCHANGED vars
  BY <1>1, <1>2 DEF Tick, Verify, Commit, Prune, Restart, vars
<1>3. ASSUME NEW s \in Stream, NEW status \in {"Ok", "Failed"}, NEW at \in {now, now - 1} \cap Nat,
             Ingest(s, status, at)
      PROVE  Watermark'
  BY <1>3, IngestTally
<1>4. ASSUME NEW o \in log, Replay(o) PROVE Watermark'
  <2>1. Store(o) /\ log' = log \cup {o} /\ log' = log
    BY <1>4 DEF Replay
  <2>2. o.id \in 1..MaxObs /\ o.stream \in Stream /\ o.at \in Nat
    BY DEF Watermark, Apart, Inv, Types
  <2>3. Logged' /\ Apart'
    BY <2>1 DEF News, Logged, Watermark, Apart
  <2> QED BY <2>1, <2>2, <2>3, StoreTally
<1>5. CASE Diagnose
  <2>1. log' = log /\ counted' = counted
    BY <1>5 DEF Diagnose
  <2>2. DOMAIN streams' = Stream
    BY <1>5 DEF Diagnose
  <2>3. ASSUME NEW s \in Stream
        PROVE  /\ DOMAIN streams'[s] = Fields
               /\ streams'[s].at = streams[s].at /\ streams'[s].last = streams[s].last
    <3> DEFINE w == streams[s]  f == Forced(w, "Unknown")  n == [f EXCEPT !.expired = TRUE]
    <3>1. streams'[s] = n \/ streams'[s] = w
      BY <1>5 DEF Diagnose
    <3>2. DOMAIN w = Fields
      BY DEF Watermark, StreamTypes
    <3>3. DOMAIN f = Fields /\ f.at = w.at /\ f.last = w.last
      <4> HIDE DEF w
      <4> QED BY <3>2 DEF Forced, Fields
    <3>4. DOMAIN n = Fields /\ n.at = w.at /\ n.last = w.last
      <4> HIDE DEF f
      <4> QED BY <3>3 DEF Fields
    <3> QED BY <3>1, <3>2, <3>4
  <2>4. StreamTypes'
    BY <2>2, <2>3 DEF Watermark, StreamTypes
  <2>5. Tally'
    BY <2>1, <2>3 DEF Watermark, Apart, Tally, Below
  <2> QED BY <2>1, <2>4, <2>5 DEF Watermark, Apart
<1> QED BY <1>2, <1>3, <1>4, <1>5 DEF Next

\* However often an agent uploads it, and though its row may have been pruned, an
\* observation counts once towards a verdict (StateEngine::ingest, the watermark).
THEOREM CountedOnceHolds == Spec => []CountedOnce
<1>1. Init => Watermark
  <2> SUFFICES ASSUME Init PROVE Watermark
    OBVIOUS
  <2>1. StreamTypes
    BY DEF Init, StreamTypes, Fields
  <2>2. Apart /\ Tally
    BY DEF Init, Apart, Tally
  <2> QED BY <2>1, <2>2 DEF Watermark
<1>2. Watermark => CountedOnce
  <2> SUFFICES ASSUME Watermark, NEW o \in log PROVE counted[o.id] <= 1
    BY DEF CountedOnce
  <2> QED BY DEF Watermark, Apart, Tally
<1> QED BY <1>1, <1>2, StepWatermark, AlwaysInv, AlwaysNews, PTL DEF Spec

-----------------------------------------------------------------------------
(* What an entity reported last is kept.                                   *)

LEMMA KeepType == Keep \in Nat
<1>1. KeepPerEntity \in Nat /\ MinKeep \in Nat
  BY RetentionAssumption
<1>2. \E x \in {KeepPerEntity, MinKeep} : \A y \in {KeepPerEntity, MinKeep} : x >= y
  BY <1>1
<1>3. Keep \in {KeepPerEntity, MinKeep}
  BY <1>2 DEF Keep, Max
<1> QED BY <1>1, <1>3

\* What is among the newest of a set is among the newest of a part of it.
LEMMA NewestOfPart ==
    ASSUME NEW S, NEW T \in SUBSET S, IsFiniteSet(S), NEW o \in T, o \in NewestOf(S, Keep)
    PROVE  o \in NewestOf(T, Keep)
<1> DEFINE A == {p \in S : Newer(p, o)}  B == {p \in T : Newer(p, o)}
<1>1. IsFiniteSet(A) /\ B \subseteq A
  BY FS_Subset
<1>2. Cardinality(A) \in Nat /\ Cardinality(B) \in Nat /\ Cardinality(B) <= Cardinality(A)
  BY <1>1, FS_Subset, FS_CardinalityType
<1>3. Cardinality(A) < Keep
  BY DEF NewestOf
<1> HIDE DEF A, B
<1>4. Cardinality(B) < Keep
  BY <1>2, <1>3, KeepType
<1> QED BY <1>4 DEF NewestOf, B

LEMMA StepNewest == Inv /\ NewestKept /\ [Next]_vars => NewestKept'
<1> SUFFICES ASSUME Inv, NewestKept, [Next]_vars, NEW o \in NewestOf(log', Keep) PROVE o \in stored'
  BY DEF NewestKept
<1>0. IsFiniteSet(log) /\ stored \subseteq log /\ o \in log'
  BY DEF Inv, Types, NewestOf
<1>1. CASE log' = log /\ stored \subseteq stored'
  BY <1>1 DEF NewestKept
<1>2. CASE Tick \/ Diagnose \/ Verify \/ Commit \/ Restart \/ UNCHANGED vars
  BY <1>1, <1>2 DEF Tick, Diagnose, Verify, Commit, Restart, vars
<1>3. ASSUME NEW s \in Stream, NEW status \in {"Ok", "Failed"}, NEW at \in {now, now - 1} \cap Nat,
             Ingest(s, status, at)
      PROVE  o \in stored'
  <2>1. PICK n : log' = log \cup {n} /\ stored' = stored \cup {n}
    BY <1>3 DEF Ingest, Store
  <2>2. IsFiniteSet(log')
    BY <1>0, <2>1, FS_AddElement
  <2>3. CASE o \in log
    BY <2>1, <2>2, <2>3, NewestOfPart DEF NewestKept
  <2> QED BY <1>0, <2>1, <2>3
<1>4. ASSUME NEW p \in log, Replay(p) PROVE o \in stored'
  BY <1>1, <1>4 DEF Replay, Store
<1>5. CASE Prune
  <2>1. stored' = PrunedObservations(PrunedDiagnoses(PrunedIncidents)) /\ log' = log
    BY <1>5 DEF Prune
  <2>2. o \in stored
    BY <2>1 DEF NewestKept
  <2>3. o \in NewestOf(stored, Keep)
    BY <1>0, <2>1, <2>2, NewestOfPart
  <2>4. o.at \in Nat
    BY <1>0, <2>2 DEF Inv, Types
  <2> QED BY <2>1, <2>2, <2>3, <2>4 DEF PrunedObservations
<1> QED BY <1>2, <1>3, <1>4, <1>5 DEF Next

\* Of all a host ever reported, in whatever order it arrived, the newest are
\* never pruned (prune_observations, "every entity keeps its most recent
\* observations").
THEOREM NewestAreKept == Spec => []NewestKept
<1>1. Init => NewestKept
  BY DEF Init, NewestKept, NewestOf
<1> QED BY <1>1, StepNewest, AlwaysInv, PTL DEF Spec
=============================================================================
