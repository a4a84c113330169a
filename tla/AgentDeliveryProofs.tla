------------------------- MODULE AgentDeliveryProofs -------------------------
(***************************************************************************)
(* For every number of observations, every limit and every bound on        *)
(* crashes: nothing the spool's limits spared is lost, nothing counts      *)
(* twice, AgentDelivery implements DeliveryContract, and the spool keeps   *)
(* its limits, at the expense of the least important rows.                 *)
(*                                                                         *)
(* The argument rests on the watermark: once an observation has been       *)
(* accepted, its stream has counted it or a later one.  Retention may then *)
(* delete its row, and a copy of it that is inserted again counts nothing. *)
(* The limits rest on two facts about sets of rows: fewer rows are no more *)
(* bytes, and evicting the first n leaves all but n.                       *)
(***************************************************************************)
EXTENDS AgentDelivery, FiniteSetTheorems, WellFoundedInduction, TLAPS

\* Whoever holds an observation, holds one that was recorded.
Recorded ==
    /\ spool \subseteq 1..made /\ evicted \subseteq 1..made
    /\ batch \subseteq 1..made /\ accepted \subseteq 1..made
    /\ \A b \in late : b \subseteq 1..made

\* The controller's commits precede what the agent hears of them.
Confirmed ==
    /\ rows \subseteq accepted
    /\ wire = "response" => batch \ rejected \subseteq accepted

Watermark == \A o \in accepted : Superseded(o)

Once == \A o \in Obs : counted[o] \in {0, 1} /\ (counted[o] = 1 => o \in accepted)

Invariant ==
    /\ TypeOK /\ Recorded /\ Confirmed
    /\ NothingLost /\ Watermark /\ Once

-----------------------------------------------------------------------------
(* What a batch does.                                                      *)

\* Observations are numbers.
LEMMA ObsNat == Obs \subseteq Nat
  BY DeliveryAssumption DEF Obs

LEMMA PriorityNat == \A o \in Obs : Priority[o] \in Nat
<1>1. Priority \in [Obs -> 0..2]
  BY DeliveryAssumption
<1>2. 0..2 \subseteq Nat
  OBVIOUS
<1> QED BY <1>1, <1>2

\* What was made is an observation.
LEMMA RecordedObs == TypeOK => 1..made \subseteq Obs
<1> SUFFICES ASSUME made \in 0..MaxObs PROVE 1..made \subseteq Obs
  BY DEF TypeOK
<1> QED BY DeliveryAssumption DEF Obs

\* A nonempty set of observations has a last one.
LEMMA LastOf ==
    ASSUME NEW S \in SUBSET Obs, S # {}
    PROVE  \E m \in S : \A o \in S : o <= m
<1> DEFINE T == {MaxObs - o : o \in S}
<1>1. T \in SUBSET Nat /\ T # {}
  <2>1. \A o \in S : MaxObs - o \in Nat
    BY DeliveryAssumption DEF Obs
  <2> QED BY <2>1
<1>2. PICK t \in T : \A u \in T : ~(<<u, t>> \in OpToRel(<, Nat))
  BY <1>1, WFMin, NatLessThanWellFounded
<1>3. PICK m \in S : t = MaxObs - m
  OBVIOUS
<1>4. \A u \in T : ~(u < t)
  BY <1>1, <1>2 DEF OpToRel
<1>5. \A o \in S : ~(MaxObs - o < MaxObs - m)
  BY <1>3, <1>4
<1> QED
  BY <1>5, DeliveryAssumption DEF Obs

\* Ingesting a batch of recorded observations keeps every promise, and counts
\* only what it accepts for the first time.
LEMMA IngestStep ==
    ASSUME Invariant, NEW b \in SUBSET (1..made), Ingest(b)
    PROVE  /\ rows' \subseteq accepted'
           /\ accepted' = accepted \cup ({o \in b : Target[o] \in known} \ rows)
           /\ accepted' \subseteq 1..made
           /\ {o \in b : Target[o] \in known} \subseteq accepted'
           /\ rows' \in SUBSET Obs
           /\ Watermark' /\ Once'
           /\ counted' \in [Obs -> Nat]
           /\ \A o \in Obs :
                 \/ counted'[o] = counted[o]
                 \/ /\ counted'[o] = counted[o] + 1
                    /\ o \in b /\ o \notin accepted /\ o \in accepted'
<1> DEFINE new == {o \in b : Target[o] \in known} \ rows
<1>1. /\ rows' = rows \cup new
      /\ accepted' = accepted \cup new
      /\ counted' = [o \in Obs |-> IF o \in Counts(new) THEN counted[o] + 1 ELSE counted[o]]
  BY DEF Ingest
<1> HIDE DEF new
<1>2. new \in SUBSET (1..made) /\ new \in SUBSET Obs /\ 1..made \in SUBSET Obs
  BY RecordedObs DEF new, Invariant
<1>3. counted \in [Obs -> Nat] /\ rows \in SUBSET Obs /\ accepted \in SUBSET Obs /\ rows \subseteq accepted
  BY DEF Invariant, TypeOK, Confirmed
<1>4. \A o \in Counts(new) : o \in new /\ o \notin accepted /\ counted[o] = 0
  BY <1>2, <1>3 DEF Counts, Invariant, Watermark, Once
<1>5. counted' \in [Obs -> Nat]
  BY <1>1, <1>3
<1>6. \A o \in Obs :
         IF o \in Counts(new) THEN counted'[o] = 1 /\ counted[o] = 0 ELSE counted'[o] = counted[o]
  BY <1>1, <1>3, <1>4
<1>7. Once'
  BY <1>1, <1>2, <1>3, <1>4, <1>6 DEF Once, Invariant
<1>8. \A q \in Obs : counted[q] > 0 => counted'[q] > 0
  BY <1>6, <1>3
<1>9. \A o \in Obs : Superseded(o) => Superseded(o)'
  BY <1>8 DEF Superseded
<1>10. ASSUME NEW o \in new PROVE Superseded(o)'
  <2> DEFINE S == {q \in new : Source[q] = Source[o]}
  <2>1. PICK m \in S : \A q \in S : q <= m
    <3>1. S \in SUBSET Obs /\ o \in S
      BY <1>2
    <3> HIDE DEF S
    <3> QED BY <3>1, LastOf
  <2>2. m \in Obs /\ o \in Obs /\ Source[m] = Source[o] /\ m >= o /\ m \in new
    BY <2>1, <1>2 DEF Obs
  <2>3. CASE Superseded(m)
    <3>1. PICK q \in Obs : counted[q] > 0 /\ Source[q] = Source[m] /\ q >= m
      BY <2>3 DEF Superseded
    <3>2. q >= o
      BY <3>1, <2>2 DEF Obs
    <3> QED BY <3>1, <3>2, <2>2, <1>8 DEF Superseded
  <2>4. CASE ~Superseded(m)
    <3>1. \A q \in new : (Source[q] = Source[m] /\ ReplaysBefore(q, m)) => q < m
      <4> SUFFICES ASSUME NEW q \in new, Source[q] = Source[m], ReplaysBefore(q, m) PROVE q < m
        OBVIOUS
      <4>1. q <= m /\ q \in Obs
        BY <2>1, <2>2, <1>2
      <4>2. q # m
        <5>1. Priority[m] \in Nat /\ m \in Nat
          BY <2>2, PriorityNat, ObsNat
        <5> QED BY <5>1 DEF ReplaysBefore
      <4> QED BY <4>1, <4>2, <2>2 DEF Obs
    <3>2. m \in Counts(new)
      BY <3>1, <2>4, <2>2 DEF Counts
    <3>3. counted'[m] > 0
      BY <3>2, <1>6, <2>2
    <3> QED BY <3>3, <2>2 DEF Superseded
  <2> QED BY <2>3, <2>4
<1>11. Watermark'
  BY <1>1, <1>3, <1>9, <1>10 DEF Watermark, Invariant
<1>12. {o \in b : Target[o] \in known} \subseteq accepted'
  BY <1>1, <1>3 DEF new
<1>13. accepted' \subseteq 1..made
  BY <1>1, <1>2 DEF Invariant, Recorded
<1>14. rows' \subseteq accepted' /\ rows' \in SUBSET Obs
  BY <1>1, <1>2, <1>3
<1>15. \A o \in Counts(new) : o \in b /\ o \in accepted'
  BY <1>4, <1>1 DEF new
<1>16. \A o \in Obs :
          \/ counted'[o] = counted[o]
          \/ /\ counted'[o] = counted[o] + 1
             /\ o \in b /\ o \notin accepted /\ o \in accepted'
  BY <1>4, <1>6, <1>15
<1> QED
  BY <1>1, <1>5, <1>7, <1>11, <1>12, <1>13, <1>14, <1>16 DEF new

-----------------------------------------------------------------------------
(* The inductive invariant.                                                *)

\* Nothing is recorded, in flight or stored yet.
LEMMA InvariantInit == Init => Invariant
<1> SUFFICES ASSUME Init PROVE Invariant
  OBVIOUS
<1>1. TypeOK
  <2>1. made \in 0..MaxObs /\ counted \in [Obs -> Nat] /\ known \subseteq Entity
    BY DeliveryAssumption DEF Init
  <2>2. registered \in BOOLEAN /\ up \in BOOLEAN
    BY DEF Init
  <2> QED BY <2>1, <2>2 DEF Init, TypeOK
<1>2. Recorded /\ Confirmed /\ NothingLost /\ Watermark /\ Once
  BY DEF Init, Recorded, Confirmed, NothingLost, Watermark, Once
<1> QED BY <1>1, <1>2 DEF Invariant

\* The controller's part of the invariant stays when the controller does nothing.
LEMMA ControllerIdle ==
    ASSUME Watermark, Once, UNCHANGED <<rows, counted, accepted>>
    PROVE  Watermark' /\ Once'
  BY DEF Watermark, Once, Superseded

\* Every step of the agent, the network and the controller keeps the invariant.
LEMMA InvariantStep == Invariant /\ [Next]_vars => Invariant'
<1> SUFFICES ASSUME Invariant, [Next]_vars PROVE Invariant'
  OBVIOUS
<1> USE DEF Invariant
<1>1. CASE Register
  BY <1>1, ControllerIdle DEF Register, spoolVars, linkVars, controllerVars,
     TypeOK, Recorded, Confirmed, NothingLost
<1>2. ASSUME NEW n \in 1..MaxObs, Push(n) PROVE Invariant'
  <2>1. made \in Nat /\ made' \in Nat /\ made' = made + n /\ made + n <= MaxObs
    BY <1>2, DeliveryAssumption DEF Push, TypeOK
  <2>2. spool' = spool \cup (made + 1)..(made + n)
    BY <1>2 DEF Push
  <2>3. 1..made \subseteq 1..made' /\ (made + 1)..(made + n) \subseteq 1..made'
    BY <2>1
  <2>4. \A o \in 1..made' : o \in 1..made \/ o \in (made + 1)..(made + n)
    BY <2>1
  <2>5. 1..made' \subseteq Obs
    BY <2>1, DeliveryAssumption DEF Obs
  <2>6. Recorded'
    BY <1>2, <2>2, <2>3 DEF Push, linkVars, controllerVars, Recorded
  <2>7. NothingLost'
    BY <1>2, <2>2, <2>4 DEF Push, controllerVars, NothingLost
  <2>8. Confirmed' /\ Watermark' /\ Once'
    BY <1>2, ControllerIdle DEF Push, linkVars, controllerVars, Confirmed
  <2>9. spool' \subseteq Obs /\ made' \in 0..MaxObs
    BY <2>1, <2>5, <2>6, DeliveryAssumption DEF Recorded
  <2>10. TypeOK'
    BY <1>2, <2>9 DEF Push, linkVars, controllerVars, TypeOK
  <2> QED BY <2>6, <2>7, <2>8, <2>10
<1>3. ASSUME NEW S \in SUBSET spool, NEW next \in {"rows", "bytes", "flush"}, Evict(S, next)
      PROVE  Invariant'
  <2>1. TypeOK'
    BY <1>3 DEF Evict, linkVars, controllerVars, TypeOK
  <2>2. Recorded' /\ Confirmed' /\ NothingLost'
    BY <1>3 DEF Evict, linkVars, controllerVars, Recorded, Confirmed, NothingLost
  <2>3. Watermark' /\ Once'
    BY <1>3, ControllerIdle DEF Evict, controllerVars
  <2> QED BY <2>1, <2>2, <2>3
<1>4. CASE EvictAged
  <2>1. PICK cutoff \in 1..made : Evict({o \in spool : o < cutoff}, "rows")
    BY <1>4 DEF EvictAged
  <2> QED BY <2>1, <1>3
<1>5. CASE EvictRows
  BY <1>5, <1>3 DEF EvictRows, FirstToEvict
<1>6. CASE EvictBytes
  <2>1. CASE Evict(FirstToEvict(Chunk), "bytes")
    BY <2>1, <1>3 DEF FirstToEvict
  <2>2. CASE Evict({}, "flush")
    BY <2>2, <1>3
  <2> QED BY <1>6, <2>1, <2>2 DEF EvictBytes
<1>7. CASE StartFlush
  BY <1>7, ControllerIdle DEF StartFlush, spoolVars, linkVars, controllerVars,
     TypeOK, Recorded, Confirmed, NothingLost
<1>8. CASE Peek
  <2>1. UNCHANGED <<made, spool, evicted, registered, rejected, late>>
    BY <1>8 DEF Peek, spoolVars
  <2>2. UNCHANGED <<up, known, rows, counted, accepted, prunes, crashes>>
    BY <1>8 DEF Peek, controllerVars
  <2>3. \/ pc' = "wait" /\ batch' \subseteq spool /\ wire' = "request"
        \/ pc' = "idle" /\ UNCHANGED <<batch, wire>>
    BY <1>8 DEF Peek, FirstToReplay
  <2>4. wire' = "request" \/ UNCHANGED <<batch, wire>>
    BY <2>3
  <2>5. Recorded' /\ Confirmed' /\ NothingLost'
    BY <2>1, <2>2, <2>3 DEF Recorded, Confirmed, NothingLost
  <2>6. Watermark' /\ Once'
    BY <2>2, ControllerIdle
  <2>7. TypeOK'
    BY <2>1, <2>2, <2>3 DEF TypeOK
  <2> QED BY <2>5, <2>6, <2>7
<1>9. CASE Receive
  <2>1. /\ UNCHANGED <<made, evicted, registered, late, crashes>>
        /\ UNCHANGED <<up, known, rows, counted, accepted, prunes>>
    BY <1>9 DEF Receive, controllerVars
  <2>2. /\ spool' = spool \ (batch \ rejected)
        /\ pc' \in {"flush", "idle"}
        /\ batch' = {} /\ wire' = "none" /\ rejected' = {}
    BY <1>9 DEF Receive
  <2>3. batch \ rejected \subseteq accepted
    BY <1>9 DEF Receive, Confirmed
  <2>4. Recorded' /\ Confirmed' /\ NothingLost'
    BY <2>1, <2>2, <2>3 DEF Recorded, Confirmed, NothingLost
  <2>5. Watermark' /\ Once'
    BY <2>1, ControllerIdle
  <2>6. TypeOK'
    BY <2>1, <2>2 DEF TypeOK
  <2> QED BY <2>4, <2>5, <2>6
<1>10. ASSUME /\ UNCHANGED <<made, spool, evicted>>
              /\ UNCHANGED <<up, known, rows, counted, accepted, prunes>>
              /\ pc' = "idle" /\ registered' \in BOOLEAN /\ crashes' \in Nat
              /\ batch' = {} /\ wire' = "none" /\ rejected' = {}
              /\ late' = late \/ late' = late \cup {batch}
       PROVE  Invariant'
  <2>1. Recorded' /\ Confirmed' /\ NothingLost'
    BY <1>10 DEF Recorded, Confirmed, NothingLost
  <2>2. Watermark' /\ Once'
    BY <1>10, ControllerIdle
  <2>3. TypeOK'
    BY <1>10 DEF TypeOK
  <2> QED BY <2>1, <2>2, <2>3
<1>11. CASE GiveUp
  <2>1. late' = late \/ late' = late \cup {batch}
    BY <1>11 DEF GiveUp
  <2> QED BY <1>11, <2>1, <1>10 DEF GiveUp, spoolVars, controllerVars, TypeOK
<1>12. CASE AgentCrash
  <2>1. late' = late \/ late' = late \cup {batch}
    BY <1>12 DEF AgentCrash
  <2>2. registered' \in BOOLEAN
    BY <1>12 DEF AgentCrash
  <2>3. crashes' \in Nat
    BY <1>12 DEF AgentCrash, TypeOK
  <2> QED BY <1>12, <2>1, <2>2, <2>3, <1>10 DEF AgentCrash, spoolVars, controllerVars
<1>13. CASE Handle
  <2>1. Ingest(batch) /\ batch \in SUBSET (1..made)
    BY <1>13 DEF Handle, Recorded
  <2>2. UNCHANGED <<made, spool, evicted, pc, registered, batch, late, crashes, up, known, prunes>>
    BY <1>13, <2>1 DEF Handle, spoolVars, Ingest
  <2>3. wire' = "response" /\ rejected' = {o \in batch : Target[o] \notin known}
    BY <1>13 DEF Handle
  <2>4. /\ rows' \subseteq accepted' /\ accepted \subseteq accepted' /\ accepted' \subseteq 1..made
        /\ {o \in batch : Target[o] \in known} \subseteq accepted'
        /\ rows' \in SUBSET Obs
        /\ Watermark' /\ Once'
        /\ counted' \in [Obs -> Nat]
    BY <2>1, IngestStep
  <2>5. Recorded' /\ Confirmed' /\ NothingLost'
    BY <2>2, <2>3, <2>4 DEF Recorded, Confirmed, NothingLost
  <2>6. TypeOK'
    BY <2>2, <2>3, <2>4, RecordedObs DEF TypeOK
  <2> QED BY <2>4, <2>5, <2>6
<1>14. ASSUME NEW b \in late, HandleLate(b) PROVE Invariant'
  <2>1. Ingest(b) /\ b \in SUBSET (1..made)
    BY <1>14 DEF HandleLate, Recorded
  <2>2. UNCHANGED <<made, spool, evicted, pc, registered, batch, wire, rejected, crashes, up, known, prunes>>
    BY <1>14, <2>1 DEF HandleLate, spoolVars, Ingest
  <2>3. late' \subseteq late
    BY <1>14 DEF HandleLate
  <2>4. /\ rows' \subseteq accepted' /\ accepted \subseteq accepted' /\ accepted' \subseteq 1..made
        /\ rows' \in SUBSET Obs
        /\ Watermark' /\ Once'
        /\ counted' \in [Obs -> Nat]
    BY <2>1, IngestStep
  <2>5. Recorded' /\ Confirmed' /\ NothingLost'
    BY <2>2, <2>3, <2>4 DEF Recorded, Confirmed, NothingLost
  <2>6. TypeOK'
    BY <2>2, <2>3, <2>4, RecordedObs DEF TypeOK
  <2> QED BY <2>4, <2>5, <2>6
<1>15. ASSUME NEW b \in late, LoseLate(b) PROVE Invariant'
  BY <1>15, ControllerIdle DEF LoseLate, spoolVars, controllerVars, TypeOK, Recorded, Confirmed, NothingLost
<1>16. ASSUME NEW e \in Learnable, Learn(e) PROVE Invariant'
  <2>1. known' \subseteq Entity
    BY <1>16, DeliveryAssumption DEF Learn, TypeOK
  <2>2. TypeOK'
    BY <1>16, <2>1 DEF Learn, spoolVars, linkVars, TypeOK
  <2> QED BY <1>16, <2>2, ControllerIdle DEF Learn, spoolVars, linkVars, Recorded, Confirmed, NothingLost
<1>17. ASSUME NEW o \in rows, Prune(o) PROVE Invariant'
  <2>1. UNCHANGED <<counted, accepted>> /\ rows' \subseteq rows
    BY <1>17 DEF Prune
  <2>2. Watermark' /\ Once'
    BY <2>1 DEF Watermark, Once, Superseded
  <2>3. TypeOK'
    BY <1>17, <2>1 DEF Prune, spoolVars, linkVars, TypeOK
  <2> QED BY <1>17, <2>1, <2>2, <2>3 DEF Prune, spoolVars, linkVars, Recorded, Confirmed, NothingLost
<1>18. CASE ControllerCrash
  <2>1. TypeOK'
    <3>1. wire' \in {"none", wire} /\ crashes' \in Nat
      BY <1>18 DEF ControllerCrash, TypeOK
    <3>2. up' \in BOOLEAN /\ late' = {}
      BY <1>18 DEF ControllerCrash
    <3>3. UNCHANGED <<made, spool, evicted, pc, registered, batch, rejected, known, rows,
                      counted, accepted, prunes>>
      BY <1>18 DEF ControllerCrash, spoolVars
    <3> QED BY <3>1, <3>2, <3>3 DEF TypeOK
  <2>2. Recorded' /\ Confirmed' /\ NothingLost'
    BY <1>18 DEF ControllerCrash, spoolVars, Recorded, Confirmed, NothingLost
  <2> QED BY <1>18, <2>1, <2>2, ControllerIdle DEF ControllerCrash
<1>19. CASE ControllerStart
  BY <1>19, ControllerIdle DEF ControllerStart, spoolVars, linkVars, TypeOK, Recorded, Confirmed, NothingLost
<1>20. CASE UNCHANGED vars
  BY <1>20, ControllerIdle DEF vars, TypeOK, Recorded, Confirmed, NothingLost
<1> QED
  BY <1>1, <1>2, <1>4, <1>5, <1>6, <1>7, <1>8, <1>9, <1>11, <1>12, <1>13, <1>14, <1>15,
     <1>16, <1>17, <1>18, <1>19, <1>20 DEF Next

\* Holds of every state of every behaviour.
THEOREM Inductive == Spec => []Invariant
<1>1. Init => Invariant
  BY InvariantInit
<1>2. Invariant /\ [Next]_vars => Invariant'
  BY InvariantStep
<1> QED
  BY <1>1, <1>2, PTL DEF Spec

\* TypeOK is an invariant.
THEOREM TypeCorrect == Spec => []TypeOK
<1>1. Invariant => TypeOK
  BY DEF Invariant
<1> QED
  BY <1>1, Inductive, PTL

\* Peek-then-acknowledge loses nothing: a recorded observation the limits have
\* not evicted is in the spool or committed by the controller.
THEOREM NothingLostCorrect == Spec => []NothingLost
<1>1. Invariant => NothingLost
  BY DEF Invariant
<1> QED
  BY <1>1, Inductive, PTL

\* However often a batch is sent, and whatever retention deletes, an observation
\* counts towards hysteresis at most once.
THEOREM CountedOnceCorrect == Spec => []CountedAtMostOnce
<1>1. Invariant => CountedAtMostOnce
  BY DEF Invariant, Once, CountedAtMostOnce
<1> QED
  BY <1>1, Inductive, PTL

-----------------------------------------------------------------------------
(* The spool's limits.                                                     *)

\* A nonempty set of naturals has a least element.
LEMMA LeastOf ==
    ASSUME NEW S \in SUBSET Nat, S # {}
    PROVE  \E m \in S : \A o \in S : m <= o
<1>1. PICK m \in S : \A o \in S : ~(<<o, m>> \in OpToRel(<, Nat))
  BY WFMin, NatLessThanWellFounded
<1>2. \A o \in S : ~(o < m)
  BY <1>1 DEF OpToRel
<1> QED BY <1>2

\* The bytes of a set of rows are what a running sum over all rows arrives at.
RunningSum(S, f) ==
    /\ f \in [0..MaxObs -> Nat] /\ f[0] = 0
    /\ \A n \in 1..MaxObs : f[n] = f[n - 1] + (IF n \in S THEN Size[n] ELSE 0)

\* The bytes of a spool are the last of its running sums.
LEMMA BytesIsSum ==
    ASSUME NEW S
    PROVE  \E f : RunningSum(S, f) /\ Bytes(S) = f[MaxObs]
<1> DEFINE w == [n \in Obs |-> IF n \in S THEN Size[n] ELSE 0]
           F(f) == [n \in 0..MaxObs |-> IF n = 0 THEN 0 ELSE f[n - 1] + (IF n \in S THEN Size[n] ELSE 0)]
           Partial(n) == \E f \in [0..n -> Nat] : f[0] = 0 /\ \A k \in 1..n : f[k] = f[k - 1] + w[k]
           Bad == {n \in 0..MaxObs : ~Partial(n)}
<1>1. w \in [Obs -> Nat] /\ Obs = 1..MaxObs /\ MaxObs \in Nat
  BY DeliveryAssumption DEF Obs
<1>2. \A n \in 1..MaxObs : w[n] = IF n \in S THEN Size[n] ELSE 0
  BY <1>1
<1> HIDE DEF w
<1>3. Bad = {}
  <2> SUFFICES ASSUME Bad # {} PROVE FALSE
    OBVIOUS
  <2>1. PICK m \in Bad : \A o \in Bad : m <= o
    <3>1. Bad \in SUBSET Nat
      BY <1>1
    <3> HIDE DEF Bad
    <3> QED BY <3>1, LeastOf
  <2>2. m \in 0..MaxObs /\ ~Partial(m)
    BY <2>1
  <2>3. m # 0
    <3> SUFFICES Partial(0)
      BY <2>2
    <3> WITNESS [k \in 0..0 |-> 0] \in [0..0 -> Nat]
    <3> QED OBVIOUS
  <2>4. m - 1 \in 0..MaxObs /\ m \in 1..MaxObs
    BY <2>2, <2>3, <1>1
  <2>5. Partial(m - 1)
    <3>1. m - 1 \notin Bad
      <4> HIDE DEF Bad
      <4> QED BY <2>1, <2>2, <1>1
    <3> HIDE DEF Partial
    <3> QED BY <3>1, <2>4
  <2>6. PICK g \in [0..(m - 1) -> Nat] : g[0] = 0 /\ \A k \in 1..(m - 1) : g[k] = g[k - 1] + w[k]
    BY <2>5
  <2> DEFINE h == [k \in 0..m |-> IF k = m THEN g[m - 1] + w[m] ELSE g[k]]
  <2>7. h \in [0..m -> Nat]
    BY <2>4, <2>6, <1>1
  <2>8. h[0] = 0
    BY <2>4, <2>6, <1>1
  <2>9. \A k \in 1..m : h[k] = h[k - 1] + w[k]
    <3> SUFFICES ASSUME NEW k \in 1..m PROVE h[k] = h[k - 1] + w[k]
      OBVIOUS
    <3>1. k \in 0..m /\ k - 1 \in 0..m /\ k - 1 # m /\ h[k - 1] = g[k - 1]
      BY <2>4
    <3>2. CASE k = m
      BY <3>1, <3>2
    <3>3. CASE k # m
      <4>1. k \in 1..(m - 1) /\ h[k] = g[k]
        BY <3>1, <3>3, <2>4
      <4> QED BY <3>1, <4>1, <2>6
    <3> QED BY <3>2, <3>3
  <2> HIDE DEF h
  <2>10. Partial(m)
    BY <2>7, <2>8, <2>9
  <2> QED BY <2>2, <2>10
<1>4. PICK g \in [0..MaxObs -> Nat] : g[0] = 0 /\ \A k \in 1..MaxObs : g[k] = g[k - 1] + w[k]
  <2>1. MaxObs \in 0..MaxObs
    BY <1>1
  <2>2. Partial(MaxObs)
    <3> HIDE DEF Partial
    <3> QED BY <2>1, <1>3
  <2> QED BY <2>2
<1>5. RunningSum(S, g)
  BY <1>2, <1>4 DEF RunningSum
<1>6. g = F(g)
  BY <1>1, <1>2, <1>4
<1> DEFINE sum == CHOOSE f : f = F(f)
<1>7. sum = F(sum)
  <2> HIDE DEF F
  <2> QED BY <1>6
<1>8. Bytes(S) = sum[MaxObs]
  BY DEF Bytes
<1> HIDE DEF sum
<1>9. {n \in 0..MaxObs : sum[n] # g[n]} = {}
  <2> SUFFICES ASSUME {n \in 0..MaxObs : sum[n] # g[n]} # {} PROVE FALSE
    OBVIOUS
  <2>1. PICK m \in {n \in 0..MaxObs : sum[n] # g[n]} :
           \A o \in {n \in 0..MaxObs : sum[n] # g[n]} : m <= o
    <3>1. {n \in 0..MaxObs : sum[n] # g[n]} \in SUBSET Nat
      BY <1>1
    <3> QED BY <3>1, LeastOf
  <2>2. m # 0
    BY <2>1, <1>4, <1>7, <1>1
  <2>3. m - 1 \in 0..MaxObs /\ m \in 1..MaxObs
    BY <2>1, <2>2, <1>1
  <2>4. sum[m - 1] = g[m - 1]
    BY <2>1, <2>3, <1>1
  <2>5. sum[m] = sum[m - 1] + (IF m \in S THEN Size[m] ELSE 0)
    BY <2>3, <1>7, <1>1
  <2> QED BY <2>1, <2>3, <2>4, <2>5, <1>2, <1>4
<1>10. sum[MaxObs] = g[MaxObs]
  <2>1. MaxObs \in 0..MaxObs
    BY <1>1
  <2> QED BY <2>1, <1>9
<1> QED BY <1>5, <1>8, <1>10

\* Fewer rows, no more bytes.
LEMMA BytesMonotone ==
    ASSUME NEW S, NEW T \in SUBSET S
    PROVE  Bytes(S) \in Nat /\ Bytes(T) \in Nat /\ Bytes(T) <= Bytes(S)
<1>1. PICK f : RunningSum(S, f) /\ Bytes(S) = f[MaxObs]
  BY BytesIsSum
<1>2. PICK g : RunningSum(T, g) /\ Bytes(T) = g[MaxObs]
  BY BytesIsSum
<1> DEFINE Bad == {n \in 0..MaxObs : ~(g[n] <= f[n])}
<1>3. MaxObs \in Nat /\ \A n \in 1..MaxObs : Size[n] \in Nat
  BY DeliveryAssumption DEF Obs
<1>4. f \in [0..MaxObs -> Nat] /\ g \in [0..MaxObs -> Nat]
  BY <1>1, <1>2 DEF RunningSum
<1>5. Bad = {}
  <2> SUFFICES ASSUME Bad # {} PROVE FALSE
    OBVIOUS
  <2>1. PICK m \in Bad : \A o \in Bad : m <= o
    <3>1. Bad \in SUBSET Nat
      BY <1>3
    <3> HIDE DEF Bad
    <3> QED BY <3>1, LeastOf
  <2>2. m # 0
    BY <2>1, <1>1, <1>2 DEF RunningSum
  <2>3. m - 1 \in 0..MaxObs /\ m \in 1..MaxObs
    BY <2>1, <2>2, <1>3
  <2>4. g[m - 1] <= f[m - 1]
    BY <2>1, <2>3, <1>3
  <2>5. /\ f[m] = f[m - 1] + (IF m \in S THEN Size[m] ELSE 0)
        /\ g[m] = g[m - 1] + (IF m \in T THEN Size[m] ELSE 0)
    BY <2>3, <1>1, <1>2 DEF RunningSum
  <2>6. f[m - 1] \in Nat /\ g[m - 1] \in Nat /\ Size[m] \in Nat /\ ~(g[m] <= f[m])
    BY <2>1, <2>3, <1>3, <1>4
  <2> QED BY <2>4, <2>5, <2>6
<1>6. g[MaxObs] <= f[MaxObs]
  BY <1>3, <1>5
<1> QED BY <1>1, <1>2, <1>3, <1>4, <1>6

\* An empty spool has no bytes.
LEMMA NoBytes == Bytes({}) = 0
<1>1. PICK f : RunningSum({}, f) /\ Bytes({}) = f[MaxObs]
  BY BytesIsSum
<1> DEFINE Bad == {n \in 0..MaxObs : f[n] # 0}
<1>2. MaxObs \in Nat
  BY DeliveryAssumption
<1>3. Bad = {}
  <2> SUFFICES ASSUME Bad # {} PROVE FALSE
    OBVIOUS
  <2>1. PICK m \in Bad : \A o \in Bad : m <= o
    <3>1. Bad \in SUBSET Nat
      BY <1>2
    <3> HIDE DEF Bad
    <3> QED BY <3>1, LeastOf
  <2>2. m # 0
    BY <2>1, <1>1 DEF RunningSum
  <2>3. m - 1 \in 0..MaxObs /\ m \in 1..MaxObs
    BY <2>1, <2>2, <1>2
  <2>4. f[m - 1] = 0
    BY <2>1, <2>3, <1>2
  <2> QED BY <2>1, <2>3, <2>4, <1>1 DEF RunningSum
<1> QED BY <1>1, <1>2, <1>3

\* The rows evicted before o.
Ahead(o) == {q \in spool : EvictsBefore(q, o)}

\* The spool holds finitely many rows.
LEMMA SpoolFinite ==
    ASSUME spool \in SUBSET Obs
    PROVE  /\ IsFiniteSet(spool) /\ Cardinality(spool) \in Nat
           /\ \A S \in SUBSET spool : IsFiniteSet(S) /\ Cardinality(S) \in Nat
<1>1. IsFiniteSet(Obs)
  BY FS_Interval, DeliveryAssumption DEF Obs
<1>2. IsFiniteSet(spool)
  BY <1>1, FS_Subset
<1>3. ASSUME NEW S \in SUBSET spool PROVE IsFiniteSet(S)
  BY <1>2, FS_Subset
<1> QED BY <1>2, <1>3, FS_CardinalityType

\* What is evicted has no higher priority than what stays.
LEMMA EvictedFirst ==
    ASSUME spool \in SUBSET Obs, NEW n \in Int,
           NEW o \in FirstToEvict(n), NEW q \in spool \ FirstToEvict(n)
    PROVE  Priority[o] <= Priority[q]
<1> SUFFICES ASSUME ~(Priority[o] <= Priority[q]) PROVE FALSE
  OBVIOUS
<1>1. o \in spool /\ Cardinality(Ahead(o)) < n /\ ~(Cardinality(Ahead(q)) < n)
  BY DEF FirstToEvict, Ahead
<1>2. Priority[o] \in Nat /\ Priority[q] \in Nat
  BY <1>1, PriorityNat
<1>3. Ahead(q) \in SUBSET Ahead(o)
  <2> SUFFICES ASSUME NEW x \in spool, EvictsBefore(x, q) PROVE EvictsBefore(x, o)
    BY DEF Ahead
  <2>1. Priority[x] \in Nat
    BY PriorityNat
  <2> QED BY <2>1, <1>2 DEF EvictsBefore
<1>4. Ahead(o) \in SUBSET spool /\ Ahead(q) \in SUBSET spool
  BY DEF Ahead
<1>5. Cardinality(Ahead(q)) <= Cardinality(Ahead(o))
  BY <1>3, <1>4, SpoolFinite, FS_Subset
<1> QED BY <1>1, <1>4, <1>5, SpoolFinite

\* Evicting the first n rows leaves all but n: those ahead of the first that
\* stays, at least n, are all gone.
LEMMA EvictionFits ==
    ASSUME spool \in SUBSET Obs, NEW n \in Nat, n <= Cardinality(spool)
    PROVE  Cardinality(spool \ FirstToEvict(n)) <= Cardinality(spool) - n
<1> DEFINE rest == spool \ FirstToEvict(n)
<1>1. rest \in SUBSET spool
  OBVIOUS
<1>2. CASE rest = {}
  BY <1>2, FS_EmptySet, SpoolFinite
<1>3. CASE rest # {}
  <2> DEFINE least == {Priority[o] : o \in rest}
  <2>1. PICK p \in least : \A r \in least : p <= r
    <3>1. least \in SUBSET Nat /\ least # {}
      BY <1>3, PriorityNat
    <3> HIDE DEF least
    <3> QED BY <3>1, LeastOf
  <2> DEFINE lowest == {o \in rest : Priority[o] = p}
  <2>2. PICK m \in lowest : \A o \in lowest : m <= o
    <3>1. lowest \in SUBSET Nat /\ lowest # {}
      BY <2>1, ObsNat
    <3> HIDE DEF lowest
    <3> QED BY <3>1, LeastOf
  <2>3. m \in rest /\ Priority[m] = p
    BY <2>2
  <2>4. \A o \in rest : ~EvictsBefore(o, m)
    <3> SUFFICES ASSUME NEW o \in rest, EvictsBefore(o, m) PROVE FALSE
      OBVIOUS
    <3>1. Priority[o] \in Nat /\ Priority[m] \in Nat /\ o \in Nat /\ m \in Nat
      BY <2>3, PriorityNat, ObsNat
    <3>2. Priority[m] <= Priority[o]
      BY <2>1, <2>3
    <3>3. Priority[o] = p => m <= o
      BY <2>2
    <3> HIDE DEF rest, lowest, least
    <3> QED BY <3>1, <3>2, <3>3, <2>3 DEF EvictsBefore
  <2>5. Ahead(m) \in SUBSET spool /\ Ahead(m) \cap rest = {}
    BY <2>4 DEF Ahead
  <2>6. ~(Cardinality(Ahead(m)) < n)
    BY <2>3 DEF FirstToEvict, Ahead
  <2>7. rest \in SUBSET (spool \ Ahead(m))
    BY <2>5
  <2> HIDE DEF rest
  <2>8. /\ IsFiniteSet(spool \ Ahead(m))
        /\ Cardinality(spool \ Ahead(m)) = Cardinality(spool) - Cardinality(spool \cap Ahead(m))
    BY FS_Difference, SpoolFinite
  <2>9. spool \cap Ahead(m) = Ahead(m)
    BY <2>5
  <2>10. Cardinality(rest) <= Cardinality(spool \ Ahead(m))
    BY <2>7, <2>8, FS_Subset
  <2>11. Cardinality(rest) \in Nat /\ Cardinality(Ahead(m)) \in Nat /\ Cardinality(spool) \in Nat
    BY <1>1, <2>5, SpoolFinite
  <2>12. Cardinality(rest) <= Cardinality(spool) - n
    BY <2>6, <2>8, <2>9, <2>10, <2>11
  <2> QED BY <2>12 DEF rest
<1> QED BY <1>2, <1>3

\* SpoolBounded, with what holds between the three deletes of an eviction.
Bounded ==
    crashes = 0 =>
        /\ pc \notin {"age", "rows"} => Cardinality(spool) <= MaxRows
        /\ pc \notin {"age", "rows", "bytes"} => Bytes(spool) <= MaxBytes

\* A spool that only shrinks stays within its limits.
LEMMA ShrinkBounded ==
    ASSUME spool \in SUBSET Obs, Bounded, spool' \in SUBSET spool,
           crashes' = 0 => crashes = 0,
           pc \in {"age", "rows"} => pc' \in {"age", "rows"},
           pc \in {"age", "rows", "bytes"} => pc' \in {"age", "rows", "bytes"}
    PROVE  Bounded'
<1>1. Cardinality(spool') <= Cardinality(spool) /\ Cardinality(spool') \in Nat /\ Cardinality(spool) \in Nat
  BY SpoolFinite, FS_Subset
<1>2. Bytes(spool') <= Bytes(spool) /\ Bytes(spool') \in Nat /\ Bytes(spool) \in Nat
  BY BytesMonotone
<1>3. ASSUME crashes' = 0, pc' \notin {"age", "rows"} PROVE Cardinality(spool') <= MaxRows
  BY <1>1, <1>3, DeliveryAssumption DEF Bounded
<1>4. ASSUME crashes' = 0, pc' \notin {"age", "rows", "bytes"} PROVE Bytes(spool') <= MaxBytes
  BY <1>2, <1>4, DeliveryAssumption DEF Bounded
<1>5. Bytes(spool)' = Bytes(spool')
  BY DEF Bytes
<1> QED BY <1>3, <1>4, <1>5 DEF Bounded

\* An empty spool is within its limits.
LEMMA BoundedInit == Init => Bounded
  BY NoBytes, FS_EmptySet, DeliveryAssumption DEF Init, Bounded

\* Every step keeps the spool within its limits or within an eviction.
LEMMA BoundedStep ==
    ASSUME Invariant, Bounded, [Next]_vars
    PROVE  Bounded'
<1>1. spool \in SUBSET Obs /\ crashes \in Nat
  BY DEF Invariant, TypeOK
<1>2. ASSUME NEW n \in 1..MaxObs, Push(n) PROVE Bounded'
  BY <1>2 DEF Push, Bounded
<1>3. CASE EvictAged
  BY <1>3 DEF EvictAged, Evict, Bounded
<1>4. CASE EvictRows
  <2>1. /\ pc' = "bytes" /\ spool' = spool \ FirstToEvict(Cardinality(spool) - MaxRows)
    BY <1>4 DEF EvictRows, Evict
  <2>2. Cardinality(spool) \in Nat /\ MaxRows \in Nat
    BY <1>1, SpoolFinite, DeliveryAssumption
  <2>3. Cardinality(spool') <= MaxRows
    <3>1. CASE Cardinality(spool) <= MaxRows
      <4>1. Cardinality(spool') <= Cardinality(spool) /\ Cardinality(spool') \in Nat
        BY <1>1, <2>1, SpoolFinite, FS_Subset
      <4> QED BY <3>1, <4>1, <2>2
    <3>2. CASE ~(Cardinality(spool) <= MaxRows)
      <4> DEFINE n == Cardinality(spool) - MaxRows
      <4>1. n \in Nat /\ n <= Cardinality(spool) /\ Cardinality(spool) - n = MaxRows
        BY <3>2, <2>2
      <4>2. spool' = spool \ FirstToEvict(n)
        BY <2>1
      <4> HIDE DEF n
      <4> QED BY <4>1, <4>2, <1>1, EvictionFits
    <3> QED BY <3>1, <3>2
  <2> QED BY <2>1, <2>3 DEF Bounded
<1>5. CASE EvictBytes
  <2>1. CASE Bytes(spool) > MaxBytes
    <3>1. pc = "bytes" /\ pc' = "bytes" /\ spool' \in SUBSET spool /\ crashes' = crashes
      BY <1>5, <2>1 DEF EvictBytes, Evict
    <3> QED BY <3>1, <1>1, ShrinkBounded
  <2>2. CASE ~(Bytes(spool) > MaxBytes)
    <3>1. pc = "bytes" /\ pc' = "flush" /\ spool' = spool /\ crashes' = crashes
      BY <1>5, <2>2 DEF EvictBytes, Evict
    <3>2. Bytes(spool) <= MaxBytes
      BY <2>2, BytesMonotone, DeliveryAssumption
    <3>3. Bytes(spool)' = Bytes(spool)
      BY <3>1 DEF Bytes
    <3> QED BY <3>1, <3>2, <3>3 DEF Bounded
  <2> QED BY <2>1, <2>2
<1>6. CASE AgentCrash \/ ControllerCrash
  <2>1. crashes' # 0
    BY <1>1, <1>6 DEF AgentCrash, ControllerCrash
  <2> QED BY <2>1 DEF Bounded
<1>7. CASE Register \/ StartFlush
  BY <1>1, <1>7, ShrinkBounded DEF Register, StartFlush, spoolVars
<1>8. CASE Peek \/ Receive \/ GiveUp
  BY <1>1, <1>8, ShrinkBounded DEF Peek, Receive, GiveUp, spoolVars
<1>9. CASE Handle \/ \E b \in late : HandleLate(b) \/ LoseLate(b)
  BY <1>1, <1>9, ShrinkBounded DEF Handle, HandleLate, LoseLate, spoolVars
<1>10. CASE ControllerStart \/ (\E e \in Learnable : Learn(e)) \/ \E o \in rows : Prune(o)
  BY <1>1, <1>10, ShrinkBounded DEF ControllerStart, Learn, Prune, spoolVars
<1>11. CASE UNCHANGED vars
  BY <1>1, <1>11, ShrinkBounded DEF vars
<1> QED BY <1>2, <1>3, <1>4, <1>5, <1>6, <1>7, <1>8, <1>9, <1>10, <1>11 DEF Next

\* The spool is within its row and byte limits whenever no eviction is under way,
\* for every limit and every size of row: Spool::evict frees enough.
THEOREM SpoolIsBounded == Spec => []SpoolBounded
<1>1. Invariant /\ Bounded /\ [Next]_vars => Bounded'
  BY BoundedStep
<1>2. Bounded => SpoolBounded
  BY DEF Bounded, SpoolBounded
<1> QED BY <1>1, <1>2, BoundedInit, Inductive, PTL DEF Spec

\* The row and byte limits drop no row while they keep one of lower priority.
THEOREM ImportantLast == Spec => ImportantEvictedLast
<1> DEFINE Kept == (pc \in {"rows", "bytes"}) =>
                      \A o \in spool \ spool', q \in spool' : Priority[o] <= Priority[q]
<1>1. ASSUME Invariant, [Next]_vars PROVE [Kept]_vars
  <2> SUFFICES ASSUME Next, pc \in {"rows", "bytes"},
                      NEW o \in spool \ spool', NEW q \in spool'
               PROVE  Priority[o] <= Priority[q]
    BY <1>1
  <2>1. spool \in SUBSET Obs
    BY <1>1 DEF Invariant, TypeOK
  <2>2. \E n \in Int : spool' = spool \ FirstToEvict(n)
    <3>1. CASE EvictRows
      <4>1. Cardinality(spool) - MaxRows \in Int
        BY <2>1, SpoolFinite, DeliveryAssumption
      <4> QED BY <3>1, <4>1 DEF EvictRows, Evict
    <3>2. CASE EvictBytes
      <4>1. spool' = spool \ FirstToEvict(Chunk)
        BY <3>2 DEF EvictBytes, Evict
      <4> QED BY <4>1, DeliveryAssumption
    <3>3. spool' # spool
      OBVIOUS
    <3>4. CASE \E n \in 1..MaxObs : Push(n)
      BY <3>4 DEF Push
    <3>5. CASE EvictAged \/ Receive
      BY <3>5 DEF EvictAged, Receive
    <3>6. CASE Register \/ StartFlush \/ Peek \/ GiveUp \/ AgentCrash
      BY <3>3, <3>6 DEF Register, StartFlush, Peek, GiveUp, AgentCrash, spoolVars
    <3>7. CASE Handle \/ (\E b \in late : HandleLate(b) \/ LoseLate(b)) \/ \E e \in Learnable : Learn(e)
      BY <3>3, <3>7 DEF Handle, HandleLate, LoseLate, Learn, spoolVars
    <3>8. CASE (\E r \in rows : Prune(r)) \/ ControllerCrash \/ ControllerStart
      BY <3>3, <3>8 DEF Prune, ControllerCrash, ControllerStart, spoolVars
    <3> QED BY <3>1, <3>2, <3>4, <3>5, <3>6, <3>7, <3>8 DEF Next
  <2>3. PICK n \in Int : spool' = spool \ FirstToEvict(n)
    BY <2>2
  <2>4. o \in FirstToEvict(n) /\ q \in spool \ FirstToEvict(n)
    BY <2>3
  <2> QED BY <2>1, <2>4, EvictedFirst
<1> QED BY <1>1, Inductive, PTL DEF Spec, ImportantEvictedLast

-----------------------------------------------------------------------------
(* The delivery contract.                                                  *)

\* Under way: in the spool or in a request the controller may still commit.
UnderWay(o) == o \in spool \/ (wire = "request" /\ o \in batch) \/ o \in UNION late

\* An agent that starts has promised nothing yet.
LEMMA ContractInit == Init => Contract!CInit
  BY DEF Init, Contract!CInit, DeliveryStatus, Obs

\* What the contract needs to know of a step.
Lawful ==
    /\ \A o \in Obs : o > made' => o > made
    /\ accepted \subseteq accepted'
    /\ \A o \in Obs : (o \in accepted' /\ o \notin accepted) => o <= made /\ UnderWay(o)
    /\ \A o \in Obs : (o <= made /\ UnderWay(o)') => UnderWay(o)
    /\ \A o \in Obs : (o > made /\ o <= made') => (o \notin accepted' /\ UnderWay(o)')
    /\ \A o \in Obs :
          \/ counted'[o] = counted[o]
          \/ /\ counted'[o] = counted[o] + 1
             /\ o <= made /\ o \notin accepted /\ o \in accepted' /\ UnderWay(o)

\* What a step does to the spool and the store, as the contract sees it.
LEMMA LawfulStep ==
    ASSUME Invariant, [Next]_vars
    PROVE  Lawful
<1> USE DEF Invariant
<1>0. made \in Nat /\ Obs \subseteq Nat /\ \A o \in 1..made : o <= made
  BY ObsNat, DeliveryAssumption DEF TypeOK
<1>1. ASSUME UNCHANGED <<made, accepted, counted>>,
             \A o \in Obs : UnderWay(o)' => UnderWay(o)
      PROVE  Lawful
  BY <1>0, <1>1 DEF Lawful
<1>2. ASSUME NEW n \in 1..MaxObs, Push(n) PROVE Lawful
  <2>1. /\ made' = made + n /\ made' \in Nat
        /\ spool' = spool \cup (made + 1)..(made + n)
        /\ UNCHANGED <<wire, batch, late, accepted, counted>>
    BY <1>2, <1>0 DEF Push, linkVars, controllerVars
  <2>2. \A o \in Obs : (o <= made /\ UnderWay(o)') => UnderWay(o)
    BY <2>1, <1>0 DEF UnderWay
  <2>3. \A o \in Obs : (o > made /\ o <= made') => (o \notin accepted' /\ UnderWay(o)')
    BY <2>1, <1>0 DEF UnderWay, Recorded
  <2> QED BY <2>1, <2>2, <2>3, <1>0 DEF Lawful
<1>3. ASSUME NEW b \in SUBSET (1..made), Ingest(b),
             \A o \in b : UnderWay(o),
             UNCHANGED made,
             \A o \in Obs : UnderWay(o)' => UnderWay(o)
      PROVE  Lawful
  <2>1. /\ accepted' = accepted \cup ({o \in b : Target[o] \in known} \ rows)
        /\ \A o \in Obs :
              \/ counted'[o] = counted[o]
              \/ /\ counted'[o] = counted[o] + 1
                 /\ o \in b /\ o \notin accepted /\ o \in accepted'
    BY <1>3, IngestStep
  <2>2. \A o \in b : o <= made /\ UnderWay(o)
    BY <1>3, <1>0
  <2> QED BY <1>3, <2>1, <2>2, <1>0 DEF Lawful
<1>4. CASE Register
  BY <1>4, <1>1 DEF Register, spoolVars, linkVars, controllerVars, UnderWay
<1>5. CASE EvictAged \/ EvictRows \/ EvictBytes
  <2>1. \E S \in SUBSET spool, next \in {"rows", "bytes", "flush"} : Evict(S, next)
    BY <1>5 DEF EvictAged, EvictRows, EvictBytes, FirstToEvict
  <2> QED BY <2>1, <1>1 DEF Evict, linkVars, controllerVars, UnderWay
<1>6. CASE StartFlush
  BY <1>6, <1>1 DEF StartFlush, spoolVars, linkVars, controllerVars, UnderWay
<1>7. CASE Peek
  <2>1. /\ UNCHANGED <<made, spool, late, accepted, counted>>
        /\ \/ batch' \subseteq spool
           \/ UNCHANGED <<batch, wire>>
    BY <1>7 DEF Peek, FirstToReplay, spoolVars, controllerVars
  <2> QED BY <2>1, <1>1 DEF UnderWay
<1>8. CASE Receive
  BY <1>8, <1>1 DEF Receive, controllerVars, UnderWay
<1>9. CASE GiveUp \/ AgentCrash
  <2>1. /\ UNCHANGED <<made, spool, accepted, counted>>
        /\ wire' = "none"
        /\ late' = late \/ (wire = "request" /\ late' = late \cup {batch})
    BY <1>9 DEF GiveUp, AgentCrash, spoolVars, controllerVars
  <2>2. \A o : o \in UNION late' => o \in UNION late \/ (wire = "request" /\ o \in batch)
    BY <2>1
  <2> QED BY <2>1, <2>2, <1>1 DEF UnderWay
<1>10. CASE Handle
  <2>1. /\ Ingest(batch) /\ wire = "request" /\ batch \in SUBSET (1..made)
        /\ UNCHANGED <<made, spool, batch, late>> /\ wire' = "response"
    BY <1>10 DEF Handle, Recorded, spoolVars
  <2> QED BY <2>1, <1>3 DEF UnderWay
<1>11. ASSUME NEW b \in late, HandleLate(b) PROVE Lawful
  <2>1. /\ Ingest(b) /\ b \in SUBSET (1..made)
        /\ UNCHANGED <<made, spool, batch, wire>> /\ late' \subseteq late
    BY <1>11 DEF HandleLate, Recorded, spoolVars
  <2>2. \A o \in b : o \in UNION late
    BY <1>11
  <2>3. UNION late' \subseteq UNION late
    BY <2>1
  <2> QED BY <2>1, <2>2, <2>3, <1>3 DEF UnderWay
<1>12. ASSUME NEW b \in late, LoseLate(b) PROVE Lawful
  <2>1. /\ UNCHANGED <<made, spool, batch, wire, accepted, counted>> /\ late' \subseteq late
    BY <1>12 DEF LoseLate, spoolVars, controllerVars
  <2>2. UNION late' \subseteq UNION late
    BY <2>1
  <2> QED BY <2>1, <2>2, <1>1 DEF UnderWay
<1>13. ASSUME NEW e \in Learnable, Learn(e) PROVE Lawful
  BY <1>13, <1>1 DEF Learn, spoolVars, linkVars, UnderWay
<1>14. ASSUME NEW o \in rows, Prune(o) PROVE Lawful
  BY <1>14, <1>1 DEF Prune, spoolVars, linkVars, UnderWay
<1>15. CASE ControllerCrash
  <2>1. /\ UNCHANGED <<made, spool, batch, accepted, counted>> /\ late' = {}
        /\ wire' = "request" => wire = "request"
    BY <1>15 DEF ControllerCrash, spoolVars
  <2> QED BY <2>1, <1>1 DEF UnderWay
<1>16. CASE ControllerStart
  BY <1>16, <1>1 DEF ControllerStart, spoolVars, linkVars, UnderWay
<1>17. CASE UNCHANGED vars
  BY <1>17, <1>1 DEF vars, UnderWay
<1> QED
  BY <1>2, <1>4, <1>5, <1>6, <1>7, <1>8, <1>9, <1>10, <1>11, <1>12, <1>13, <1>14, <1>15,
     <1>16, <1>17 DEF Next

\* Every step is a step of the contract or changes nothing it sees.
LEMMA ContractStep ==
    ASSUME Invariant, [Next]_vars
    PROVE  Contract!CNext
<1>1. Lawful
  BY LawfulStep
<1>2. \A o \in Obs : DeliveryStatus(o) =
         IF o > made THEN "unborn" ELSE IF o \in accepted THEN "delivered"
         ELSE IF UnderWay(o) THEN "waiting" ELSE "dropped"
  BY DEF DeliveryStatus, UnderWay
<1>3. \A o \in Obs : DeliveryStatus(o)' =
         IF o > made' THEN "unborn" ELSE IF o \in accepted' THEN "delivered"
         ELSE IF UnderWay(o)' THEN "waiting" ELSE "dropped"
  BY DEF DeliveryStatus, UnderWay
<1>4. made \in Nat /\ made' \in Nat /\ Obs \subseteq Nat
  BY InvariantStep, ObsNat, DeliveryAssumption DEF Invariant, TypeOK
<1>5. ASSUME NEW o \in Obs
      PROVE  /\ DeliveryStatus(o)' = DeliveryStatus(o) \/ <<DeliveryStatus(o), DeliveryStatus(o)'>> \in Contract!CMoves
             /\ \/ counted'[o] = counted[o]
                \/ /\ counted'[o] = counted[o] + 1
                   /\ DeliveryStatus(o) = "waiting" /\ DeliveryStatus(o)' = "delivered"
  <2>1. CASE o > made'
    BY <1>1, <1>2, <1>3, <1>4, <2>1 DEF Lawful
  <2>2. CASE o > made /\ o <= made'
    BY <1>1, <1>2, <1>3, <1>4, <2>2 DEF Lawful, Contract!CMoves
  <2>3. CASE o <= made /\ o <= made'
    BY <1>1, <1>2, <1>3, <1>4, <2>3 DEF Lawful, Contract!CMoves
  <2> QED BY <2>1, <2>2, <2>3, <1>4
<1> QED
  BY <1>5 DEF Contract!CNext

\* The agent, the network and the controller implement the delivery contract.
THEOREM Refinement == Spec => ImplementsContract
<1>1. Init => Contract!CInit
  BY ContractInit
<1>2. Invariant /\ [Next]_vars => [Contract!CNext]_(Contract!cvars)
  BY ContractStep
<1> QED
  BY <1>1, <1>2, Inductive, PTL DEF Spec, ImplementsContract, Contract!CSpec
=============================================================================
