-------------------------- MODULE StateEngineProofs --------------------------
(***************************************************************************)
(* Proofs about StateEngine for every set of probes, observers and         *)
(* components, every debounce policy and every horizon.                    *)
(*                                                                         *)
(* The argument goes through the operations on engines, not through the    *)
(* actions: Recomputed re-establishes the fold for the components it       *)
(* touches, the frame lemma carries it for the others, and Ingested,       *)
(* Expired and Configured are each shown to keep an engine SOUND.  A last  *)
(* part couples each stream with the log of its measurements, which is     *)
(* how the debouncer's counters are compared with the whole history.       *)
(***************************************************************************)
EXTENDS StateEngineHistory, TLAPS

\* Most steps are first-order: Zenon, unless a step says otherwise.
USE Zenon

\* What the debouncer guarantees of one stream: an expired stream is Unknown with
\* its counters cleared; the shown health is the verdict, capped only from
\* Unavailable to Degraded; a warning run has already degraded the verdict.
SoundStream(s, p) ==
    /\ s.expired => s.seen /\ s.health = "Unknown" /\ s.verdict = "Unknown"
                           /\ s.failures = 0 /\ s.successes = 0
    /\ s.verdict # "Unavailable" => s.health = s.verdict
    /\ s.verdict = "Unavailable" => s.health \in {"Degraded", "Unavailable"}
    /\ s.failures >= Policy[p].warning => s.verdict \in {"Degraded", "Unavailable"}

Sound(stream) == \A k \in Key : SoundStream(stream[k], k[1])

-----------------------------------------------------------------------------
(* The rank order and the fold.                                            *)

\* Worst returns the most severe member of a nonempty set of healths.
LEMMA WorstIsWorst ==
    ASSUME NEW S, S \subseteq Health, S # {}
    PROVE  Worst(S) \in S /\ \A g \in S : Rank[g] <= Rank[Worst(S)]
<1>1. \E h \in S : \A g \in S : Rank[g] <= Rank[h]
  <2>1. CASE "Unavailable" \in S
    BY SMT, <2>1 DEF Health, Rank
  <2>2. CASE "Unavailable" \notin S /\ "Degraded" \in S
    BY SMT, <2>2 DEF Health, Rank
  <2>3. CASE "Unavailable" \notin S /\ "Degraded" \notin S /\ "Unknown" \in S
    BY SMT, <2>3 DEF Health, Rank
  <2>4. CASE S \subseteq {"NotApplicable", "Healthy", "Maintenance"} /\ "Maintenance" \in S
    BY SMT, <2>4 DEF Health, Rank
  <2>5. CASE S \subseteq {"NotApplicable", "Healthy"} /\ "Healthy" \in S
    BY SMT, <2>5 DEF Health, Rank
  <2>6. CASE S \subseteq {"NotApplicable"}
    BY SMT, <2>6 DEF Health, Rank
  <2> QED
    BY <2>1, <2>2, <2>3, <2>4, <2>5, <2>6 DEF Health
<1> QED
  BY <1>1 DEF Worst

\* A component's combined health is the health of one of its contributors, and
\* no contributor is worse.
LEMMA CombinedIsWorst ==
    ASSUME NEW e \in Engine, NEW c \in Component
    PROVE  /\ Combined(e, c) \in Health
           /\ Contributors(e, c) = {} => Combined(e, c) = "NotApplicable"
           /\ Contributors(e, c) # {} =>
                  \E k \in Contributors(e, c) : Combined(e, c) = e.stream[k].health
           /\ \A k \in Contributors(e, c) : Rank[e.stream[k].health] <= Rank[Combined(e, c)]
<1> DEFINE votes == {e.stream[k].health : k \in Contributors(e, c)}
<1>1. \A k \in Contributors(e, c) : e.stream[k] \in Stream
  BY DEF Contributors, Engine
<1>2. votes \subseteq Health
  BY <1>1 DEF Stream
<1>3. CASE votes = {}
  BY <1>3 DEF Combined, Health
<1>4. CASE votes # {}
  <2>1. Combined(e, c) = Worst(votes)
    BY <1>4 DEF Combined
  <2> HIDE DEF votes
  <2>2. Worst(votes) \in votes /\ \A g \in votes : Rank[g] <= Rank[Worst(votes)]
    BY <1>2, <1>4, WorstIsWorst
  <2> QED
    BY <1>2, <1>4, <2>1, <2>2 DEF votes
<1> QED
  BY <1>3, <1>4
\* Two engines that agree on the streams and the switches of a component agree
\* on its combined health.
LEMMA CombinedFrame ==
    ASSUME NEW e \in Engine, NEW f \in Engine, NEW c \in Component,
           \A k \in Key : Feeds[k[1]] = c =>
               /\ f.stream[k] = e.stream[k]
               /\ k[1] \in f.disabled <=> k[1] \in e.disabled
    PROVE  /\ Combined(f, c) = Combined(e, c)
           /\ HasStream(f.stream, c) <=> HasStream(e.stream, c)
<1>1. Contributors(f, c) = Contributors(e, c)
  <2>1. ASSUME NEW k \in Key, Feeds[k[1]] = c, NEW o \in Observer
        PROVE  f.stream[<<k[1], o>>] = e.stream[<<k[1], o>>]
    BY <2>1 DEF Key
  <2> QED
    BY SMT, <2>1 DEF Contributors
<1>2. \A k \in Contributors(e, c) : f.stream[k].health = e.stream[k].health
  BY DEF Contributors
<1>3. {f.stream[k].health : k \in Contributors(f, c)} = {e.stream[k].health : k \in Contributors(e, c)}
  BY <1>1, <1>2
<1>4. Combined(f, c) = Combined(e, c)
  BY <1>3 DEF Combined
<1> QED
  BY <1>4 DEF HasStream

\* What Recomputed does to an engine: it writes the fold into the named
\* components and touches nothing else.
LEMMA RecomputedEffect ==
    ASSUME NEW e \in Engine, NEW C \in SUBSET Component
    PROVE  LET f == Recomputed(e, C) IN
           /\ f \in Engine
           /\ f.stream = e.stream /\ f.disabled = e.disabled
           /\ \A c \in Component :
                 /\ Combined(f, c) = Combined(e, c)
                 /\ f.comp[c] = IF c \in C THEN Combined(f, c) ELSE e.comp[c]
<1> DEFINE f == Recomputed(e, C)
<1>1. /\ f.stream = e.stream /\ f.disabled = e.disabled
      /\ f.comp = [c \in Component |-> IF c \in C THEN Combined(e, c) ELSE e.comp[c]]
  BY DEF Recomputed, Engine
<1>2. \A c \in Component : Combined(e, c) \in Health
  BY CombinedIsWorst
<1>3. f.comp \in [Component -> Slot]
  BY SMT, <1>1, <1>2 DEF Engine, Slot
<1>4. f \in Engine
  BY <1>3 DEF Recomputed, Engine
<1>5. \A c \in Component : Combined(f, c) = Combined(e, c)
  <2> HIDE DEF f
  <2> QED BY <1>1, <1>4, CombinedFrame
<1> QED
  BY <1>1, <1>4, <1>5

-----------------------------------------------------------------------------
(* One stream.                                                             *)

\* Saturating increment stays in range.
LEMMA BumpRange ==
    ASSUME NEW n \in 0..MaxCount
    PROVE  Bump(n) \in 1..MaxCount /\ Bump(n) >= n /\ Bump(n) <= n + 1
BY SMT, CountAssumption DEF Bump

\* Feeding a stream one measurement keeps it sound, and makes it Unavailable
\* only if it was Degraded or Unavailable (where warnings precede outages).
LEMMA MeasuredSound ==
    ASSUME NEW p \in Probe, NEW s \in Stream, s.seen, ~s.expired, SoundStream(s, p),
           NEW status \in {"Ok", "Degraded", "Failed"}
    PROVE  LET m == Measured(p, s, status) IN
           /\ m \in Stream
           /\ m.seen /\ ~m.expired /\ m.finished_at = s.finished_at
           /\ SoundStream(m, p)
           /\ (Policy[p].warning < Policy[p].critical /\ m.health = "Unavailable")
                 => s.health \in {"Degraded", "Unavailable"}
<1> DEFINE failures  == IF status = "Ok" THEN 0 ELSE Bump(s.failures)
           successes == IF status = "Ok" THEN Bump(s.successes) ELSE 0
           verdict   == NextVerdict(p, s.verdict, failures, successes)
           m         == Measured(p, s, status)
<1>1. failures \in 0..MaxCount /\ successes \in 0..MaxCount
  BY SMT, BumpRange, CountAssumption DEF Stream
<1>2. Policy[p] \in DebouncePolicy
  BY PolicyAssumption
<1>3. /\ Policy[p].warning \in 1..MaxCount /\ Policy[p].critical \in 1..MaxCount
      /\ Policy[p].recovery \in 1..MaxCount
  BY <1>2 DEF DebouncePolicy
<1>4. failures <= s.failures + 1 /\ s.failures \in 0..MaxCount
  BY SMT, BumpRange, CountAssumption DEF Stream
<1>5. s.verdict \in Health /\ s.health \in Health
  BY DEF Stream
<1>6. /\ verdict \in Health
      /\ failures >= Policy[p].warning => verdict \in {"Degraded", "Unavailable"}
      /\ (Policy[p].warning < Policy[p].critical /\ verdict = "Unavailable")
            => s.verdict \in {"Degraded", "Unavailable"}
  <2>1. MaxCount \in Nat
    BY CountAssumption
  <2> HIDE DEF failures, successes
  <2>2. /\ verdict \in Health
        /\ failures >= Policy[p].warning => verdict \in {"Degraded", "Unavailable"}
    BY <1>1, <1>3, <1>5, <2>1 DEF NextVerdict, Health
  <2>3. ASSUME Policy[p].warning < Policy[p].critical, verdict = "Unavailable"
        PROVE  s.verdict \in {"Degraded", "Unavailable"}
    <3>1. CASE s.verdict = "Unavailable"
      BY <3>1
    <3>2. CASE s.verdict # "Unavailable"
      <4>1. failures >= Policy[p].critical
        BY <2>3, <3>2 DEF NextVerdict
      <4>2. s.failures >= Policy[p].warning
        BY SMT, <1>1, <1>3, <1>4, <2>1, <2>3, <4>1
      <4> QED
        BY <4>2 DEF SoundStream
    <3> QED
      BY <3>1, <3>2
  <2> QED
    BY <2>2, <2>3
<1>7. /\ m = [s EXCEPT !.failures = failures, !.successes = successes,
                       !.verdict = verdict, !.health = Cap(verdict, status)]
  BY DEF Measured
<1>8. /\ Cap(verdict, status) \in Health
      /\ verdict # "Unavailable" => Cap(verdict, status) = verdict
      /\ verdict = "Unavailable" => Cap(verdict, status) \in {"Degraded", "Unavailable"}
      /\ Cap(verdict, status) = "Unavailable" => verdict = "Unavailable"
  BY <1>6 DEF Cap, Health
<1> HIDE DEF failures, successes, verdict, m
<1>9. /\ m \in Stream /\ m.seen /\ ~m.expired /\ m.finished_at = s.finished_at
      /\ m.failures = failures /\ m.verdict = verdict /\ m.health = Cap(verdict, status)
  BY <1>1, <1>6, <1>7, <1>8 DEF Stream
<1>10. SoundStream(m, p)
  BY <1>6, <1>8, <1>9 DEF SoundStream
<1>11. s.verdict \in {"Degraded", "Unavailable"} => s.health \in {"Degraded", "Unavailable"}
  BY DEF SoundStream
<1> QED
  BY <1>6, <1>8, <1>9, <1>10, <1>11 DEF m

\* Forcing a stream to Unknown or NotApplicable keeps it sound.
LEMMA ForcedSound ==
    ASSUME NEW p \in Probe, NEW s \in Stream, s.seen, ~s.expired,
           NEW h \in {"Unknown", "NotApplicable"}
    PROVE  LET m == Forced(s, h) IN
           /\ m \in Stream
           /\ m.seen /\ ~m.expired /\ m.finished_at = s.finished_at /\ m.health = h
           /\ m.verdict = h /\ m.failures = 0 /\ m.successes = 0
           /\ SoundStream(m, p)
<1> DEFINE m == Forced(s, h)
<1>1. Policy[p].warning > 0 /\ 0 \in 0..MaxCount
  BY SMT, PolicyAssumption, CountAssumption DEF DebouncePolicy
<1>2. h \in Health
  BY DEF Health
<1>3. m \in Stream
  BY <1>1, <1>2 DEF Forced, Stream
<1>4. /\ m.seen /\ ~m.expired /\ m.finished_at = s.finished_at /\ m.health = h
      /\ m.verdict = h /\ m.failures = 0 /\ m.successes = 0
  BY DEF Forced, Stream
<1> HIDE DEF m
<1>5. SoundStream(m, p)
  BY SMT, <1>1, <1>4, PolicyAssumption, CountAssumption DEF SoundStream, DebouncePolicy
<1> QED
  BY <1>3, <1>4, <1>5 DEF m

\* An answer of any status keeps the stream sound, with the same proviso.
LEMMA AnsweredSound ==
    ASSUME NEW p \in Probe, NEW s \in Stream, s.seen, ~s.expired, SoundStream(s, p),
           NEW status \in Status
    PROVE  LET m == Answered(p, s, status) IN
           /\ m \in Stream
           /\ m.seen /\ ~m.expired /\ m.finished_at = s.finished_at
           /\ SoundStream(m, p)
           /\ (Policy[p].warning < Policy[p].critical /\ m.health = "Unavailable")
                 => s.health \in {"Degraded", "Unavailable"}
<1>1. CASE status = "Unsupported"
  <2>1. Answered(p, s, status) = Forced(s, "Unknown")
    BY <1>1 DEF Answered
  <2> QED
    BY SMT, <2>1, ForcedSound
<1>2. CASE status = "NotApplicable"
  <2>1. Answered(p, s, status) = Forced(s, "NotApplicable")
    BY <1>2 DEF Answered
  <2> QED
    BY SMT, <2>1, ForcedSound
<1>3. CASE status \in {"Ok", "Degraded", "Failed"}
  <2>1. Answered(p, s, status) = Measured(p, s, status)
    BY <1>3 DEF Answered
  <2> QED
    BY SMT, <1>3, <2>1, MeasuredSound
<1> QED
  BY <1>1, <1>2, <1>3 DEF Status

\* Silencing a stream keeps it sound.
LEMMA SilencedSound ==
    ASSUME NEW p \in Probe, NEW s \in Stream, s.seen
    PROVE  /\ Silenced(s) \in Stream
           /\ Silenced(s).seen /\ Silenced(s).finished_at = s.finished_at
           /\ Silenced(s).health = "Unknown"
           /\ SoundStream(Silenced(s), p)
<1> DEFINE m == Silenced(s)
<1>1. Policy[p].warning > 0 /\ 0 \in 0..MaxCount
  BY SMT, PolicyAssumption, CountAssumption DEF DebouncePolicy
<1>2. m \in Stream
  BY <1>1 DEF Silenced, Forced, Stream, Health
<1>3. /\ m.seen /\ m.expired /\ m.finished_at = s.finished_at /\ m.health = "Unknown"
      /\ m.verdict = "Unknown" /\ m.failures = 0 /\ m.successes = 0
  BY DEF Silenced, Forced, Stream
<1> HIDE DEF m
<1>4. SoundStream(m, p)
  BY SMT, <1>1, <1>3, PolicyAssumption, CountAssumption DEF SoundStream, DebouncePolicy
<1> QED
  BY <1>2, <1>3, <1>4 DEF m

-----------------------------------------------------------------------------
(* The engine's operations.                                                *)

\* If an operation changes streams, switches and rows only of the components it
\* recomputes, and those have streams, the fold holds afterwards.
LEMMA FoldAfter ==
    ASSUME NEW e \in Engine, IsFold(e), NEW g \in Engine, NEW C \in SUBSET Component,
           \A c \in C : HasStream(g.stream, c),
           \A c \in Component \ C :
               /\ g.comp[c] = e.comp[c]
               /\ \A k \in Key : Feeds[k[1]] = c =>
                     /\ g.stream[k] = e.stream[k]
                     /\ k[1] \in g.disabled <=> k[1] \in e.disabled
    PROVE  IsFold(Recomputed(g, C))
<1> DEFINE f == Recomputed(g, C)
<1>1. /\ f.stream = g.stream
      /\ \A c \in Component : /\ Combined(f, c) = Combined(g, c)
                              /\ f.comp[c] = IF c \in C THEN Combined(f, c) ELSE g.comp[c]
  BY SMT, RecomputedEffect
<1> HIDE DEF f
<1>2. ASSUME NEW c \in Component
      PROVE  IF HasStream(f.stream, c) THEN f.comp[c] = Combined(f, c) ELSE f.comp[c] = "Absent"
  <2>1. CASE c \in C
    BY <1>1, <2>1
  <2>2. CASE c \notin C
    <3>1. /\ Combined(g, c) = Combined(e, c)
          /\ HasStream(g.stream, c) <=> HasStream(e.stream, c)
      BY <2>2, CombinedFrame
    <3> QED
      BY <1>1, <2>2, <3>1 DEF IsFold
  <2> QED
    BY <2>1, <2>2
<1> QED
  BY <1>2 DEF IsFold, f

\* If every voting Unavailable stream of a component was a voting Degraded or Unavailable one,
\* the component, if Unavailable, was Degraded or Unavailable.
LEMMA OutageFrame ==
    ASSUME NEW e \in Engine, IsFold(e), Sound(e.stream),
           NEW f \in Engine, IsFold(f), NEW c \in Component, f.comp[c] = "Unavailable",
           \A k \in Key :
               (Feeds[k[1]] = c /\ f.stream[k].seen /\ k[1] \notin f.disabled
                    /\ f.stream[k].health = "Unavailable")
               => /\ e.stream[k].seen /\ k[1] \notin e.disabled
                  /\ e.stream[k].health \in {"Degraded", "Unavailable"}
    PROVE  e.comp[c] \in {"Degraded", "Unavailable"}
<1>1. Combined(f, c) = "Unavailable"
  BY DEF IsFold
<1>2. PICK k \in Contributors(f, c) : f.stream[k].health = "Unavailable"
  BY <1>1, CombinedIsWorst
<1>3. /\ k \in Key /\ Feeds[k[1]] = c /\ e.stream[k].seen /\ k[1] \notin e.disabled
      /\ e.stream[k].health \in {"Degraded", "Unavailable"}
  BY <1>2 DEF Contributors
<1>4. ~e.stream[k].expired
  BY <1>3 DEF Sound, SoundStream
<1>5. k \in Contributors(e, c) /\ HasStream(e.stream, c)
  BY <1>3, <1>4 DEF Contributors, HasStream
<1>6. Rank[e.stream[k].health] <= Rank[Combined(e, c)] /\ Combined(e, c) \in Health
  BY <1>5, CombinedIsWorst
<1>7. Combined(e, c) \in {"Degraded", "Unavailable"}
  BY SMT, <1>3, <1>6 DEF Rank, Health
<1> QED
  BY <1>5, <1>7 DEF IsFold

\* What every operation on a sound engine promises of the engine it returns.
WarnsFirst(c) == \A p \in Probe : Feeds[p] = c => Policy[p].warning < Policy[p].critical

Grows(old, new) ==
    \A k \in Key : old[k].seen => new[k].seen /\ new[k].finished_at >= old[k].finished_at

Announced(old, new) ==
    \A c \in Component :
        (WarnsFirst(c) /\ new[c] = "Unavailable") => old[c] \in {"Degraded", "Unavailable"}

Good(e) == e \in Engine /\ Sound(e.stream) /\ IsFold(e)

Promise(e, f) == Good(f) /\ Grows(e.stream, f.stream) /\ Announced(e.comp, f.comp)

\* Every key is a probe and an observer.
LEMMA KeyParts ==
    ASSUME NEW k \in Key
    PROVE  k[1] \in Probe /\ Feeds[k[1]] \in Component
BY FeedsAssumption DEF Key

\* StateEngine::ingest keeps its promise.
LEMMA IngestedPromise ==
    ASSUME NEW e, Good(e), NEW k \in Key, NEW t \in Time, NEW status \in Status
    PROVE  /\ Promise(e, Ingested(e, k, t, status))
           /\ Ingested(e, k, t, status).disabled = e.disabled
<1> DEFINE opened == [Opened(e, k) EXCEPT !.expired = FALSE, !.finished_at = t]
           m == Answered(k[1], opened, status)
           g == [e EXCEPT !.stream[k] = m]
           f == Ingested(e, k, t, status)
<1>0. e \in Engine /\ Sound(e.stream) /\ IsFold(e) /\ e.stream[k] \in Stream /\ k[1] \in Probe
      /\ Feeds[k[1]] \in Component
  BY KeyParts DEF Good, Engine
<1>1. CASE ~Accepts(e, k, t)
  <2>1. f = e
    BY <1>1 DEF Ingested
  <2>2. Grows(e.stream, e.stream)
    <3>1. \A j \in Key : e.stream[j].finished_at \in Int
      BY SMT, <1>0, NumberAssumption, CountAssumption DEF Engine, Stream, Time
    <3> QED
      BY SMT, <3>1 DEF Grows
  <2> QED
    BY <2>1, <2>2 DEF Promise, Announced
<1>2. CASE Accepts(e, k, t)
  <2>1. Policy[k[1]].warning > 0 /\ 0 \in 0..MaxCount /\ MaxCount \in Nat
        /\ Policy[k[1]].warning \in Int
    BY SMT, <1>0, PolicyAssumption, CountAssumption DEF DebouncePolicy
  <2>2. /\ opened \in Stream /\ opened.seen /\ ~opened.expired /\ opened.finished_at = t
        /\ SoundStream(opened, k[1])
        /\ e.stream[k].seen => opened.health = e.stream[k].health
        /\ ~e.stream[k].seen => opened.health \in {"Unknown", "NotApplicable"}
    <3>1. CASE e.stream[k].seen
      <4>1. Opened(e, k) = e.stream[k]
        BY <3>1 DEF Opened
      <4>2. opened \in Stream
        BY <1>0, <4>1 DEF Stream
      <4>3. /\ opened.seen /\ ~opened.expired /\ opened.finished_at = t
            /\ opened.health = e.stream[k].health /\ opened.verdict = e.stream[k].verdict
            /\ opened.failures = e.stream[k].failures
        BY <1>0, <3>1, <4>1 DEF Stream
      <4>4. SoundStream(e.stream[k], k[1])
        BY <1>0 DEF Sound
      <4> HIDE DEF opened
      <4>5. SoundStream(opened, k[1])
        BY <4>3, <4>4 DEF SoundStream
      <4> QED
        BY <3>1, <4>2, <4>3, <4>5
    <3>2. CASE ~e.stream[k].seen
      <4> DEFINE starting == IF HasStream(e.stream, Feeds[k[1]]) THEN "Unknown"
                             ELSE ComponentHealth(e, Feeds[k[1]])
      <4>1. starting \in {"Unknown", "NotApplicable"}
        BY <1>0 DEF IsFold, ComponentHealth
      <4>2. Opened(e, k) = [NoStream EXCEPT !.seen = TRUE, !.verdict = starting, !.health = starting]
        BY <3>2 DEF Opened
      <4> HIDE DEF starting
      <4>3. opened \in Stream
        <5>1. 0 \in 0..MaxCount /\ starting \in Health /\ 0 \in Time
          BY SMT, <4>1, CountAssumption, NumberAssumption DEF Health, Time
        <5>2. Opened(e, k) \in Stream
          BY <4>2, <5>1 DEF NoStream, Stream
        <5> QED
          BY <5>2 DEF Stream
      <4>4. /\ opened.seen /\ ~opened.expired /\ opened.finished_at = t
            /\ opened.health = starting /\ opened.verdict = starting /\ opened.failures = 0
        BY <4>2 DEF NoStream
      <4> HIDE DEF opened
      <4>5. SoundStream(opened, k[1])
        BY SMT, <2>1, <4>1, <4>4 DEF SoundStream
      <4> QED
        BY <3>2, <4>1, <4>3, <4>4, <4>5
    <3> QED
      BY <3>1, <3>2
  <2> HIDE DEF opened
  <2>3. /\ m \in Stream /\ m.seen /\ ~m.expired /\ m.finished_at = t /\ SoundStream(m, k[1])
        /\ (Policy[k[1]].warning < Policy[k[1]].critical /\ m.health = "Unavailable")
              => opened.health \in {"Degraded", "Unavailable"}
    BY <1>0, <2>2, AnsweredSound
  <2> HIDE DEF m
  <2>4. /\ g \in Engine /\ g.stream = [e.stream EXCEPT ![k] = m]
        /\ g.disabled = e.disabled /\ g.comp = e.comp
    BY <1>0, <2>3 DEF Engine
  <2>5. f = Recomputed(g, {Feeds[k[1]]})
    BY <1>2 DEF Ingested, m, opened
  <2> HIDE DEF g
  <2>6. g.stream[k] = m /\ \A j \in Key : j # k => g.stream[j] = e.stream[j]
    BY <1>0, <2>4 DEF Engine
  <2>7. HasStream(g.stream, Feeds[k[1]])
    BY <2>3, <2>6 DEF HasStream
  <2>8. {Feeds[k[1]]} \in SUBSET Component
    BY <1>0
  <2>9. IsFold(f)
    <3> DEFINE C == {Feeds[k[1]]}
    <3>1. ASSUME NEW c \in Component \ C
          PROVE  /\ g.comp[c] = e.comp[c]
                 /\ \A j \in Key : Feeds[j[1]] = c =>
                       /\ g.stream[j] = e.stream[j]
                       /\ j[1] \in g.disabled <=> j[1] \in e.disabled
      BY <2>4, <2>6
    <3>2. \A c \in C : HasStream(g.stream, c)
      BY <2>7
    <3>3. C \in SUBSET Component /\ f = Recomputed(g, C)
      BY <2>5, <2>8
    <3> HIDE DEF C, f
    <3> QED
      BY <1>0, <2>4, <3>1, <3>2, <3>3, FoldAfter
  <2>10. f \in Engine /\ f.stream = g.stream /\ f.disabled = g.disabled
    BY SMT, <2>4, <2>5, <2>8, RecomputedEffect
  <2> HIDE DEF f
  <2>11. Sound(f.stream)
    BY <1>0, <2>3, <2>6, <2>10 DEF Sound
  <2>12. Grows(e.stream, f.stream)
    <3>1. \A j \in Key : e.stream[j].finished_at \in Int
      BY SMT, <1>0, NumberAssumption, CountAssumption DEF Engine, Stream, Time
    <3> QED
      BY SMT, <1>2, <2>3, <2>6, <2>10, <3>1 DEF Grows, Accepts
  <2>13. Announced(e.comp, f.comp)
    <3>1. SUFFICES ASSUME NEW c \in Component, WarnsFirst(c), f.comp[c] = "Unavailable"
                   PROVE  e.comp[c] \in {"Degraded", "Unavailable"}
      BY DEF Announced
    <3>2. ASSUME NEW j \in Key, Feeds[j[1]] = c, f.stream[j].seen, j[1] \notin f.disabled,
                 f.stream[j].health = "Unavailable"
          PROVE  /\ e.stream[j].seen /\ j[1] \notin e.disabled
                 /\ e.stream[j].health \in {"Degraded", "Unavailable"}
      <4>1. CASE j = k
        BY <1>0, <2>2, <2>3, <2>4, <2>6, <2>10, <3>1, <3>2, <4>1 DEF WarnsFirst
      <4>2. CASE j # k
        BY <2>4, <2>6, <2>10, <3>2, <4>2
      <4> QED
        BY <4>1, <4>2
    <3> QED
      BY <1>0, <2>9, <2>10, <3>1, <3>2, OutageFrame
  <2> QED
    BY <2>4, <2>9, <2>10, <2>11, <2>12, <2>13 DEF Promise, Good, f
<1> QED
  BY <1>1, <1>2

\* StateEngine::expire keeps its promise.
LEMMA ExpiredPromise ==
    ASSUME NEW e, Good(e)
    PROVE  Promise(e, Expired(e)) /\ Expired(e).disabled = e.disabled
<1> DEFINE silent == {k \in Key : Stale(e, k)}
           g == [e EXCEPT !.stream =
                    [k \in Key |-> IF k \in silent THEN Silenced(@[k]) ELSE @[k]]]
           C == {Feeds[k[1]] : k \in silent}
           f == Expired(e)
<1>0. e \in Engine /\ Sound(e.stream) /\ IsFold(e) /\ \A k \in Key : e.stream[k] \in Stream
  BY DEF Good, Engine
<1>1. f = Recomputed(g, C)
  BY DEF Expired
<1>2. \A k \in silent : k \in Key /\ e.stream[k].seen /\ k[1] \notin e.disabled
  BY DEF Stale
<1>3. \A k \in silent : /\ Silenced(e.stream[k]) \in Stream
                        /\ Silenced(e.stream[k]).seen
                        /\ Silenced(e.stream[k]).finished_at = e.stream[k].finished_at
                        /\ Silenced(e.stream[k]).health = "Unknown"
                        /\ SoundStream(Silenced(e.stream[k]), k[1])
  BY <1>0, <1>2, KeyParts, SilencedSound
<1> HIDE DEF silent
<1>4. /\ g.disabled = e.disabled /\ g.comp = e.comp
      /\ g.stream = [k \in Key |-> IF k \in silent THEN Silenced(e.stream[k]) ELSE e.stream[k]]
  BY <1>0 DEF Engine
<1>5. g \in Engine
  BY <1>0, <1>2, <1>3, <1>4 DEF Engine
<1> HIDE DEF g
<1>6. C \in SUBSET Component
  BY <1>2, KeyParts
<1>7. \A c \in C : HasStream(g.stream, c)
  BY <1>2, <1>3, <1>4 DEF HasStream
<1>8. ASSUME NEW c \in Component \ C
      PROVE  /\ g.comp[c] = e.comp[c]
             /\ \A j \in Key : Feeds[j[1]] = c =>
                   /\ g.stream[j] = e.stream[j]
                   /\ j[1] \in g.disabled <=> j[1] \in e.disabled
  BY <1>4
<1> HIDE DEF C, f
<1>9. IsFold(f)
  BY <1>0, <1>1, <1>5, <1>6, <1>7, <1>8, FoldAfter
<1>10. f \in Engine /\ f.stream = g.stream /\ f.disabled = g.disabled
  BY <1>1, <1>5, <1>6, RecomputedEffect
<1>11. Sound(f.stream)
  BY SMT, <1>0, <1>3, <1>4, <1>10 DEF Sound
<1>12. Grows(e.stream, f.stream)
  <2>1. \A j \in Key : e.stream[j].finished_at \in Int
    BY SMT, <1>0, NumberAssumption, CountAssumption DEF Stream, Time
  <2> QED
    BY SMT, <1>3, <1>4, <1>10, <2>1 DEF Grows
<1>13. ASSUME NEW c \in Component, f.comp[c] = "Unavailable"
       PROVE  e.comp[c] \in {"Degraded", "Unavailable"}
  <2>1. ASSUME NEW j \in Key, Feeds[j[1]] = c, f.stream[j].seen, j[1] \notin f.disabled,
               f.stream[j].health = "Unavailable"
        PROVE  /\ e.stream[j].seen /\ j[1] \notin e.disabled
               /\ e.stream[j].health \in {"Degraded", "Unavailable"}
    BY SMT, <1>3, <1>4, <1>10, <2>1
  <2> QED
    BY <1>0, <1>9, <1>10, <1>13, <2>1, OutageFrame
<1> QED
  BY <1>4, <1>9, <1>10, <1>11, <1>12, <1>13 DEF Promise, Good, Announced, f

\* configure_gpu_monitoring, on an engine whose streams are loaded, keeps its
\* promise and leaves exactly the given probes switched off.
LEMMA ConfiguredPromise ==
    ASSUME NEW e, Good(e), NEW off \in SUBSET Switchable
    PROVE  Promise(e, Configured(e, off)) /\ Configured(e, off).disabled = off
<1> DEFINE changed == (e.disabled \ off) \cup (off \ e.disabled)
           g == [e EXCEPT !.disabled = off,
                          !.stream = [k \in Key |->
                              IF @[k].seen /\ k[1] \in e.disabled \ off
                              THEN Silenced(@[k]) ELSE @[k]]]
           C == {Feeds[p] : p \in changed} \cap {c \in Component : e.comp[c] # "Absent"}
           f == Configured(e, off)
<1>0. e \in Engine /\ Sound(e.stream) /\ IsFold(e) /\ \A k \in Key : e.stream[k] \in Stream
  BY DEF Good, Engine
<1>1. f = Recomputed(g, C)
  BY DEF Configured
<1>2. /\ g.disabled = off /\ g.comp = e.comp
      /\ g.stream = [k \in Key |-> IF e.stream[k].seen /\ k[1] \in e.disabled \ off
                                   THEN Silenced(e.stream[k]) ELSE e.stream[k]]
  BY <1>0 DEF Engine
<1>3. \A k \in Key : e.stream[k].seen =>
                        /\ Silenced(e.stream[k]) \in Stream
                        /\ Silenced(e.stream[k]).seen
                        /\ Silenced(e.stream[k]).finished_at = e.stream[k].finished_at
                        /\ Silenced(e.stream[k]).health = "Unknown"
                        /\ SoundStream(Silenced(e.stream[k]), k[1])
  BY <1>0, KeyParts, SilencedSound
<1>4. g \in Engine
  BY <1>0, <1>2, <1>3 DEF Engine
<1> HIDE DEF g
<1>5. C \in SUBSET Component
  OBVIOUS
<1>6. \A j \in Key : g.stream[j].seen <=> e.stream[j].seen
  BY <1>2, <1>3
<1>7. \A c \in Component : HasStream(g.stream, c) <=> HasStream(e.stream, c)
  BY <1>6 DEF HasStream
<1>8. \A c \in C : HasStream(g.stream, c)
  BY <1>0, <1>7 DEF IsFold
<1>9. ASSUME NEW c \in Component \ C
      PROVE  /\ g.comp[c] = e.comp[c]
             /\ (\E j \in Key : e.stream[j].seen /\ Feeds[j[1]] = c) =>
                \A j \in Key : Feeds[j[1]] = c =>
                   /\ g.stream[j] = e.stream[j]
                   /\ j[1] \in g.disabled <=> j[1] \in e.disabled
  <2>1. SUFFICES ASSUME HasStream(e.stream, c), NEW j \in Key, Feeds[j[1]] = c
                 PROVE  j[1] \notin changed
    BY <1>2 DEF HasStream
  <2>2. e.comp[c] # "Absent"
    <3>1. Combined(e, c) \in Health
      BY <1>0, CombinedIsWorst
    <3> QED
      BY <1>0, <2>1, <3>1 DEF IsFold, Health
  <2> QED
    BY <2>1, <2>2
<1> HIDE DEF C, f, changed
<1>10. f \in Engine /\ f.stream = g.stream /\ f.disabled = g.disabled
       /\ \A c \in Component : /\ Combined(f, c) = Combined(g, c)
                               /\ f.comp[c] = IF c \in C THEN Combined(f, c) ELSE g.comp[c]
  BY SMT, <1>1, <1>4, <1>5, RecomputedEffect
<1>11. IsFold(f)
  <2>1. SUFFICES ASSUME NEW c \in Component
                 PROVE  IF HasStream(f.stream, c) THEN f.comp[c] = Combined(f, c)
                        ELSE f.comp[c] = "Absent"
    BY DEF IsFold
  <2>2. CASE c \in C
    BY <1>8, <1>10, <2>2
  <2>3. CASE c \notin C /\ HasStream(e.stream, c)
    <3>1. Combined(g, c) = Combined(e, c)
      BY SMT, <1>0, <1>4, <1>9, <2>3, CombinedFrame DEF HasStream
    <3> QED
      BY <1>0, <1>7, <1>9, <1>10, <2>3, <3>1 DEF IsFold
  <2>4. CASE c \notin C /\ ~HasStream(e.stream, c)
    BY <1>0, <1>7, <1>9, <1>10, <2>4 DEF IsFold
  <2> QED
    BY <2>2, <2>3, <2>4
<1>12. Sound(f.stream)
  BY SMT, <1>0, <1>2, <1>3, <1>10 DEF Sound
<1>13. Grows(e.stream, f.stream)
  <2>1. \A j \in Key : e.stream[j].finished_at \in Int
    BY SMT, <1>0, NumberAssumption, CountAssumption DEF Stream, Time
  <2> QED
    BY SMT, <1>2, <1>3, <1>10, <2>1 DEF Grows
<1>14. ASSUME NEW c \in Component, f.comp[c] = "Unavailable"
       PROVE  e.comp[c] \in {"Degraded", "Unavailable"}
  <2>1. ASSUME NEW j \in Key, Feeds[j[1]] = c, f.stream[j].seen, j[1] \notin f.disabled,
               f.stream[j].health = "Unavailable"
        PROVE  /\ e.stream[j].seen /\ j[1] \notin e.disabled
               /\ e.stream[j].health \in {"Degraded", "Unavailable"}
    BY <1>2, <1>3, <1>10, <2>1
  <2> QED
    BY <1>0, <1>10, <1>11, <1>14, <2>1, OutageFrame
<1> QED
  BY <1>2, <1>10, <1>11, <1>12, <1>13, <1>14 DEF Promise, Good, Announced, f

\* The streams configure_gpu_monitoring leaves.
LEMMA ConfiguredStream ==
    ASSUME NEW e \in Engine, NEW off
    PROVE  Configured(e, off).stream =
               [k \in Key |-> IF e.stream[k].seen /\ k[1] \in e.disabled \ off
                              THEN Silenced(e.stream[k]) ELSE e.stream[k]]
<1> DEFINE g == [e EXCEPT !.disabled = off,
                          !.stream = [k \in Key |->
                              IF @[k].seen /\ k[1] \in e.disabled \ off
                              THEN Silenced(@[k]) ELSE @[k]]]
<1>1. g.stream = [k \in Key |-> IF e.stream[k].seen /\ k[1] \in e.disabled \ off
                                THEN Silenced(e.stream[k]) ELSE e.stream[k]]
  BY DEF Engine
<1>2. Configured(e, off).stream = g.stream
  BY DEF Configured, Recomputed, Engine
<1> QED BY <1>1, <1>2

\* A reconfiguration without a transition changes neither streams nor rows, so
\* ingest_snapshot may skip the save: a re-enabled probe is alone on its
\* component, which therefore goes from NotApplicable to Unknown.
LEMMA ConfiguredWithoutTransition ==
    ASSUME NEW e, Good(e), NEW off \in SUBSET Switchable,
           \A c \in Component :
               ComponentHealth(Configured(e, off), c) = ComponentHealth(e, c)
    PROVE  Configured(e, off).stream = e.stream /\ Configured(e, off).comp = e.comp
<1> DEFINE f == Configured(e, off)
<1>0. /\ e \in Engine /\ IsFold(e) /\ e.disabled \in SUBSET Switchable
      /\ e.stream \in [Key -> Stream] /\ e.comp \in [Component -> Slot]
  BY DEF Good, Engine
<1>1. /\ f \in Engine /\ IsFold(f) /\ f.disabled = off
      /\ f.stream \in [Key -> Stream] /\ f.comp \in [Component -> Slot]
  BY ConfiguredPromise DEF Promise, Good, Engine
<1>2. f.stream = [k \in Key |-> IF e.stream[k].seen /\ k[1] \in e.disabled \ off
                                THEN Silenced(e.stream[k]) ELSE e.stream[k]]
  BY <1>0, ConfiguredStream
<1>3. \A k \in Key : e.stream[k].seen =>
          Silenced(e.stream[k]).seen /\ Silenced(e.stream[k]).expired
          /\ Silenced(e.stream[k]).health = "Unknown"
  BY <1>0 DEF Silenced, Forced, Stream
<1> HIDE DEF f
<1>4. ASSUME NEW k \in Key, e.stream[k].seen, k[1] \in e.disabled \ off
      PROVE  FALSE
  <2> DEFINE c == Feeds[k[1]]
  <2>1. c \in Component /\ k[1] \in Probe /\ k[1] \in Switchable
    BY <1>0, <1>4, KeyParts
  <2>2. \A j \in Key : Feeds[j[1]] = c => j[1] = k[1]
    BY <2>1, KeyParts, SwitchableAssumption
  <2>3. HasStream(e.stream, c) /\ HasStream(f.stream, c)
    BY <1>2, <1>3, <1>4 DEF HasStream
  <2> HIDE DEF c
  <2>4. Contributors(e, c) = {}
    BY <1>4, <2>2 DEF Contributors
  <2>5. e.comp[c] = "NotApplicable"
    BY <1>0, <2>1, <2>3, <2>4, CombinedIsWorst DEF IsFold
  <2>6. \A j \in Key : (j[1] = k[1] /\ f.stream[j].seen) =>
            f.stream[j].expired /\ f.stream[j].health = "Unknown"
    BY <1>2, <1>3, <1>4
  <2>7. \A o \in Observer : <<k[1], o>> \in Key /\ <<k[1], o>>[1] = k[1]
    BY <2>1 DEF Key
  <2>8. k \in Contributors(f, c)
    BY <1>1, <1>2, <1>3, <1>4, <2>6, <2>7 DEF Contributors, c
  <2>9. \A j \in Contributors(f, c) : f.stream[j].health = "Unknown"
    BY <2>2, <2>6 DEF Contributors
  <2>10. Combined(f, c) = "Unknown"
    BY <1>1, <2>1, <2>8, <2>9, CombinedIsWorst
  <2> QED
    BY <1>1, <2>1, <2>3, <2>5, <2>10 DEF IsFold, ComponentHealth, f
<1>5. f.stream = e.stream
  <2>1. f.stream = [k \in Key |-> e.stream[k]]
    BY <1>2, <1>4
  <2> QED
    BY <1>0, <2>1
<1>6. ASSUME NEW c \in Component
      PROVE  f.comp[c] = e.comp[c]
  <2>1. Combined(e, c) \in Health /\ Combined(f, c) \in Health
    BY <1>0, <1>1, CombinedIsWorst
  <2>2. e.comp[c] = "Absent" <=> f.comp[c] = "Absent"
    BY <1>0, <1>1, <1>5, <2>1 DEF IsFold, Health
  <2> QED
    BY <2>2 DEF ComponentHealth, f
<1>7. f.comp = e.comp
  BY SMT, <1>0, <1>1, <1>6
<1> QED
  BY <1>5, <1>7 DEF f

-----------------------------------------------------------------------------
(* The restart.                                                            *)

\* What is committed, read as an engine configured the way the inventory says.
Committed == [stream |-> db.stream, comp |-> db.comp, disabled |-> db.off]

HasRows == \A c \in Component : HasStream(db.stream, c) <=> db.comp[c] # "Absent"

\* A freshly seeded engine is well typed.
LEMMA SeededType ==
    ASSUME db \in Database
    PROVE  /\ SeededEngine \in Engine /\ SeededEngine.comp = db.comp
           /\ SeededEngine.disabled = {}
           /\ \A k \in Key : ~SeededEngine.stream[k].seen
           /\ EmptyEngine \in Engine /\ EmptyEngine.disabled = {}
<1>1. NoStream \in Stream
  BY SMT, NumberAssumption, CountAssumption DEF NoStream, Stream, Health, Time
<1>2. EmptyEngine \in Engine
  BY <1>1 DEF EmptyEngine, Engine, Slot
<1>3. SeededEngine \in Engine
  BY <1>2 DEF SeededEngine, EmptyEngine, Engine, Database
<1> QED
  BY <1>2, <1>3 DEF SeededEngine, EmptyEngine, NoStream

\* Configuring before the streams are loaded writes NotApplicable into the
\* components of the probes that are switched off, and nothing else.
LEMMA ConfiguredAtRestart ==
    ASSUME db \in Database
    PROVE  /\ ConfiguredEngine \in Engine /\ ConfiguredEngine.disabled = db.off
           /\ \A c \in Component :
                 ConfiguredEngine.comp[c] =
                     IF db.comp[c] # "Absent" /\ \E p \in db.off : Feeds[p] = c
                     THEN "NotApplicable" ELSE db.comp[c]
<1> DEFINE e == SeededEngine
           off == db.off
           g == [e EXCEPT !.disabled = off,
                          !.stream = [k \in Key |->
                              IF @[k].seen /\ k[1] \in e.disabled \ off
                              THEN Silenced(@[k]) ELSE @[k]]]
           C == {Feeds[p] : p \in (e.disabled \ off) \cup (off \ e.disabled)}
                    \cap {c \in Component : e.comp[c] # "Absent"}
<1>0. /\ e \in Engine /\ e.comp = db.comp /\ e.disabled = {}
      /\ \A k \in Key : ~e.stream[k].seen
  BY SeededType
<1>1. off \in SUBSET Switchable
  BY DEF Database
<1>2. ConfiguredEngine = Recomputed(g, C)
  BY DEF ConfiguredEngine, Configured
<1> HIDE DEF e
<1>3. g.disabled = off /\ g.comp = e.comp /\ g.stream = [k \in Key |-> e.stream[k]]
  BY <1>0 DEF Engine
<1>4. g \in Engine
  BY <1>0, <1>1, <1>3 DEF Engine
<1>5. C = {Feeds[p] : p \in off} \cap {c \in Component : db.comp[c] # "Absent"}
  BY <1>0
<1> HIDE DEF g
<1>6. \A c \in Component : Combined(g, c) = "NotApplicable"
  <2>1. \A c \in Component : Contributors(g, c) = {}
    BY <1>0, <1>3 DEF Contributors
  <2> QED
    BY <1>4, <2>1, CombinedIsWorst
<1>7. C \in SUBSET Component
  OBVIOUS
<1> HIDE DEF C
<1>8. /\ ConfiguredEngine \in Engine /\ ConfiguredEngine.disabled = g.disabled
      /\ \A c \in Component : ConfiguredEngine.comp[c] = IF c \in C THEN Combined(g, c) ELSE g.comp[c]
  BY SMT, <1>2, <1>4, <1>7, RecomputedEffect
<1> QED
  BY SMT, <1>0, <1>3, <1>5, <1>6, <1>8

\* The engine a restart builds is sound and folded, whatever the crash
\* interrupted; if the store was folded, it is what the store holds.
LEMMA LoadedGood ==
    ASSUME db \in Database, Sound(db.stream), HasRows
    PROVE  /\ Good(LoadedEngine)
           /\ LoadedEngine.stream = db.stream /\ LoadedEngine.disabled = db.off
           /\ IsFold(Committed) =>
                 /\ LoadedEngine.comp = db.comp
                 /\ \A c \in Component :
                       ComponentHealth(ConfiguredEngine, c) = ComponentHealth(SeededEngine, c)
<1> DEFINE g == [ConfiguredEngine EXCEPT !.stream = db.stream]
           C == {Feeds[k[1]] : k \in {j \in Key : db.stream[j].seen}}
           f == LoadedEngine
<1>1. /\ ConfiguredEngine \in Engine /\ ConfiguredEngine.disabled = db.off
      /\ \A c \in Component :
            ConfiguredEngine.comp[c] =
                IF db.comp[c] # "Absent" /\ \E p \in db.off : Feeds[p] = c
                THEN "NotApplicable" ELSE db.comp[c]
  BY ConfiguredAtRestart
<1>2. /\ g.stream = db.stream /\ g.disabled = db.off /\ g.comp = ConfiguredEngine.comp
  BY <1>1 DEF Engine
<1>3. g \in Engine
  BY <1>1 DEF Engine, Database
<1>4. C \in SUBSET Component
  BY KeyParts
<1>5. f = Recomputed(g, C)
  BY DEF LoadedEngine
<1>6. \A c \in Component : c \in C <=> HasStream(db.stream, c)
  BY DEF HasStream
<1> HIDE DEF g, C
<1>7. /\ f \in Engine /\ f.stream = db.stream /\ f.disabled = db.off
      /\ \A c \in Component : /\ Combined(f, c) = Combined(g, c)
                              /\ f.comp[c] = IF c \in C THEN Combined(f, c) ELSE g.comp[c]
  BY SMT, <1>2, <1>3, <1>4, <1>5, RecomputedEffect
<1> HIDE DEF f
<1>8. IsFold(f)
  <2>1. SUFFICES ASSUME NEW c \in Component, ~HasStream(f.stream, c)
                 PROVE  f.comp[c] = "Absent"
    BY <1>6, <1>7 DEF IsFold
  <2> QED
    BY SMT, <1>1, <1>2, <1>6, <1>7, <2>1 DEF HasRows
<1>9. ASSUME IsFold(Committed)
      PROVE  /\ f.comp = db.comp
             /\ \A c \in Component :
                   ComponentHealth(ConfiguredEngine, c) = ComponentHealth(SeededEngine, c)
  <2>1. Committed \in Engine
    BY DEF Committed, Engine, Database
  <2>2. \A c \in Component : Combined(Committed, c) = Combined(f, c)
    BY <1>7, <2>1, CombinedFrame DEF Committed
  <2>3. \A c \in Component :
            IF HasStream(db.stream, c) THEN db.comp[c] = Combined(Committed, c) ELSE db.comp[c] = "Absent"
    BY <1>9 DEF IsFold, Committed
  <2>4. \A c \in Component : f.comp[c] = db.comp[c]
    BY SMT, <1>1, <1>2, <1>6, <1>7, <2>2, <2>3
  <2>5. f.comp = db.comp
    BY SMT, <1>7, <2>4 DEF Engine, Database
  <2>6. ASSUME NEW c \in Component, db.comp[c] # "Absent", NEW p \in db.off, Feeds[p] = c
        PROVE  db.comp[c] = "NotApplicable"
    <3>1. p \in Switchable
      BY DEF Database
    <3>2. \A j \in Key : Feeds[j[1]] = c => j[1] = p
      BY <2>6, <3>1, KeyParts, SwitchableAssumption
    <3>3. Contributors(Committed, c) = {}
      BY <3>2 DEF Contributors, Committed
    <3> QED
      BY <2>1, <2>3, <2>6, <3>3, CombinedIsWorst
  <2>7. \A c \in Component : ConfiguredEngine.comp[c] = db.comp[c]
    BY <1>1, <2>6
  <2> QED
    BY <2>5, <2>7, SeededType DEF ComponentHealth
<1> QED
  BY <1>7, <1>8, <1>9 DEF Good, f

-----------------------------------------------------------------------------
(* The inductive invariant.                                                *)

\* The engine in memory is sound and folded, and holds the committed streams;
\* what is committed is sound, so that a restart finds it so.  If registrations
\* are not interrupted, the committed rows are the ones in memory, and a stopped
\* controller leaves a folded store and an unbroken history.
Invariant ==
    /\ TypeOK
    /\ Sound(db.stream)
    /\ HasRows
    /\ pc # "down" => Good(engine) /\ db.stream = engine.stream
    /\ ~RegistrationFaults =>
          /\ pc # "down" => db.comp = engine.comp
          /\ pc = "up" => db.off = engine.disabled
          /\ pc = "down" => IsFold(Committed)
          /\ \A c \in Component : db.trail[c] = ComponentHealth(db, c)

\* What a step never does to the store.
StepPromise ==
    /\ Grows(db.stream, db'.stream)
    /\ ~RegistrationFaults => Announced(db.comp, db'.comp)

\* An engine with no streams is sound and folded.
LEMMA EmptyGood == Good(EmptyEngine)
<1>1. NoStream \in Stream
  BY SMT, NumberAssumption, CountAssumption DEF NoStream, Stream, Health, Time
<1>2. EmptyEngine \in Engine
  BY <1>1 DEF EmptyEngine, Engine, Slot
<1>3. \A p \in Probe : SoundStream(NoStream, p)
  <2>1. \A p \in Probe : Policy[p].warning \in Int /\ Policy[p].warning > 0
    BY SMT, PolicyAssumption, CountAssumption DEF DebouncePolicy
  <2>2. /\ ~NoStream.expired /\ NoStream.verdict = "Unknown" /\ NoStream.health = "Unknown"
        /\ NoStream.failures = 0
    BY DEF NoStream
  <2>3. ASSUME NEW p \in Probe
        PROVE  SoundStream(NoStream, p)
    <3>1. ~(NoStream.failures >= Policy[p].warning)
      BY SMT, <2>1, <2>2
    <3> QED
      BY <2>2, <3>1 DEF SoundStream
  <2> QED
    BY <2>3
<1>4. Sound(EmptyEngine.stream)
  BY <1>3, KeyParts DEF Sound, EmptyEngine
<1>5. IsFold(EmptyEngine)
  BY DEF IsFold, HasStream, EmptyEngine, NoStream
<1> QED
  BY <1>2, <1>4, <1>5 DEF Good

\* A fold has a row exactly where it has a stream.
LEMMA GoodRows ==
    ASSUME NEW e, Good(e)
    PROVE  \A c \in Component : HasStream(e.stream, c) <=> e.comp[c] # "Absent"
<1>1. \A c \in Component : Combined(e, c) \in Health
  BY CombinedIsWorst DEF Good
<1> QED
  BY <1>1 DEF Good, IsFold, Health

\* Nothing changes, nothing is lost.
LEMMA GrowsReflexive ==
    ASSUME NEW s \in [Key -> Stream]
    PROVE  Grows(s, s)
<1>1. \A k \in Key : s[k].finished_at \in Int
  BY SMT, NumberAssumption, CountAssumption DEF Stream, Time
<1> QED
  BY SMT, <1>1 DEF Grows

\* A handler that works on a copy of the engine, commits it and adopts it keeps
\* the invariant if the copy keeps its promise.
LEMMA CommitStep ==
    ASSUME Invariant, pc # "down", pc' = "up", now' = now,
           Promise(engine, engine'), db' = Save(engine, engine'),
           ~RegistrationFaults => engine'.disabled = db.off
    PROVE  Invariant' /\ StepPromise
<1>0. /\ TypeOK /\ Good(engine) /\ db.stream = engine.stream /\ engine \in Engine
      /\ Good(engine') /\ engine' \in Engine /\ Sound(engine'.stream) /\ IsFold(engine')
  BY DEF Invariant, Promise, Good
<1>1. db \in Database
  BY <1>0 DEF TypeOK
<1>2. /\ db'.stream = engine'.stream /\ db'.comp = engine'.comp /\ db'.off = db.off
      /\ db'.trail = Trail(db.trail, engine, engine')
  BY <1>1 DEF Save, Database
<1>3. Trail(db.trail, engine, engine') \in [Component -> Health]
  BY <1>0, <1>1 DEF Trail, ComponentHealth, Database, Engine, Slot, Health
<1>4. db' \in Database
  BY <1>0, <1>1, <1>3 DEF Save, Database, Engine
<1>5. TypeOK'
  BY <1>0, <1>4 DEF TypeOK
<1>6. Sound(db'.stream) /\ HasRows'
  BY <1>0, <1>2, GoodRows DEF HasRows
<1>7. ASSUME ~RegistrationFaults, NEW c \in Component
      PROVE  db'.trail[c] = ComponentHealth(db', c)
  <2>1. db.trail[c] = ComponentHealth(db, c) /\ db.comp = engine.comp
    BY <1>7 DEF Invariant
  <2> QED
    BY SMT, <1>2, <1>7, <2>1 DEF Trail, ComponentHealth
<1>8. Invariant'
  BY <1>0, <1>2, <1>5, <1>6, <1>7 DEF Invariant
<1>9. StepPromise
  BY <1>0, <1>2 DEF StepPromise, Promise, Invariant
<1> QED
  BY <1>8, <1>9

\* The initial state satisfies the invariant.
LEMMA InvariantInit == Init => Invariant
<1> SUFFICES ASSUME Init PROVE Invariant
  OBVIOUS
<1>1. Good(EmptyEngine) /\ EmptyEngine \in Engine /\ Sound(EmptyEngine.stream)
  BY EmptyGood DEF Good
<1>2. db \in Database
  BY <1>1 DEF Init, Database, Engine, Health
<1>3. TypeOK
  BY SMT, <1>1, <1>2, NumberAssumption DEF Init, TypeOK
<1>4. HasRows
  BY <1>1, GoodRows DEF Init, HasRows
<1>5. EmptyEngine.disabled = {}
  BY DEF EmptyEngine
<1>6. \A c \in Component : db.trail[c] = ComponentHealth(db, c)
  BY DEF Init, ComponentHealth, EmptyEngine
<1> QED
  BY <1>1, <1>3, <1>4, <1>5, <1>6 DEF Init, Invariant

\* Every step keeps the invariant and its promise.
LEMMA InvariantStep == Invariant /\ [Next]_vars => Invariant' /\ StepPromise
<1> SUFFICES ASSUME Invariant, [Next]_vars PROVE Invariant' /\ StepPromise
  OBVIOUS
<1>0. /\ TypeOK /\ engine \in Engine /\ db \in Database /\ db.stream \in [Key -> Stream]
      /\ pc # "down" => Good(engine)
      /\ db.off \in SUBSET Switchable
  BY DEF Invariant, TypeOK, Database
<1>q. ASSUME db'.stream = db.stream, db'.comp = db.comp
      PROVE  StepPromise
  BY <1>0, <1>q, GrowsReflexive DEF StepPromise, Announced
<1>1. CASE Tick
  <2>1. now' \in 0..MaxTime
    BY SMT, <1>0, <1>1, NumberAssumption DEF Tick, TypeOK
  <2> QED
    BY <1>1, <1>q, <2>1 DEF Tick, Invariant, TypeOK, HasRows, Committed
<1>2. ASSUME NEW k \in Key, NEW t \in Time, NEW status \in Status, Observe(k, t, status)
      PROVE  Invariant' /\ StepPromise
  <2>1. Promise(engine, engine') /\ engine'.disabled = engine.disabled
    BY <1>0, <1>2, IngestedPromise DEF Observe
  <2> QED
    BY <1>2, <2>1, CommitStep DEF Observe, Invariant
<1>3. CASE Diagnose
  <2>1. Promise(engine, engine') /\ engine'.disabled = engine.disabled
    BY <1>0, <1>3, ExpiredPromise DEF Diagnose
  <2> QED
    BY <1>3, <2>1, CommitStep DEF Diagnose, Invariant
<1>4. ASSUME NEW off \in SUBSET Switchable, RegisterInventory(off)
      PROVE  Invariant' /\ StepPromise
  <2>1. /\ db' \in Database /\ db'.stream = db.stream /\ db'.comp = db.comp
        /\ db'.trail = db.trail
    BY <1>0, <1>4 DEF RegisterInventory, Database
  <2>2. TypeOK' /\ HasRows'
    BY <1>4, <2>1 DEF RegisterInventory, TypeOK, HasRows, Invariant
  <2> QED
    BY <1>4, <1>q, <2>1, <2>2 DEF RegisterInventory, Invariant, ComponentHealth
<1>5. CASE RegisterEngine
  <2>0. Good(engine) /\ pc = "registering"
    BY <1>0, <1>5 DEF RegisterEngine
  <2>1. Promise(engine, engine') /\ engine'.disabled = db.off
    BY <1>0, <1>5, <2>0, ConfiguredPromise DEF RegisterEngine
  <2>2. CASE \E c \in Component : ComponentHealth(engine', c) # ComponentHealth(engine, c)
    BY <1>5, <2>0, <2>1, <2>2, CommitStep DEF RegisterEngine
  <2>3. CASE \A c \in Component : ComponentHealth(engine', c) = ComponentHealth(engine, c)
    <3>1. engine'.stream = engine.stream /\ engine'.comp = engine.comp
      BY <1>0, <1>5, <2>0, <2>3, ConfiguredWithoutTransition DEF RegisterEngine
    <3>2. db' = db
      BY <1>5, <2>3 DEF RegisterEngine
    <3>3. Good(engine') /\ engine' \in Engine
      BY <2>1 DEF Promise, Good
    <3>4. TypeOK' /\ HasRows'
      BY <1>5, <3>2, <3>3 DEF RegisterEngine, TypeOK, HasRows, Invariant
    <3> QED
      BY <1>5, <1>q, <2>0, <2>1, <3>1, <3>2, <3>3, <3>4
         DEF RegisterEngine, Invariant, Committed
  <2> QED
    BY <2>2, <2>3
<1>6. CASE RegisterAbort
  BY <1>6, <1>q DEF RegisterAbort, Invariant, TypeOK, HasRows
<1>7. CASE Crash
  <2>1. EmptyEngine \in Engine
    BY EmptyGood DEF Good
  <2>2. TypeOK' /\ HasRows' /\ db' = db
    BY <1>0, <1>7, <2>1 DEF Crash, TypeOK, HasRows, Invariant
  <2>3. ASSUME ~RegistrationFaults
        PROVE  IsFold(Committed)
    <3>1. /\ pc = "up" /\ db.stream = engine.stream /\ db.comp = engine.comp
          /\ db.off = engine.disabled /\ IsFold(engine)
      BY <1>7, <2>3 DEF Crash, Invariant, Good
    <3>2. Committed \in Engine
      BY <1>0 DEF Committed, Engine, Database
    <3>3. \A c \in Component : Combined(Committed, c) = Combined(engine, c)
      BY <1>0, <3>1, <3>2, CombinedFrame DEF Committed
    <3> QED
      BY <3>1, <3>3 DEF IsFold, Committed
  <2>4. Committed' = Committed
    BY <2>2 DEF Committed
  <2>5. ~RegistrationFaults => IsFold(Committed')
    BY <2>3, <2>4
  <2> QED
    BY <1>7, <1>q, <2>2, <2>5 DEF Crash, Invariant, IsFold, Combined, Contributors
<1>8. CASE Restart
  <2>1. /\ Good(LoadedEngine) /\ LoadedEngine \in Engine
        /\ LoadedEngine.stream = db.stream /\ LoadedEngine.disabled = db.off
        /\ IsFold(Committed) =>
              /\ LoadedEngine.comp = db.comp
              /\ \A c \in Component :
                    ComponentHealth(ConfiguredEngine, c) = ComponentHealth(SeededEngine, c)
    BY <1>0, LoadedGood DEF Invariant, Good
  <2>2. /\ pc = "down" /\ pc' = "up" /\ engine' = LoadedEngine /\ now' = now
        /\ db' = IF \E c \in Component :
                        ComponentHealth(ConfiguredEngine, c) # ComponentHealth(SeededEngine, c)
                 THEN [db EXCEPT !.stream = LoadedEngine.stream, !.comp = LoadedEngine.comp,
                                 !.trail = Trail(@, SeededEngine, ConfiguredEngine)]
                 ELSE db
    BY <1>8 DEF Restart
  <2>3. Trail(db.trail, SeededEngine, ConfiguredEngine) \in [Component -> Health]
    <3>1. ConfiguredEngine \in Engine
      BY <1>0, ConfiguredAtRestart
    <3> QED
      BY <1>0, <3>1 DEF Trail, ComponentHealth, Database, Engine, Slot, Health
  <2>4. /\ db' \in Database /\ db'.stream = db.stream /\ db'.off = db.off
        /\ db'.comp = LoadedEngine.comp \/ db'.comp = db.comp
    <3>1. CASE \E c \in Component :
                   ComponentHealth(ConfiguredEngine, c) # ComponentHealth(SeededEngine, c)
      <4>1. db' = [db EXCEPT !.stream = LoadedEngine.stream, !.comp = LoadedEngine.comp,
                             !.trail = Trail(@, SeededEngine, ConfiguredEngine)]
        BY <2>2, <3>1
      <4>2. LoadedEngine.stream \in [Key -> Stream] /\ LoadedEngine.comp \in [Component -> Slot]
        BY <2>1 DEF Engine
      <4> QED
        BY <1>0, <2>1, <2>3, <4>1, <4>2 DEF Database
    <3>2. CASE ~\E c \in Component :
                   ComponentHealth(ConfiguredEngine, c) # ComponentHealth(SeededEngine, c)
      BY <1>0, <2>2, <3>2
    <3> QED
      BY <3>1, <3>2
  <2>5. TypeOK'
    BY <1>0, <2>1, <2>2, <2>4 DEF TypeOK
  <2>6. HasRows'
    BY <2>1, <2>4, GoodRows DEF HasRows, Invariant
  <2>7. ASSUME ~RegistrationFaults
        PROVE  db' = db /\ engine'.comp = db.comp
    BY <2>1, <2>2, <2>7 DEF Invariant
  <2>8. Invariant'
    BY <2>1, <2>2, <2>4, <2>5, <2>6, <2>7 DEF Invariant
  <2>9. StepPromise
    <3>1. Grows(db.stream, db'.stream)
      BY <1>0, <2>4, GrowsReflexive
    <3> QED
      BY <2>7, <3>1 DEF StepPromise, Announced
  <2> QED
    BY <2>8, <2>9
<1>9. CASE UNCHANGED vars
  BY <1>9, <1>q DEF vars, Invariant, TypeOK, HasRows, Committed
<1> QED
  BY <1>1, <1>2, <1>3, <1>4, <1>5, <1>6, <1>7, <1>8, <1>9 DEF Next

-----------------------------------------------------------------------------
(* The theorems.                                                           *)

\* The invariant holds in every reachable state.
THEOREM Inductive == Spec => []Invariant
BY InvariantInit, InvariantStep, PTL DEF Spec

\* Every variable keeps its type, counters saturate within their width included.
THEOREM TypeCorrect == Spec => []TypeOK
<1>1. Invariant => TypeOK
  BY DEF Invariant
<1> QED
  BY <1>1, Inductive, PTL

\* A component is always the fold of its streams, even when registrations are
\* interrupted between their commits and the controller is restarted.
THEOREM FoldCorrect == Spec => []ComponentIsFold
<1>1. Invariant => ComponentIsFold
  BY DEF Invariant, ComponentIsFold, Good
<1> QED
  BY <1>1, Inductive, PTL

\* Silence is never read as health, for any number of probes and observers.
THEOREM SilenceCorrect == Spec => []SilenceIsNotHealth
<1>1. Invariant => SilenceIsNotHealth
  <2>1. SUFFICES ASSUME Invariant, pc # "down", Overall(engine) = "Healthy",
                        NEW k \in Key, engine.stream[k].seen, k[1] \notin engine.disabled
                 PROVE  /\ \E o \in Observer : /\ engine.stream[<<k[1], o>>].seen
                                               /\ ~engine.stream[<<k[1], o>>].expired
                        /\ engine.stream[k].expired
                              \/ engine.stream[k].health \in {"Healthy", "NotApplicable"}
    BY DEF SilenceIsNotHealth
  <2> DEFINE c == Feeds[k[1]]
             applicable == {ComponentHealth(engine, d) : d \in Component} \ {"NotApplicable"}
  <2>2. /\ engine \in Engine /\ Sound(engine.stream) /\ IsFold(engine) /\ c \in Component
        /\ engine.stream[k] \in Stream
    BY <2>1, KeyParts DEF Invariant, Good, Engine
  <2>3. \A d \in Component : ComponentHealth(engine, d) \in Health
    BY <2>2 DEF ComponentHealth, Engine, Slot, Health
  <2>4. applicable \subseteq Health /\ applicable # {} /\ Worst(applicable) = "Healthy"
    BY <2>1, <2>3 DEF Overall
  <2>5. \A g \in applicable : Rank[g] <= Rank["Healthy"]
    <3> HIDE DEF applicable
    <3> QED BY <2>4, WorstIsWorst
  <2>6. ComponentHealth(engine, c) \in {"Healthy", "NotApplicable"}
    <3>1. CASE ComponentHealth(engine, c) \in applicable
      <4>1. PICK h \in Health : h = ComponentHealth(engine, c)
        BY <2>2, <2>3
      <4>2. Rank[h] <= Rank["Healthy"]
        BY <2>5, <3>1, <4>1
      <4>3. h \in {"Healthy", "NotApplicable"}
        BY SMT, <4>2 DEF Rank, Health
      <4> QED
        BY <4>1, <4>3
    <3> QED
      BY <2>2, <3>1
  <2>7. HasStream(engine.stream, c)
    BY <2>1 DEF HasStream
  <2>8. Combined(engine, c) \in {"Healthy", "NotApplicable"}
    BY <2>2, <2>6, <2>7, CombinedIsWorst DEF IsFold, ComponentHealth, Health
  <2>9. ASSUME NEW j \in Contributors(engine, c)
        PROVE  engine.stream[j].health \in {"Healthy", "NotApplicable"}
    <3>1. Rank[engine.stream[j].health] <= Rank[Combined(engine, c)]
      BY <2>2, <2>9, CombinedIsWorst
    <3>2. engine.stream[j].health \in Health
      BY <2>2 DEF Contributors, Engine, Stream
    <3> QED
      BY SMT, <2>8, <3>1, <3>2 DEF Rank, Health
  <2>10. CASE ~engine.stream[k].expired
    <3>1. k \in Contributors(engine, c)
      BY <2>1, <2>10 DEF Contributors
    <3>2. k[2] \in Observer /\ <<k[1], k[2]>> = k
      BY SMT DEF Key
    <3>3. engine.stream[k].health \in {"Healthy", "NotApplicable"}
      BY <2>9, <3>1
    <3>4. engine.stream[<<k[1], k[2]>>].seen /\ ~engine.stream[<<k[1], k[2]>>].expired
      BY <2>1, <2>10, <3>2
    <3> QED
      BY <3>2, <3>3, <3>4
  <2>11. CASE engine.stream[k].expired
    <3>1. engine.stream[k].health = "Unknown"
      BY <2>2, <2>11 DEF Sound, SoundStream
    <3>2. k \notin Contributors(engine, c)
      BY <2>9, <3>1
    <3> QED
      BY <2>1, <2>11, <3>2 DEF Contributors
  <2> QED
    BY <2>10, <2>11
<1> QED
  BY <1>1, Inductive, PTL

\* A stream's committed evidence never goes back in time, across replays,
\* expiry, registrations, crashes and restarts.
THEOREM EvidenceCorrect == Spec => EvidenceNeverRegresses
<1>1. Invariant /\ [Next]_vars =>
        [\A k \in Key : db.stream[k].seen =>
            /\ db'.stream[k].seen
            /\ db'.stream[k].finished_at >= db.stream[k].finished_at]_vars
  BY InvariantStep DEF StepPromise, Grows
<1> QED
  BY <1>1, Inductive, PTL DEF Spec, EvidenceNeverRegresses

\* If registrations are not interrupted, memory and store agree whenever no
\* handler is running.
THEOREM CommittedCorrect ==
    ASSUME ~RegistrationFaults
    PROVE  Spec => []CommittedIsCurrent
<1>1. Invariant => CommittedIsCurrent
  BY DEF Invariant, CommittedIsCurrent
<1> QED
  BY <1>1, Inductive, PTL

\* If registrations are not interrupted, the recorded transitions of a component
\* always end at the health shown.
THEOREM HistoryCorrect ==
    ASSUME ~RegistrationFaults
    PROVE  Spec => []HistoryIsUnbroken
<1>1. Invariant => HistoryIsUnbroken
  BY DEF Invariant, HistoryIsUnbroken, ComponentHealth
<1> QED
  BY <1>1, Inductive, PTL

\* If registrations are not interrupted, no component whose probes all warn
\* before they declare an outage is committed Unavailable that was not committed
\* Degraded first.
THEOREM OutageCorrect ==
    ASSUME ~RegistrationFaults
    PROVE  Spec => OutageIsAnnounced
<1>1. Invariant /\ [Next]_vars =>
        [\A c \in Component :
            /\ \A p \in Probe : Feeds[p] = c => Policy[p].warning < Policy[p].critical
            /\ db'.comp[c] = "Unavailable"
            => db.comp[c] \in {"Degraded", "Unavailable"}]_vars
  BY InvariantStep DEF StepPromise, Announced, WarnsFirst
<1> QED
  BY <1>1, Inductive, PTL DEF Spec, OutageIsAnnounced

-----------------------------------------------------------------------------
(* Hysteresis and the whole log.                                           *)

Entry == [start : {"Unknown", "NotApplicable"}, seq : Seq(Status)]

\* The counters of a stream are the lengths of the newest runs of its log, as far
\* as they count, and its verdict is what the log justifies.
Coupled(s, p, entry) ==
    /\ entry \in Entry
    /\ \A n \in 1..MaxCount :
          /\ s.failures >= n <=> BadRun(entry.seq, Len(entry.seq), n)
          /\ s.successes >= n <=> GoodRun(entry.seq, Len(entry.seq), n)
    /\ s.verdict = Justified(p, entry)

\* A policy asks for at least one answer and never for more than are counted.
LEMMA PolicyRange ==
    \A p \in Probe : /\ Policy[p].warning \in 1..MaxCount /\ Policy[p].critical \in 1..MaxCount
                     /\ Policy[p].recovery \in 1..MaxCount
  BY PolicyAssumption DEF DebouncePolicy

\* What one more measurement makes of the runs.
LEMMA RunsGrow ==
    ASSUME NEW seq \in Seq(Status), NEW status \in Status, NEW n \in 1..MaxCount
    PROVE  LET grown == Append(seq, status)  L == Len(seq) IN
           /\ \A i \in 1..L : /\ GoodRun(grown, i, n) <=> GoodRun(seq, i, n)
                              /\ BadRun(grown, i, n) <=> BadRun(seq, i, n)
           /\ GoodRun(grown, L + 1, n) <=> status = "Ok" /\ (n = 1 \/ GoodRun(seq, L, n - 1))
           /\ BadRun(grown, L + 1, n) <=> status # "Ok" /\ (n = 1 \/ BadRun(seq, L, n - 1))
<1> DEFINE grown == Append(seq, status)
           L == Len(seq)
<1>1. /\ L \in Nat /\ n \in Nat /\ n >= 1 /\ grown[L + 1] = status
      /\ \A i \in 1..L : grown[i] = seq[i]
  BY SMT, CountAssumption
<1> HIDE DEF grown, L
<1>2. ASSUME NEW i \in 1..L
      PROVE  /\ GoodRun(grown, i, n) <=> GoodRun(seq, i, n)
             /\ BadRun(grown, i, n) <=> BadRun(seq, i, n)
  <2>1. i >= n => \A j \in (i - n + 1)..i : j \in 1..L
    BY SMT, <1>1
  <2> QED BY <1>1, <2>1 DEF GoodRun, BadRun
<1>3. L + 1 >= n => \A j : j \in (L + 1 - n + 1)..(L + 1) <=> j = L + 1 \/ j \in (L - (n - 1) + 1)..L
  BY SMT, <1>1
<1>4. L + 1 >= n => \A j \in (L - (n - 1) + 1)..L : j \in 1..L
  BY SMT, <1>1
<1>5. n = 1 => \A j : j \notin (L - (n - 1) + 1)..L
  BY SMT, <1>1
<1>6. L >= n - 1 <=> L + 1 >= n
  BY SMT, <1>1
<1>7. GoodRun(grown, L + 1, n) <=> status = "Ok" /\ (n = 1 \/ GoodRun(seq, L, n - 1))
  BY SMT, <1>1, <1>3, <1>4, <1>5, <1>6 DEF GoodRun
<1>8. BadRun(grown, L + 1, n) <=> status # "Ok" /\ (n = 1 \/ BadRun(seq, L, n - 1))
  BY SMT, <1>1, <1>3, <1>4, <1>5, <1>6 DEF BadRun
<1> QED BY <1>2, <1>7, <1>8 DEF grown, L

\* Where the grown log is decided.
LEMMA DecisionsGrow ==
    ASSUME NEW p \in Probe, NEW seq \in Seq(Status), NEW status \in Status
    PROVE  LET grown == Append(seq, status)  L == Len(seq) IN
           /\ Recoveries(p, seq) \subseteq 1..L /\ Warnings(p, seq) \subseteq 1..L /\ Outages(p, seq) \subseteq 1..L
           /\ Recoveries(p, grown) = Recoveries(p, seq) \cup
                 (IF GoodRun(grown, L + 1, Policy[p].recovery) THEN {L + 1} ELSE {})
           /\ Warnings(p, grown) = Warnings(p, seq) \cup
                 (IF BadRun(grown, L + 1, Policy[p].warning) THEN {L + 1} ELSE {})
           /\ Outages(p, grown) = Outages(p, seq) \cup
                 (IF BadRun(grown, L + 1, Policy[p].critical) THEN {L + 1} ELSE {})
<1> DEFINE grown == Append(seq, status)
           L == Len(seq)
<1>1. DOMAIN seq = 1..L /\ L \in Nat /\ DOMAIN grown = 1..(L + 1)
  BY SMT
<1>2. /\ \A i \in 1..L : GoodRun(grown, i, Policy[p].recovery) <=> GoodRun(seq, i, Policy[p].recovery)
      /\ \A i \in 1..L : BadRun(grown, i, Policy[p].warning) <=> BadRun(seq, i, Policy[p].warning)
      /\ \A i \in 1..L : BadRun(grown, i, Policy[p].critical) <=> BadRun(seq, i, Policy[p].critical)
  BY RunsGrow, PolicyRange
<1> HIDE DEF grown, L
<1>3. \A i : i \in 1..(L + 1) <=> i \in 1..L \/ i = L + 1
  BY SMT, <1>1
<1>4. Recoveries(p, seq) \subseteq 1..L /\ Warnings(p, seq) \subseteq 1..L /\ Outages(p, seq) \subseteq 1..L
  BY <1>1 DEF Recoveries, Warnings, Outages
<1>5. Recoveries(p, grown) = Recoveries(p, seq) \cup
        (IF GoodRun(grown, L + 1, Policy[p].recovery) THEN {L + 1} ELSE {})
  BY <1>1, <1>2, <1>3 DEF Recoveries
<1>6. Warnings(p, grown) = Warnings(p, seq) \cup
        (IF BadRun(grown, L + 1, Policy[p].warning) THEN {L + 1} ELSE {})
  BY <1>1, <1>2, <1>3 DEF Warnings
<1>7. Outages(p, grown) = Outages(p, seq) \cup
        (IF BadRun(grown, L + 1, Policy[p].critical) THEN {L + 1} ELSE {})
  BY <1>1, <1>2, <1>3 DEF Outages
<1> QED BY <1>4, <1>5, <1>6, <1>7 DEF grown, L

\* The verdict of the grown log: decided by the new measurement, if it completes a
\* run, and as before if it does not.
LEMMA VerdictGrows ==
    ASSUME NEW p \in Probe, NEW entry \in Entry, NEW status \in Status
    PROVE  LET grown == Append(entry.seq, status)
               L == Len(entry.seq)
               verdict == Justified(p, [entry EXCEPT !.seq = grown])
           IN verdict =
              IF \/ BadRun(grown, L + 1, Policy[p].critical)
                 \/ BadRun(grown, L + 1, Policy[p].warning) /\ Justified(p, entry) = "Unavailable"
                THEN "Unavailable"
              ELSE IF BadRun(grown, L + 1, Policy[p].warning) THEN "Degraded"
              ELSE IF GoodRun(grown, L + 1, Policy[p].recovery) THEN "Healthy"
              ELSE Justified(p, entry)
<1> DEFINE seq == entry.seq
           grown == Append(seq, status)
           L == Len(seq)
           after == [entry EXCEPT !.seq = grown]
<1>1. seq \in Seq(Status) /\ entry.start \in {"Unknown", "NotApplicable"} /\ L \in Nat
  BY SMT DEF Entry
<1>2. after.start = entry.start /\ after.seq = grown
  BY DEF Entry
<1> DEFINE R == Recoveries(p, seq)
           W == Warnings(p, seq)
           O == Outages(p, seq)
           good == GoodRun(grown, L + 1, Policy[p].recovery)
           warn == BadRun(grown, L + 1, Policy[p].warning)
           out == BadRun(grown, L + 1, Policy[p].critical)
           R1 == Recoveries(p, grown)
           W1 == Warnings(p, grown)
           O1 == Outages(p, grown)
<1>3. R \subseteq 1..L /\ W \subseteq 1..L /\ O \subseteq 1..L
  BY <1>1, DecisionsGrow
<1>4. R1 = R \cup (IF good THEN {L + 1} ELSE {})
  BY <1>1, DecisionsGrow
<1>5. W1 = W \cup (IF warn THEN {L + 1} ELSE {})
  BY <1>1, DecisionsGrow
<1>6. O1 = O \cup (IF out THEN {L + 1} ELSE {})
  BY <1>1, DecisionsGrow
<1>7. good \in BOOLEAN /\ warn \in BOOLEAN /\ out \in BOOLEAN
  BY DEF GoodRun, BadRun
<1>8. ~(good /\ warn) /\ ~(good /\ out)
  BY SMT, <1>1, RunsGrow, PolicyRange
<1>9. Justified(p, entry) = IF R \cup W \cup O = {} THEN entry.start
                            ELSE IF \E i \in R : \A j \in R \cup W \cup O : j <= i THEN "Healthy"
                            ELSE IF \E i \in O : \A j \in R : j < i THEN "Unavailable"
                            ELSE "Degraded"
  BY DEF Justified
<1>10. Justified(p, after) = IF R1 \cup W1 \cup O1 = {} THEN entry.start
                             ELSE IF \E i \in R1 : \A j \in R1 \cup W1 \cup O1 : j <= i THEN "Healthy"
                             ELSE IF \E i \in O1 : \A j \in R1 : j < i THEN "Unavailable"
                             ELSE "Degraded"
  BY <1>2 DEF Justified
<1> DEFINE before == Justified(p, entry)
<1>11. L + 1 \in Int /\ \A i \in 1..L : i \in Int /\ i < L + 1
  BY SMT, <1>1
<1> HIDE DEF seq, grown, L, after, R, W, O, good, warn, out, R1, W1, O1, before
<1>12. CASE good
  <2>1. L + 1 \in R1 /\ \A j \in R1 \cup W1 \cup O1 : j <= L + 1
    BY SMT, <1>3, <1>4, <1>5, <1>6, <1>8, <1>11, <1>12
  <2>2. Justified(p, after) = "Healthy"
    BY <1>10, <2>1
  <2> QED BY <1>8, <1>12, <2>2 DEF after, grown, seq, good, warn, out, L
<1>13. CASE ~good /\ out
  <2>1. R1 = R /\ L + 1 \in O1 /\ \A j \in R1 : j < L + 1
    BY <1>3, <1>4, <1>6, <1>11, <1>13
  <2>2. ~ \E i \in R1 : \A j \in R1 \cup W1 \cup O1 : j <= i
    BY SMT, <1>3, <1>11, <2>1
  <2>3. Justified(p, after) = "Unavailable"
    BY <1>10, <2>1, <2>2
  <2> QED BY <1>13, <2>3 DEF after, grown, seq, good, warn, out, L
<1>14. CASE ~good /\ ~out /\ warn
  <2>1. R1 = R /\ O1 = O /\ L + 1 \in W1
    BY <1>4, <1>5, <1>6, <1>14
  <2>2. ~ \E i \in R1 : \A j \in R1 \cup W1 \cup O1 : j <= i
    BY SMT, <1>3, <1>11, <2>1
  <2>3. Justified(p, after) = IF \E i \in O : \A j \in R : j < i THEN "Unavailable" ELSE "Degraded"
    BY <1>10, <2>1, <2>2
  <2>4. ASSUME NEW i \in O, \A j \in R : j < i
        PROVE  ~ \E r \in R : \A j \in R \cup W \cup O : j <= r
    BY SMT, <1>3, <1>11, <2>4
  <2>5. before = "Unavailable" <=> \E i \in O : \A j \in R : j < i
    BY <1>1, <1>9, <2>4 DEF before
  <2>6. Justified(p, after) = IF before = "Unavailable" THEN "Unavailable" ELSE "Degraded"
    BY <2>3, <2>5
  <2> QED BY <1>14, <2>6 DEF after, grown, seq, good, warn, out, L, before
<1>15. CASE ~good /\ ~out /\ ~warn
  <2>1. R1 = R /\ O1 = O /\ W1 = W
    BY <1>4, <1>5, <1>6, <1>15
  <2>2. Justified(p, after) = before
    BY SMT, <1>9, <1>10, <2>1 DEF before
  <2> QED BY <1>15, <2>2 DEF after, grown, seq, good, warn, out, L, before
<1> QED BY <1>12, <1>13, <1>14, <1>15

\* A stream just set, with nothing measured since.
LEMMA FreshCoupled ==
    ASSUME NEW p \in Probe, NEW s, NEW h \in {"Unknown", "NotApplicable"},
           s.verdict = h, s.failures = 0, s.successes = 0
    PROVE  Coupled(s, p, Fresh(h))
<1> DEFINE entry == Fresh(h)
<1>1. entry.start = h /\ entry.seq = <<>> /\ entry \in Entry
  BY SMT DEF Fresh, Entry
<1>2. DOMAIN entry.seq = {} /\ Len(entry.seq) = 0
  BY SMT, <1>1
<1> HIDE DEF entry
<1>3. \A n \in 1..MaxCount : ~BadRun(entry.seq, 0, n) /\ ~GoodRun(entry.seq, 0, n) /\ ~(0 >= n)
  BY SMT, CountAssumption DEF BadRun, GoodRun
<1>4. Justified(p, entry) = h
  BY <1>1, <1>2 DEF Justified, Recoveries, Warnings, Outages
<1>5. Coupled(s, p, entry)
  BY <1>1, <1>2, <1>3, <1>4 DEF Coupled
<1> QED BY <1>5 DEF entry

\* Measuring keeps a stream coupled to its log, grown by the measurement.
LEMMA MeasuredCoupled ==
    ASSUME NEW p \in Probe, NEW s \in Stream, NEW entry, Coupled(s, p, entry),
           NEW status \in {"Ok", "Degraded", "Failed"}
    PROVE  Coupled(Measured(p, s, status), p, [entry EXCEPT !.seq = Append(@, status)])
<1> DEFINE seq == entry.seq
           grown == Append(seq, status)
           L == Len(seq)
           after == [entry EXCEPT !.seq = grown]
           failures == IF status = "Ok" THEN 0 ELSE Bump(s.failures)
           successes == IF status = "Ok" THEN Bump(s.successes) ELSE 0
           verdict == NextVerdict(p, s.verdict, failures, successes)
           new == Measured(p, s, status)
<1>0. MaxCount \in Nat /\ s.failures \in 0..MaxCount /\ s.successes \in 0..MaxCount /\ status \in Status
  BY CountAssumption DEF Stream, Status
<1>1. entry \in Entry /\ seq \in Seq(Status) /\ s.verdict = Justified(p, entry)
  BY DEF Coupled, Entry
<1>2. \A n \in 1..MaxCount : (s.failures >= n <=> BadRun(seq, L, n)) /\ (s.successes >= n <=> GoodRun(seq, L, n))
  BY DEF Coupled
<1>3. new.failures = failures /\ new.successes = successes /\ new.verdict = verdict
  <2> HIDE DEF failures, successes, verdict
  <2>1. new = [s EXCEPT !.failures = failures, !.successes = successes,
                        !.verdict = verdict, !.health = Cap(verdict, status)]
    BY DEF Measured, failures, successes, verdict
  <2> HIDE DEF new
  <2> QED BY <2>1 DEF Stream
<1>4. after \in Entry /\ after.seq = grown /\ Len(grown) = L + 1
  BY SMTT(30), <1>0, <1>1 DEF Entry
<1>5. \A n \in 1..MaxCount : n # 1 => n - 1 \in 1..MaxCount
  BY SMT, <1>0
<1>6. \A n \in 1..MaxCount : /\ failures >= n <=> status # "Ok" /\ (n = 1 \/ s.failures >= n - 1)
                             /\ successes >= n <=> status = "Ok" /\ (n = 1 \/ s.successes >= n - 1)
  BY SMT, <1>0 DEF Bump
<1>7. \A n \in 1..MaxCount : /\ GoodRun(grown, L + 1, n) <=> status = "Ok" /\ (n = 1 \/ GoodRun(seq, L, n - 1))
                             /\ BadRun(grown, L + 1, n) <=> status # "Ok" /\ (n = 1 \/ BadRun(seq, L, n - 1))
  BY <1>0, <1>1, RunsGrow
<1> HIDE DEF seq, grown, L, failures, successes
<1>8. \A n \in 1..MaxCount : (failures >= n <=> BadRun(grown, L + 1, n)) /\ (successes >= n <=> GoodRun(grown, L + 1, n))
  BY <1>2, <1>5, <1>6, <1>7
<1>9. verdict = Justified(p, after)
  <2>1. Justified(p, after) =
          IF \/ BadRun(grown, L + 1, Policy[p].critical)
             \/ BadRun(grown, L + 1, Policy[p].warning) /\ Justified(p, entry) = "Unavailable"
            THEN "Unavailable"
          ELSE IF BadRun(grown, L + 1, Policy[p].warning) THEN "Degraded"
          ELSE IF GoodRun(grown, L + 1, Policy[p].recovery) THEN "Healthy"
          ELSE Justified(p, entry)
    BY <1>0, <1>1, VerdictGrows DEF grown, seq, L
  <2>2. /\ failures >= Policy[p].critical <=> BadRun(grown, L + 1, Policy[p].critical)
        /\ failures >= Policy[p].warning <=> BadRun(grown, L + 1, Policy[p].warning)
        /\ successes >= Policy[p].recovery <=> GoodRun(grown, L + 1, Policy[p].recovery)
    BY <1>8, PolicyRange
  <2> HIDE DEF after
  <2> QED BY <1>1, <2>1, <2>2 DEF NextVerdict
<1> HIDE DEF new, after, verdict
<1>10. Coupled(new, p, after)
  BY <1>3, <1>4, <1>8, <1>9 DEF Coupled
<1>11. after = [entry EXCEPT !.seq = Append(@, status)]
  BY DEF after, grown, seq
<1> QED BY <1>10, <1>11 DEF new

\* Coupling looks at the debouncer only.
LEMMA CoupledSame ==
    ASSUME NEW p, NEW entry, NEW s, NEW t, Coupled(s, p, entry),
           t.verdict = s.verdict, t.failures = s.failures, t.successes = s.successes
    PROVE  Coupled(t, p, entry)
  BY DEF Coupled

\* A silenced stream is coupled to a log that starts over.
LEMMA SilencedCoupled ==
    ASSUME NEW p \in Probe, NEW s \in Stream
    PROVE  Coupled(Silenced(s), p, Fresh("Unknown"))
<1> DEFINE m == Silenced(s)
<1>1. m.verdict = "Unknown" /\ m.failures = 0 /\ m.successes = 0
  BY DEF Silenced, Forced, Stream
<1> HIDE DEF m
<1>2. Coupled(m, p, Fresh("Unknown"))
  BY <1>1, FreshCoupled
<1> QED BY <1>2 DEF m

\* The stream an answer is folded into, and the log it is appended to.
LEMMA OpenedCoupled ==
    ASSUME NEW e, Good(e), NEW k \in Key, NEW t \in Time, NEW entry,
           e.stream[k].seen => Coupled(e.stream[k], k[1], entry)
    PROVE  LET opened == [Opened(e, k) EXCEPT !.expired = FALSE, !.finished_at = t] IN
           /\ opened \in Stream
           /\ Coupled(opened, k[1], IF e.stream[k].seen THEN entry ELSE Fresh(Opened(e, k).verdict))
<1> DEFINE opened == [Opened(e, k) EXCEPT !.expired = FALSE, !.finished_at = t]
<1>0. e \in Engine /\ IsFold(e) /\ e.stream[k] \in Stream /\ k[1] \in Probe /\ Feeds[k[1]] \in Component
  BY KeyParts DEF Good, Engine
<1>1. CASE e.stream[k].seen
  <2> DEFINE s == e.stream[k]
  <2>1. Opened(e, k) = s
    BY <1>1 DEF Opened
  <2>2. opened \in Stream
    BY <1>0, <2>1 DEF Stream
  <2>3. opened.verdict = s.verdict /\ opened.failures = s.failures /\ opened.successes = s.successes
    BY <1>0, <2>1 DEF Stream
  <2> HIDE DEF opened, s
  <2>4. Coupled(s, k[1], entry)
    BY <1>1 DEF s
  <2>5. Coupled(opened, k[1], entry)
    BY <2>3, <2>4, CoupledSame
  <2> QED BY <1>1, <2>2, <2>5 DEF opened
<1>2. CASE ~e.stream[k].seen
  <2> DEFINE starting == IF HasStream(e.stream, Feeds[k[1]]) THEN "Unknown"
                         ELSE ComponentHealth(e, Feeds[k[1]])
  <2>1. starting \in {"Unknown", "NotApplicable"}
    BY <1>0 DEF IsFold, ComponentHealth
  <2>2. Opened(e, k) = [NoStream EXCEPT !.seen = TRUE, !.verdict = starting, !.health = starting]
    BY <1>2 DEF Opened
  <2> HIDE DEF starting
  <2>3. opened \in Stream
    <3>1. 0 \in 0..MaxCount /\ starting \in Health /\ 0 \in Time
      BY SMT, <2>1, CountAssumption, NumberAssumption DEF Health, Time
    <3>2. Opened(e, k) \in Stream
      BY <2>2, <3>1 DEF NoStream, Stream
    <3> QED BY <3>2 DEF Stream
  <2>4. /\ opened.verdict = starting /\ opened.failures = 0 /\ opened.successes = 0
        /\ Opened(e, k).verdict = starting
    BY <2>2 DEF NoStream
  <2> HIDE DEF opened
  <2>5. Coupled(opened, k[1], Fresh(starting))
    BY <1>0, <2>1, <2>4, FreshCoupled
  <2> QED BY <1>2, <2>3, <2>4, <2>5 DEF opened
<1> QED BY <1>1, <1>2

\* The stream an accepted answer leaves.
Heard(e, k, t, status) ==
    Answered(k[1], [Opened(e, k) EXCEPT !.expired = FALSE, !.finished_at = t], status)

\* An accepted answer changes its own stream only (StateEngine::ingest).
LEMMA IngestedStream ==
    ASSUME NEW e, Good(e), NEW k \in Key, NEW t \in Time, NEW status \in Status,
           Accepts(e, k, t), Heard(e, k, t, status) \in Stream
    PROVE  Ingested(e, k, t, status).stream = [e.stream EXCEPT ![k] = Heard(e, k, t, status)]
<1> DEFINE m == Heard(e, k, t, status)
           g == [e EXCEPT !.stream[k] = m]
<1>0. e \in Engine /\ Feeds[k[1]] \in Component
  BY KeyParts DEF Good
<1>1. Ingested(e, k, t, status) = Recomputed(g, {Feeds[k[1]]})
  BY DEF Ingested, Heard
<1>m. m \in Stream
  OBVIOUS
<1> HIDE DEF m
<1>2. g \in Engine /\ g.stream = [e.stream EXCEPT ![k] = m]
  BY <1>0, <1>m DEF Engine
<1> HIDE DEF g
<1>3. Recomputed(g, {Feeds[k[1]]}).stream = g.stream
  BY SMT, <1>0, <1>2, RecomputedEffect
<1> QED BY <1>1, <1>2, <1>3 DEF m

\* Any answer keeps a stream coupled: a measurement is logged, the other two
\* answers start the log over.
LEMMA AnsweredCoupled ==
    ASSUME NEW p \in Probe, NEW s \in Stream, NEW entry, Coupled(s, p, entry), NEW status \in Status
    PROVE  /\ Answered(p, s, status) \in Stream
           /\ Coupled(Answered(p, s, status), p,
                      CASE status = "Unsupported"   -> Fresh("Unknown")
                        [] status = "NotApplicable" -> Fresh("NotApplicable")
                        [] OTHER -> [entry EXCEPT !.seq = Append(@, status)])
<1>0. 0 \in 0..MaxCount /\ MaxCount \in Nat /\ s.failures \in 0..MaxCount /\ s.successes \in 0..MaxCount
  BY SMT, CountAssumption DEF Stream
<1>1. ASSUME NEW h \in {"Unknown", "NotApplicable"}
      PROVE  Forced(s, h) \in Stream /\ Coupled(Forced(s, h), p, Fresh(h))
  <2> DEFINE m == Forced(s, h)
  <2>1. m \in Stream
    BY <1>0 DEF Forced, Stream, Health
  <2>2. m.verdict = h /\ m.failures = 0 /\ m.successes = 0
    BY DEF Forced, Stream
  <2> HIDE DEF m
  <2>3. Coupled(m, p, Fresh(h))
    BY <2>2, FreshCoupled
  <2> QED BY <2>1, <2>3 DEF m
<1>2. CASE status = "Unsupported"
  BY <1>1, <1>2 DEF Answered
<1>3. CASE status = "NotApplicable"
  BY <1>1, <1>3 DEF Answered
<1>4. CASE status \in {"Ok", "Degraded", "Failed"}
  <2>1. Answered(p, s, status) = Measured(p, s, status)
    BY <1>4 DEF Answered
  <2>2. Measured(p, s, status) \in Stream
    <3> DEFINE failures == IF status = "Ok" THEN 0 ELSE Bump(s.failures)
               successes == IF status = "Ok" THEN Bump(s.successes) ELSE 0
               verdict == NextVerdict(p, s.verdict, failures, successes)
               health == Cap(verdict, status)
    <3>1. failures \in 0..MaxCount /\ successes \in 0..MaxCount
      BY SMT, <1>0 DEF Bump
    <3>2. verdict \in Health
      BY DEF NextVerdict, Health, Stream
    <3> HIDE DEF failures, successes, verdict
    <3>3. health \in Health
      BY <3>2 DEF Cap, Health
    <3>4. Measured(p, s, status) = [s EXCEPT !.failures = failures, !.successes = successes,
                                             !.verdict = verdict, !.health = health]
      BY DEF Measured, failures, successes, verdict
    <3> HIDE DEF health
    <3> QED BY <3>1, <3>2, <3>3, <3>4 DEF Stream
  <2>3. Coupled(Measured(p, s, status), p, [entry EXCEPT !.seq = Append(@, status)])
    BY <1>4, MeasuredCoupled
  <2> QED BY <1>4, <2>1, <2>2, <2>3
<1> QED BY <1>2, <1>3, <1>4 DEF Status

\* The streams StateEngine::expire leaves.
LEMMA ExpiredStream ==
    ASSUME NEW e \in Engine
    PROVE  Expired(e).stream =
               [k \in Key |-> IF Stale(e, k) THEN Silenced(e.stream[k]) ELSE e.stream[k]]
<1> DEFINE silent == {k \in Key : Stale(e, k)}
           g == [e EXCEPT !.stream =
                    [k \in Key |-> IF k \in silent THEN Silenced(@[k]) ELSE @[k]]]
<1>1. g.stream = [k \in Key |-> IF Stale(e, k) THEN Silenced(e.stream[k]) ELSE e.stream[k]]
  BY DEF Engine
<1>2. Expired(e).stream = g.stream
  BY DEF Expired, Recomputed, Engine
<1> QED BY <1>1, <1>2

\* The probes an accepted registration has switched back on and the engine has not.
Pending(k) == pc = "registering" /\ k[1] \in engine.disabled \ db.off

\* Every committed stream is coupled to its log, except while a registration
\* waits to silence it.
LogInvariant ==
    /\ Invariant
    /\ DOMAIN log = Key
    /\ \A k \in Key : db.stream[k].seen =>
          IF Pending(k) THEN log[k] = Fresh("Unknown")
          ELSE Coupled(db.stream[k], k[1], log[k])

\* No stream is committed yet.
LEMMA LogInvariantInit == HInit => LogInvariant
<1> SUFFICES ASSUME HInit PROVE LogInvariant
  OBVIOUS
<1>1. Invariant
  BY InvariantInit DEF HInit
<1>2. DOMAIN log = Key
  BY DEF HInit
<1>3. \A k \in Key : ~db.stream[k].seen
  BY DEF HInit, Init, EmptyEngine, NoStream
<1> QED BY <1>1, <1>2, <1>3 DEF LogInvariant

\* An observation is folded into its stream and appended to its log.
LEMMA ObserveLog ==
    ASSUME LogInvariant, Invariant', NEW k \in Key, NEW t \in Time, NEW status \in Status,
           HObserve(k, t, status)
    PROVE  LogInvariant'
<1>0. /\ pc = "up" /\ pc' = "up" /\ Good(engine) /\ engine \in Engine /\ k[1] \in Probe
      /\ db.stream = engine.stream /\ db'.stream = engine'.stream /\ DOMAIN log = Key
      /\ engine.stream \in [Key -> Stream]
      /\ \A j \in Key : engine.stream[j].seen => Coupled(engine.stream[j], j[1], log[j])
      /\ engine' = Ingested(engine, k, t, status) /\ log' = LogObserve(k, t, status)
  BY KeyParts DEF LogInvariant, Invariant, HObserve, Observe, Good, Engine, Pending
<1>1. CASE ~Accepts(engine, k, t)
  <2>1. engine' = engine /\ log' = log
    BY <1>0, <1>1 DEF Ingested, LogObserve
  <2> QED BY <1>0, <2>1 DEF LogInvariant, Pending
<1>2. CASE Accepts(engine, k, t)
  <2> DEFINE opened == [Opened(engine, k) EXCEPT !.expired = FALSE, !.finished_at = t]
             before == IF engine.stream[k].seen THEN log[k] ELSE Fresh(Opened(engine, k).verdict)
             m == Answered(k[1], opened, status)
             entry == CASE status = "Unsupported"   -> Fresh("Unknown")
                        [] status = "NotApplicable" -> Fresh("NotApplicable")
                        [] OTHER -> [before EXCEPT !.seq = Append(@, status)]
  <2>1. opened \in Stream /\ Coupled(opened, k[1], before)
    BY <1>0, OpenedCoupled
  <2>2. log' = [log EXCEPT ![k] = entry]
    BY <1>0, <1>2 DEF LogObserve
  <2> HIDE DEF before
  <2>3. m \in Stream /\ Coupled(m, k[1], entry)
    <3> HIDE DEF opened
    <3> QED BY <1>0, <2>1, AnsweredCoupled
  <2> HIDE DEF entry
  <2>4. Ingested(engine, k, t, status).stream = [engine.stream EXCEPT ![k] = m]
    <3>1. Good(engine) /\ Accepts(engine, k, t)
      BY <1>0, <1>2
    <3>2. m = Heard(engine, k, t, status)
      BY DEF Heard
    <3> HIDE DEF m, opened
    <3>3. Heard(engine, k, t, status) \in Stream
      BY <2>3, <3>2
    <3> QED BY SMTT(60), <3>1, <3>2, <3>3, IngestedStream
  <2> HIDE DEF m, opened
  <2>5. engine'.stream = [engine.stream EXCEPT ![k] = m]
    BY <1>0, <2>4
  <2>6. DOMAIN log' = Key /\ log'[k] = entry /\ engine'.stream[k] = m
    BY <1>0, <2>2, <2>5
  <2>7. \A j \in Key : j # k => log'[j] = log[j] /\ engine'.stream[j] = engine.stream[j]
    BY <1>0, <2>2, <2>5
  <2>8. ASSUME NEW j \in Key, db'.stream[j].seen
        PROVE  Coupled(db'.stream[j], j[1], log'[j])
    BY <1>0, <2>3, <2>6, <2>7, <2>8
  <2> QED BY <1>0, <2>6, <2>8 DEF LogInvariant, Pending
<1> QED BY <1>1, <1>2

\* A diagnosis silences the expired streams and forgets their logs.
LEMMA DiagnoseLog ==
    ASSUME LogInvariant, Invariant', HDiagnose
    PROVE  LogInvariant'
<1>0. /\ pc = "up" /\ pc' = "up" /\ engine \in Engine
      /\ db.stream = engine.stream /\ db'.stream = engine'.stream
      /\ engine.stream \in [Key -> Stream]
      /\ \A j \in Key : engine.stream[j].seen => Coupled(engine.stream[j], j[1], log[j])
      /\ engine' = Expired(engine) /\ log' = LogSilence({k \in Key : Stale(engine, k)})
  BY DEF LogInvariant, Invariant, HDiagnose, Diagnose, Good, Engine, Pending
<1>1. DOMAIN log' = Key /\ \A j \in Key : log'[j] = IF Stale(engine, j) THEN Fresh("Unknown") ELSE log[j]
  BY <1>0 DEF LogSilence
<1>2. \A j \in Key : engine'.stream[j] = IF Stale(engine, j) THEN Silenced(engine.stream[j]) ELSE engine.stream[j]
  BY <1>0, ExpiredStream
<1>3. ASSUME NEW j \in Key, db'.stream[j].seen
      PROVE  Coupled(db'.stream[j], j[1], log'[j])
  <2>1. CASE Stale(engine, j)
    BY <1>0, <1>1, <1>2, <2>1, KeyParts, SilencedCoupled
  <2>2. CASE ~Stale(engine, j)
    BY <1>0, <1>1, <1>2, <1>3, <2>2
  <2> QED BY <2>1, <2>2
<1> QED BY <1>0, <1>1, <1>3 DEF LogInvariant, Pending

\* An accepted registration forgets the logs of the probes it switches back on.
LEMMA RegisterInventoryLog ==
    ASSUME LogInvariant, Invariant', NEW off \in SUBSET Switchable, HRegisterInventory(off)
    PROVE  LogInvariant'
<1>0. /\ pc = "up" /\ pc' = "registering" /\ engine' = engine
      /\ db.stream = engine.stream /\ db'.stream = engine.stream /\ db'.off = off
      /\ \A j \in Key : engine.stream[j].seen => Coupled(engine.stream[j], j[1], log[j])
      /\ log' = LogSilence({k \in Key : engine.stream[k].seen /\ k[1] \in engine.disabled \ off})
  BY DEF LogInvariant, Invariant, HRegisterInventory, RegisterInventory, Pending, TypeOK, Database
<1>1. DOMAIN log' = Key
      /\ \A j \in Key : log'[j] = IF engine.stream[j].seen /\ j[1] \in engine.disabled \ off
                                  THEN Fresh("Unknown") ELSE log[j]
  BY <1>0 DEF LogSilence
<1>2. ASSUME NEW j \in Key, db'.stream[j].seen
      PROVE  IF j[1] \in engine'.disabled \ db'.off THEN log'[j] = Fresh("Unknown")
             ELSE Coupled(db'.stream[j], j[1], log'[j])
  BY <1>0, <1>1, <1>2
<1> QED BY <1>0, <1>1, <1>2 DEF LogInvariant, Pending

\* The engine catches up: the streams it silences are those whose logs are fresh.
LEMMA RegisterEngineLog ==
    ASSUME LogInvariant, Invariant', RegisterEngine, UNCHANGED log
    PROVE  LogInvariant'
<1>0. /\ pc = "registering" /\ pc' = "up" /\ engine \in Engine
      /\ db.stream = engine.stream /\ db'.stream = engine'.stream
      /\ engine.stream \in [Key -> Stream]
      /\ \A j \in Key : engine.stream[j].seen =>
            IF j[1] \in engine.disabled \ db.off THEN log[j] = Fresh("Unknown")
            ELSE Coupled(engine.stream[j], j[1], log[j])
      /\ engine' = Configured(engine, db.off) /\ log' = log /\ DOMAIN log = Key
  BY DEF LogInvariant, Invariant, RegisterEngine, Good, Engine, Pending
<1>1. \A j \in Key : engine'.stream[j] =
          IF engine.stream[j].seen /\ j[1] \in engine.disabled \ db.off
          THEN Silenced(engine.stream[j]) ELSE engine.stream[j]
  <2>1. Configured(engine, db.off).stream =
            [j \in Key |-> IF engine.stream[j].seen /\ j[1] \in engine.disabled \ db.off
                           THEN Silenced(engine.stream[j]) ELSE engine.stream[j]]
    BY <1>0, ConfiguredStream
  <2> QED BY <1>0, <2>1
<1>2. ASSUME NEW j \in Key, db'.stream[j].seen
      PROVE  Coupled(db'.stream[j], j[1], log'[j])
  <2>1. CASE engine.stream[j].seen /\ j[1] \in engine.disabled \ db.off
    BY SMTT(60), <1>0, <1>1, <2>1, KeyParts, SilencedCoupled
  <2>2. CASE ~(engine.stream[j].seen /\ j[1] \in engine.disabled \ db.off)
    BY <1>0, <1>1, <1>2, <2>2
  <2> QED BY <2>1, <2>2
<1> QED BY <1>0, <1>2 DEF LogInvariant, Pending

\* The committed streams and the log stand still, and nothing is pending.
LEMMA QuietLog ==
    ASSUME LogInvariant, Invariant', db'.stream = db.stream, log' = log,
           \A k \in Key : Pending(k)' <=> Pending(k)
    PROVE  LogInvariant'
  BY DEF LogInvariant

\* Every step keeps streams and logs coupled.
LEMMA LogInvariantStep ==
    ASSUME ~RegistrationFaults, LogInvariant, [HNext]_hvars
    PROVE  LogInvariant'
<1>1. [Next]_vars
  BY DEF HNext, hvars, vars, Next, HObserve, HDiagnose, HRegisterInventory, HQuiet
<1>2. Invariant'
  BY <1>1, InvariantStep DEF LogInvariant
<1>3. ASSUME NEW k \in Key, NEW t \in Time, NEW status \in Status, HObserve(k, t, status)
      PROVE  LogInvariant'
  BY <1>2, <1>3, ObserveLog
<1>4. CASE HDiagnose
  BY <1>2, <1>4, DiagnoseLog
<1>5. ASSUME NEW off \in SUBSET Switchable, HRegisterInventory(off)
      PROVE  LogInvariant'
  BY <1>2, <1>5, RegisterInventoryLog
<1>6. CASE Tick /\ UNCHANGED log
  BY <1>2, <1>6, QuietLog DEF Tick, Pending
<1>7. CASE RegisterEngine /\ UNCHANGED log
  BY <1>2, <1>7, RegisterEngineLog
<1>8. CASE RegisterAbort /\ UNCHANGED log
  BY <1>8 DEF RegisterAbort
<1>9. CASE Crash /\ UNCHANGED log
  BY <1>2, <1>9, QuietLog DEF Crash, Pending
<1>10. CASE Restart /\ UNCHANGED log
  <2>1. pc = "down" /\ pc' = "up" /\ log' = log
    BY <1>10 DEF Restart
  <2>2. LoadedEngine.stream = db.stream
    BY LoadedGood DEF LogInvariant, Invariant, TypeOK
  <2>3. db'.stream = engine'.stream /\ engine' = LoadedEngine
    BY <1>2, <1>10, <2>1 DEF Invariant, Restart
  <2> QED BY <1>2, <2>1, <2>2, <2>3, QuietLog DEF Pending
<1>11. CASE UNCHANGED hvars
  BY <1>2, <1>11, QuietLog DEF hvars, Pending
<1> QED BY <1>3, <1>4, <1>5, <1>6, <1>7, <1>8, <1>9, <1>10, <1>11 DEF HNext, HQuiet

\* A coupled stream that votes has the verdict its log justifies, and is shown
\* Healthy only with that verdict.
LEMMA LogInvariantSuffices ==
    ASSUME LogInvariant
    PROVE  VerdictMatchesLog
<1> SUFFICES ASSUME NEW k \in Key, Voting(k)
             PROVE  /\ engine.stream[k].verdict = Justified(k[1], log[k])
                    /\ engine.stream[k].health = "Healthy" =>
                          \E i \in DOMAIN log[k].seq : GoodRun(log[k].seq, i, Policy[k[1]].recovery)
  BY DEF VerdictMatchesLog
<1>1. /\ Coupled(engine.stream[k], k[1], log[k]) /\ SoundStream(engine.stream[k], k[1])
  BY DEF LogInvariant, Voting, Pending, Invariant, Good, Sound
<1>2. engine.stream[k].verdict = Justified(k[1], log[k]) /\ log[k].start \in {"Unknown", "NotApplicable"}
  BY <1>1 DEF Coupled, Entry
<1>3. engine.stream[k].health = "Healthy" => engine.stream[k].verdict = "Healthy"
  BY <1>1 DEF SoundStream
<1>4. Justified(k[1], log[k]) = "Healthy" => \E i \in Recoveries(k[1], log[k].seq) : TRUE
  BY <1>2 DEF Justified
<1> QED BY <1>2, <1>3, <1>4 DEF Recoveries

\* The debouncer's two counters decide exactly as the whole history does
\* (Debouncer::observe), however often evidence expires, a probe is switched off
\* and on, an upload is replayed or the controller restarts, provided no
\* registration is interrupted between its two commits.
THEOREM CountersDecideAsTheLog ==
    ASSUME ~RegistrationFaults
    PROVE  HSpec => []VerdictMatchesLog
<1>1. HInit => LogInvariant
  BY LogInvariantInit
<1>2. LogInvariant /\ [HNext]_hvars => LogInvariant'
  BY LogInvariantStep
<1>3. LogInvariant => VerdictMatchesLog
  BY LogInvariantSuffices
<1> QED
  BY <1>1, <1>2, <1>3, PTL DEF HSpec
=============================================================================
