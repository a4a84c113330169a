------------------------- MODULE StateEngineHistory -------------------------
(***************************************************************************)
(* StateEngine with a history variable: for each stream, the measurements  *)
(* it has accepted since its verdict was last set without one (the stream  *)
(* was opened, its evidence expired, its probe was switched back on, or a  *)
(* probe answered Unsupported or NotApplicable) and the health it was set  *)
(* to.  The debouncer's counters are then compared with a definition of    *)
(* hysteresis that looks at the whole log.                                 *)
(***************************************************************************)
EXTENDS StateEngine, Sequences, FiniteSets, FiniteSetsExt

CONSTANT MaxLog   \* bound on the measurements logged, all streams together

VARIABLE log      \* [Key -> [start : Health, seq : Seq(Status)]]

hvars == <<now, pc, engine, db, log>>

Fresh(h) == [start |-> h, seq |-> <<>>]

LogObserve(k, t, status) ==
    LET opened == IF engine.stream[k].seen THEN log[k]
                  ELSE Fresh(Opened(engine, k).verdict)
    IN  IF ~Accepts(engine, k, t) THEN log
        ELSE [log EXCEPT ![k] =
                CASE status = "Unsupported"   -> Fresh("Unknown")
                  [] status = "NotApplicable" -> Fresh("NotApplicable")
                  [] OTHER -> [opened EXCEPT !.seq = Append(@, status)]]

\* The streams of K were set to Unknown.
LogSilence(K) == [k \in Key |-> IF k \in K THEN Fresh("Unknown") ELSE log[k]]

HInit == Init /\ log = [k \in Key |-> Fresh("Unknown")]

HObserve(k, t, status) ==
    /\ MapThenSumSet(LAMBDA j : Len(log[j].seq), Key) < MaxLog
    /\ Observe(k, t, status)
    /\ log' = LogObserve(k, t, status)

HDiagnose == Diagnose /\ log' = LogSilence({k \in Key : Stale(engine, k)})

\* The agent's registration is what asks for new measurements of the probes it
\* switches back on, so the log forgets the old ones as soon as it is accepted.
HRegisterInventory(off) ==
    /\ RegisterInventory(off)
    /\ log' = LogSilence({k \in Key : engine.stream[k].seen /\ k[1] \in engine.disabled \ off})

HQuiet == (Tick \/ RegisterEngine \/ RegisterAbort \/ Crash \/ Restart) /\ UNCHANGED log

HNext ==
    \/ \E k \in Key, t \in Time, status \in Status : HObserve(k, t, status)
    \/ HDiagnose
    \/ \E off \in SUBSET Switchable : HRegisterInventory(off)
    \/ HQuiet

HSpec == HInit /\ [][HNext]_hvars

-----------------------------------------------------------------------------
(* Hysteresis as a predicate of the whole log.                             *)

\* The last n entries up to i are all good (all bad).
GoodRun(seq, i, n) == i >= n /\ \A j \in (i - n + 1)..i : seq[j] = "Ok"
BadRun(seq, i, n) == i >= n /\ \A j \in (i - n + 1)..i : seq[j] # "Ok"

Recoveries(p, seq) == {i \in DOMAIN seq : GoodRun(seq, i, Policy[p].recovery)}
Warnings(p, seq) == {i \in DOMAIN seq : BadRun(seq, i, Policy[p].warning)}
Outages(p, seq) == {i \in DOMAIN seq : BadRun(seq, i, Policy[p].critical)}

\* The verdict a log justifies: the newest run long enough to decide decides,
\* and an outage, once declared, lasts until a recovery.
Justified(p, entry) ==
    LET recoveries == Recoveries(p, entry.seq)
        outages    == Outages(p, entry.seq)
        decisive   == recoveries \cup Warnings(p, entry.seq) \cup outages
    IN  IF decisive = {} THEN entry.start
        ELSE IF \E i \in recoveries : \A j \in decisive : j <= i THEN "Healthy"
        ELSE IF \E i \in outages : \A j \in recoveries : j < i THEN "Unavailable"
        ELSE "Degraded"

Voting(k) == pc = "up" /\ engine.stream[k].seen /\ k[1] \notin engine.disabled

\* The debouncer's two counters decide exactly as the whole log does, across
\* expiry, switching a probe off and on, replays and restarts; and re-enabling a
\* probe requires new measurements instead of reviving old health: a stream that
\* votes Healthy has a full recovery run in its log since.
VerdictMatchesLog ==
    \A k \in Key : Voting(k) =>
        /\ engine.stream[k].verdict = Justified(k[1], log[k])
        /\ engine.stream[k].health = "Healthy" =>
              \E i \in DOMAIN log[k].seq : GoodRun(log[k].seq, i, Policy[k[1]].recovery)
=============================================================================
