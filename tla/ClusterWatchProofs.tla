-------------------------- MODULE ClusterWatchProofs --------------------------
(***************************************************************************)
(* For every cluster, every assignment of peers and every history of       *)
(* faults: what is diagnosed has a cause and cites evidence, and the       *)
(* stories told about one host do not contradict each other.               *)
(*                                                                         *)
(* The picture a pass reads is any mix of old and new answers, so the      *)
(* argument is about one pass on an arbitrary picture.  All the invariant  *)
(* has to say of it is that every source has an answer or none, and that   *)
(* the scheduler's was given by a slurmctld that was there to give it.     *)
(* From a health or an observation a rule reads, the lemmas go back to the *)
(* stream it came from, from there to the world the stream was measured    *)
(* in, and to the fault in that world.                                     *)
(***************************************************************************)
EXTENDS ClusterWatch, FiniteSetTheorems, WellFoundedInduction, TLAPS

\* Most steps are first-order: Zenon, unless a step says otherwise.
USE Zenon

-----------------------------------------------------------------------------
(* Who asks what.                                                          *)

AnyProbe == RemoteProbe \cup {"host.metrics", "nfs.client.mount", "nfs.client.io",
                              "nfs.server.exports", "systemd.unit", "slurm.node",
                              "slurm.controller"}

\* A stream is one question of one source.
LEMMA StreamAsks ==
    ASSUME NEW s \in Streams
    PROVE  /\ s.source \in Source
           /\ \E pair \in Asks(s.source) : s.target = pair[1] /\ s.probe = pair[2]
  BY SMT DEF Streams

\* Every question of a source is a stream.
LEMMA AsksStream ==
    ASSUME NEW src \in Source, NEW e, NEW probe, <<e, probe>> \in Asks(src)
    PROVE  [source |-> src, target |-> e, probe |-> probe] \in Streams
  BY SMT DEF Streams

\* The questions of a host: those it asks of others, and those of itself.
LEMMA HostAsks ==
    ASSUME NEW src \in Source, NEW pair \in Asks(src), src # TheScheduler
    PROVE  /\ src \in Host
           /\ \/ pair[2] \in RemoteProbe /\ pair[1] \in Targets(src)
                 /\ (pair[2] = "nfs.server.port" => pair[1] \in Packaged)
              \/ /\ pair[2] \in {"host.metrics", "nfs.client.mount", "nfs.client.io",
                                 "nfs.server.exports"}
                 /\ pair[1] = src
              \/ pair[2] = "systemd.unit"
  BY SMT DEF Source, Asks, RemoteAsks, LocalAsks

\* The scheduler is asked for its nodes and its daemons.
LEMMA SchedulerAsks ==
    ASSUME NEW pair \in Asks(TheScheduler)
    PROVE  pair[2] \in {"slurm.node", "slurm.controller"}
  BY DEF Asks

\* A remote stream is an agent's view of another host it was assigned.
LEMMA RemoteStream ==
    ASSUME NEW s \in Streams, s.probe \in RemoteProbe
    PROVE  /\ s.source \in Host /\ s.source # TheScheduler /\ s.target \in Targets(s.source)
           /\ s.probe = "nfs.server.port" => s.target \in Packaged
<1>1. PICK pair \in Asks(s.source) : s.target = pair[1] /\ s.probe = pair[2]
  BY StreamAsks
<1>2. s.source \in Source
  BY StreamAsks
<1>3. s.source # TheScheduler
  BY <1>1, SchedulerAsks DEF RemoteProbe
<1> QED BY <1>1, <1>2, <1>3, HostAsks DEF RemoteProbe

\* A host measures its own storage.
LEMMA LocalStream ==
    ASSUME NEW s \in Streams,
           s.probe \in {"nfs.client.mount", "nfs.client.io", "nfs.server.exports"}
    PROVE  s.source \in Host /\ s.source # TheScheduler /\ s.target = s.source
<1>1. PICK pair \in Asks(s.source) : s.target = pair[1] /\ s.probe = pair[2]
  BY StreamAsks
<1>2. s.source \in Source
  BY StreamAsks
<1>3. s.source # TheScheduler
  BY <1>1, SchedulerAsks
<1> QED BY <1>1, <1>2, <1>3, HostAsks DEF RemoteProbe

\* Exports are listed where the server software is (NfsExportsProbe).
LEMMA ServerStream ==
    ASSUME NEW s \in Streams, s.probe = "nfs.server.exports" PROVE s.target \in Packaged
<1>1. PICK pair \in Asks(s.source) : s.target = pair[1] /\ s.probe = pair[2]
  BY StreamAsks
<1>2. s.source # TheScheduler
  BY LocalStream
<1> QED BY SMT, <1>1, <1>2 DEF Asks, RemoteAsks, LocalAsks, RemoteProbe

\* What is known of Slurm comes from the scheduler.
LEMMA SchedulerStream ==
    ASSUME NEW s \in Streams, s.probe \in {"slurm.node", "slurm.controller"}
    PROVE  s.source = TheScheduler
<1>1. PICK pair \in Asks(s.source) : s.target = pair[1] /\ s.probe = pair[2]
  BY StreamAsks
<1> QED BY <1>1, StreamAsks, HostAsks DEF RemoteProbe

\* The probes there are.
LEMMA StreamProbe == ASSUME NEW s \in Streams PROVE s.probe \in AnyProbe
<1>1. PICK pair \in Asks(s.source) : s.target = pair[1] /\ s.probe = pair[2]
  BY StreamAsks
<1> QED BY <1>1, StreamAsks, HostAsks, SchedulerAsks DEF AnyProbe, RemoteProbe

\* Whoever asks a host anything remotely asks it the three questions every host
\* is asked.
LEMMA Sibling ==
    ASSUME NEW s \in Streams, s.probe \in RemoteProbe,
           NEW probe \in {"network.tcp", "ssh.service", "sentinel.agent"}
    PROVE  [source |-> s.source, target |-> s.target, probe |-> probe] \in Streams
<1>1. s.source \in Source /\ s.source # TheScheduler /\ s.target \in Targets(s.source)
  BY RemoteStream DEF Source
<1>2. <<s.target, probe>> \in Asks(s.source)
  BY <1>1 DEF Asks, RemoteAsks, RemoteProbe
<1> QED BY <1>1, <1>2, AsksStream

-----------------------------------------------------------------------------
(* What a pass is given.                                                   *)

Living(s) == seen[s.source] # Nothing

\* An observation is the answer of a stream that has not expired.
LEMMA ContextObs ==
    ASSUME NEW n
    PROVE  Context(n).obs = {Obs(s) : s \in {x \in Streams : Living(x)}}
  BY DEF Context, Living

\* The healths a pass is given are folded from the streams (recompute).
LEMMA ContextHealth ==
    ASSUME NEW n
    PROVE  Context(n).health = {<<x[1], x[2], Worst({StreamHealth(s) : s \in Voting(x[3])})>> :
                                    x \in Components}
  BY DEF Context

\* The topology a pass is given.
LEMMA ContextRest ==
    ASSUME NEW n
    PROVE  /\ Context(n).hosts = Host
           /\ Context(n).uses = Client \X {Storage}
           /\ Context(n).provides = {<<Storage, Server>>} \cup {<<TheScheduler, d>> : d \in Daemons}
                  \cup {<<Slurmctld(Ctld[i]), Ctld[i]>> : i \in DOMAIN Ctld}
  BY DEF Context

\* What an observation carries.
LEMMA ObsFields ==
    ASSUME NEW s
    PROVE  LET answer == ReportOf(seen[s.source], s.source, s.target, s.probe)
           IN  /\ Obs(s).target = s.target /\ Obs(s).probe = s.probe
               /\ Obs(s).status = answer.status /\ Obs(s).payload = answer.payload
               /\ s.probe \in RemoteProbe => Obs(s).observer = s.source
  BY DEF Obs

\* Evidence about an entity comes from a living stream about it.
LEMMA Observed ==
    ASSUME NEW n, NEW e, NEW o \in ForEntity(Context(n), e)
    PROVE  \E s \in Streams : Living(s) /\ o = Obs(s) /\ s.target = e /\ s.probe = o.probe
<1>1. PICK s \in Streams : Living(s) /\ o = Obs(s)
  BY ContextObs DEF ForEntity
<1>2. o.target = e
  BY DEF ForEntity
<1> QED BY <1>1, <1>2, ObsFields

\* A living stream is evidence about its target.
LEMMA Cites ==
    ASSUME NEW n, NEW s \in Streams, Living(s)
    PROVE  ForEntity(Context(n), s.target) # {}
<1>1. Obs(s) \in ForEntity(Context(n), s.target)
  BY ContextObs, ObsFields DEF ForEntity
<1> QED BY <1>1

\* The health of a component is the worst of its voting streams.
LEMMA Folded ==
    ASSUME NEW n, NEW e, NEW c, NEW v, Component(Context(n), e, c, v)
    PROVE  v = Worst({StreamHealth(s) : s \in Voting(StreamsOf(e, c))})
<1>1. PICK x \in Components :
          <<e, c, v>> = <<x[1], x[2], Worst({StreamHealth(s) : s \in Voting(x[3])})>>
  BY ContextHealth DEF Component
<1>2. x[1] = e /\ x[2] = c /\ v = Worst({StreamHealth(s) : s \in Voting(x[3])})
  BY <1>1
<1>3. x[3] = StreamsOf(x[1], x[2])
  BY SMT DEF Components
<1> QED BY <1>2, <1>3

\* A component is broken because one of its living streams is.
LEMMA BrokenBy ==
    ASSUME NEW n, NEW e, NEW c, IsBroken(Context(n), e, c)
    PROVE  \E s \in Streams : /\ Living(s) /\ s.target = e /\ ComponentOf(s.probe) = c
                              /\ StreamHealth(s) \in {"Unavailable", "Degraded"}
<1> DEFINE votes == {StreamHealth(s) : s \in Voting(StreamsOf(e, c))}
<1>1. Worst(votes) \in {"Unavailable", "Degraded"}
  BY Folded DEF IsBroken
<1>2. {"Unavailable", "Degraded"} \cap votes # {}
  BY <1>1 DEF Worst
<1>3. PICK s \in Voting(StreamsOf(e, c)) : StreamHealth(s) \in {"Unavailable", "Degraded"}
  BY <1>2
<1>4. Living(s)
  BY <1>3 DEF StreamHealth, Living
<1> QED BY <1>3, <1>4 DEF Voting, StreamsOf

\* Healthy is said only when nobody says worse.
LEMMA WorstHealthy ==
    ASSUME NEW votes, Worst(votes) = "Healthy"
    PROVE  "Unavailable" \notin votes /\ "Degraded" \notin votes /\ "Unknown" \notin votes
<1>1. CASE "Unavailable" \in votes
  BY <1>1 DEF Worst
<1>2. CASE "Unavailable" \notin votes /\ "Degraded" \in votes
  BY <1>2 DEF Worst
<1>3. CASE "Unavailable" \notin votes /\ "Degraded" \notin votes /\ "Unknown" \in votes
  BY <1>3 DEF Worst
<1> QED BY <1>1, <1>2, <1>3

\* In a healthy component no living stream says otherwise.
LEMMA HealthyAll ==
    ASSUME NEW n, NEW e, NEW c, IsHealthy(Context(n), e, c),
           NEW s \in Streams, Living(s), s.target = e, ComponentOf(s.probe) = c
    PROVE  StreamHealth(s) \notin {"Unavailable", "Degraded", "Unknown"}
<1> DEFINE votes == {StreamHealth(t) : t \in Voting(StreamsOf(e, c))}
<1>1. Worst(votes) = "Healthy"
  BY Folded DEF IsHealthy
<1>2. s \in Voting(StreamsOf(e, c))
  BY DEF Voting, StreamsOf, Living
<1>3. StreamHealth(s) \in votes
  BY <1>2
<1> HIDE DEF votes
<1> QED BY <1>1, <1>3, WorstHealthy

-----------------------------------------------------------------------------
(* What an answer says of the world it was taken from.                     *)

\* The world of the newest answer is behind the picture.
LEMMA BehindSeen ==
    ASSUME NEW src \in Source, seen[src] # Nothing
    PROVE  seen[src] \subseteq Behind
  BY DEF Behind

\* So is the world of the debounced health.
LEMMA BehindHeld ==
    ASSUME NEW src \in Source, held[src] # Nothing
    PROVE  held[src] \subseteq Behind
  BY DEF Behind

\* A remote answer.
LEMMA RemoteReport ==
    ASSUME NEW s \in Streams, s.probe \in RemoteProbe, NEW w
    PROVE  ReportOf(w, s.source, s.target, s.probe) = Remote(w, s.source, s.target, s.probe)
  BY RemoteStream DEF ReportOf

\* What a failed connection tells of the world.
LEMMA Unconnected ==
    ASSUME NEW w, NEW a, NEW b, NEW service
    PROVE  LET met == Connect(w, a, b, service)
           IN  /\ met \in Answer
               /\ met \in {"timed_out", "failed"} =>
                     <<"down", b>> \in w \/ <<"cut", {a, b}>> \in w
               /\ met = "refused" => <<service, b>> \in w
               /\ met \in {"connected", "refused"} <=> Up(w, b) /\ Linked(w, a, b)
  BY DEF Connect, Up, Linked, Answer

\* What a remote stream's health rests on.
LEMMA RemoteHealth ==
    ASSUME NEW s \in Streams, Living(s), s.probe \in RemoteProbe
    PROVE  StreamHealth(s) = IF held[s.source] = Nothing THEN "Unknown"
                             ELSE Implied(Remote(held[s.source], s.source, s.target, s.probe).status)
<1> DEFINE status(w) == Remote(w, s.source, s.target, s.probe).status
<1>1. \A w : status(w) \in {"Ok", "Degraded", "Failed", "Timeout"}
  <2> SUFFICES ASSUME NEW w PROVE status(w) \in {"Ok", "Degraded", "Failed", "Timeout"}
    OBVIOUS
  <2>1. s.probe \in {"network.tcp", "ssh.service", "sentinel.agent", "nfs.server.port"}
    BY DEF RemoteProbe
  <2>2. CASE s.probe = "network.tcp"
    BY <2>2 DEF Remote, Reachability, Says, ConnectStatus
  <2>3. CASE s.probe = "ssh.service"
    BY <2>3 DEF Remote, SshService, Says, ConnectStatus
  <2>4. CASE s.probe = "sentinel.agent"
    BY <2>4 DEF Remote, AgentService, Says, ConnectStatus
  <2>5. CASE s.probe = "nfs.server.port"
    BY <2>5 DEF Remote, NfsPort, Says, ConnectStatus
  <2> QED BY <2>1, <2>2, <2>3, <2>4, <2>5
<1>2. \A w : ReportOf(w, s.source, s.target, s.probe).status = status(w)
  BY RemoteReport
<1>3. ~Immediate(s.probe)
  BY DEF Immediate, RemoteProbe
<1> HIDE DEF status
<1>4. StreamHealth(s) = IF held[s.source] = Nothing THEN "Unknown" ELSE Implied(status(held[s.source]))
  BY <1>1, <1>2, <1>3 DEF StreamHealth, Living, IsConclusive
<1> QED BY <1>4 DEF status

\* The host was up, and the path to it whole, when its network was last found well.
LEMMA NetworkWell ==
    ASSUME NEW n, NEW s \in Streams, Living(s), s.probe \in RemoteProbe,
           IsHealthy(Context(n), s.target, "Network")
    PROVE  /\ held[s.source] # Nothing
           /\ Up(held[s.source], s.target) /\ Linked(held[s.source], s.source, s.target)
<1> DEFINE t == [source |-> s.source, target |-> s.target, probe |-> "network.tcp"]
           met == Connect(held[s.source], s.source, s.target, "sshd")
<1>1. t \in Streams /\ Living(t) /\ t.probe \in RemoteProbe /\ ComponentOf(t.probe) = "Network"
  BY Sibling DEF Living, RemoteProbe, ComponentOf
<1>2. StreamHealth(t) \notin {"Unavailable", "Degraded", "Unknown"}
  BY <1>1, HealthyAll
<1>3. held[s.source] # Nothing
      /\ Implied(Remote(held[s.source], s.source, s.target, "network.tcp").status)
            \notin {"Unavailable", "Degraded", "Unknown"}
  BY <1>1, <1>2, RemoteHealth
<1>4. Remote(held[s.source], s.source, s.target, "network.tcp").status =
        IF met = "refused" THEN "Ok" ELSE ConnectStatus(met)
  BY DEF Remote, Reachability, Says
<1>5. met \in Answer
  BY Unconnected
<1> HIDE DEF met
<1>6. met \in {"connected", "refused"}
  BY <1>3, <1>4, <1>5 DEF ConnectStatus, Implied, IsBad, Answer
<1> QED BY <1>3, <1>6, Unconnected DEF met

-----------------------------------------------------------------------------
(* Each rule, on a picture of any mix of answers.                          *)

Sound(d) == Caused(d, Behind) /\ d.evidence # {}

\* An observer that could not reach the host.
LEMMA FailedVote ==
    ASSUME NEW n, NEW h, NEW o \in FailedBy(Context(n), h)
    PROVE  \E s \in Streams : /\ Living(s) /\ s.probe = "network.tcp" /\ s.target = h /\ s.source = o
                              /\ Connect(seen[o], o, h, "sshd") \in {"timed_out", "failed"}
<1>1. PICK v \in Votes(Context(n), h) : ~v.payload.host_responded /\ o = v.observer
  BY DEF FailedBy
<1>2. v \in ForEntity(Context(n), h) /\ v.probe = "network.tcp"
  BY DEF Votes
<1>3. PICK s \in Streams : Living(s) /\ v = Obs(s) /\ s.target = h /\ s.probe = "network.tcp"
  BY SMT, <1>2, Observed
<1>4. s.source = o /\ v.payload = Remote(seen[o], o, h, "network.tcp").payload
  BY <1>1, <1>3, ObsFields, RemoteReport DEF RemoteProbe
<1>5. v.payload.host_responded = ProvesHostResponds(Connect(seen[o], o, h, "sshd"))
  BY SMT, <1>4 DEF Remote, Reachability, Says
<1>6. ~ProvesHostResponds(Connect(seen[o], o, h, "sshd"))
  BY <1>1, <1>5
<1>7. Connect(seen[o], o, h, "sshd") \in Answer
  BY Unconnected
<1>8. Connect(seen[o], o, h, "sshd") \in {"timed_out", "failed"}
  BY <1>6, <1>7 DEF ProvesHostResponds, Answer
<1> QED BY <1>3, <1>4, <1>8

\* Whoever misses a host is cut off from it, unless it was down.
LEMMA FailedIsCut ==
    ASSUME NEW n, NEW h, NEW o \in FailedBy(Context(n), h)
    PROVE  <<"down", h>> \in Behind \/ o \in CutFrom(Behind, h)
<1>1. PICK s \in Streams : /\ Living(s) /\ s.probe = "network.tcp" /\ s.target = h /\ s.source = o
                           /\ Connect(seen[o], o, h, "sshd") \in {"timed_out", "failed"}
  BY FailedVote
<1>2. o \in Host /\ h \in Targets(o)
  BY <1>1, RemoteStream DEF RemoteProbe
<1>3. <<"down", h>> \in seen[o] \/ <<"cut", {o, h}>> \in seen[o]
  BY <1>1, Unconnected
<1>4. seen[o] \subseteq Behind
  BY <1>1, <1>2, BehindSeen DEF Living, Source
<1> QED BY <1>2, <1>3, <1>4 DEF CutFrom

\* A failed vote is evidence.
LEMMA FailedCited ==
    ASSUME NEW n, NEW h, FailedBy(Context(n), h) # {} PROVE ForEntity(Context(n), h) # {}
  BY DEF FailedBy, Votes

\* Rule HOST_UNREACHABLE: two observers and nobody against.
LEMMA HostUnreachableSound ==
    ASSUME NEW n, NEW d \in HostUnreachable(Context(n)) PROVE Sound(d)
<1>1. PICK h \in Host : /\ UnanimouslyUnreachable(Context(n), h)
                        /\ d = Diagnosed("HOST_UNREACHABLE", {h}, {h}, "High", ForEntity(Context(n), h))
  BY ContextRest DEF HostUnreachable
<1>2. d.kind = "HOST_UNREACHABLE" /\ d.affected = {h} /\ d.evidence = ForEntity(Context(n), h)
  BY <1>1 DEF Diagnosed
<1>3. Cardinality(FailedBy(Context(n), h)) >= 2
  BY <1>1 DEF UnanimouslyUnreachable
<1>4. FailedBy(Context(n), h) # {}
  BY SMT, <1>3, FS_EmptySet
<1>5. CASE <<"down", h>> \notin Behind
  <2>1. FailedBy(Context(n), h) \subseteq CutFrom(Behind, h)
    BY <1>5, FailedIsCut
  <2>2. IsFiniteSet(CutFrom(Behind, h))
    BY WatchAssumption, FS_Subset DEF CutFrom
  <2>3. /\ Cardinality(FailedBy(Context(n), h)) <= Cardinality(CutFrom(Behind, h))
        /\ IsFiniteSet(FailedBy(Context(n), h))
    BY <2>1, <2>2, FS_Subset
  <2>4. Cardinality(FailedBy(Context(n), h)) \in Nat /\ Cardinality(CutFrom(Behind, h)) \in Nat
    BY <2>2, <2>3, FS_CardinalityType
  <2>5. Cardinality(CutFrom(Behind, h)) > 1
    BY SMT, <1>3, <2>3, <2>4
  <2> QED BY <1>2, <1>4, <2>5, FailedCited DEF Sound, Caused
<1>6. CASE <<"down", h>> \in Behind
  BY <1>2, <1>4, <1>6, FailedCited DEF Sound, Caused
<1> QED BY <1>5, <1>6

\* Rule PATH_SPECIFIC_NETWORK_FAILURE: the observers disagree.
LEMMA PathSound ==
    ASSUME NEW n, NEW d \in PathSpecificNetworkFailure(Context(n)) PROVE Sound(d)
<1>1. PICK h \in Host :
          /\ Disagree(Context(n), h)
          /\ d = Diagnosed("PATH_SPECIFIC_NETWORK_FAILURE", {h}, FailedBy(Context(n), h) \cup {h}, "High",
                           ForEntity(Context(n), h))
  BY ContextRest DEF PathSpecificNetworkFailure
<1>2. d.kind = "PATH_SPECIFIC_NETWORK_FAILURE" /\ d.affected = {h} /\ d.evidence = ForEntity(Context(n), h)
  BY <1>1 DEF Diagnosed
<1>3. FailedBy(Context(n), h) # {}
  BY <1>1 DEF Disagree
<1>4. <<"down", h>> \in Behind \/ CutFrom(Behind, h) # {}
  BY <1>3, FailedIsCut
<1> QED BY <1>2, <1>3, <1>4, FailedCited DEF Sound, Caused

\* The broken service of a host whose network is well.
LEMMA BrokenService ==
    ASSUME NEW n, NEW h, NEW c \in {"Ssh", "Agent"}, NEW probe,
           probe = IF c = "Ssh" THEN "ssh.service" ELSE "sentinel.agent",
           IsBroken(Context(n), h, c), IsHealthy(Context(n), h, "Network")
    PROVE  \E s \in Streams :
              /\ Living(s) /\ s.target = h /\ held[s.source] # Nothing /\ s.source \in Source
              /\ Up(held[s.source], h) /\ Linked(held[s.source], s.source, h)
              /\ Remote(held[s.source], s.source, h, probe).status \notin {"Ok", "Unsupported", "NotApplicable"}
<1>1. PICK s \in Streams : /\ Living(s) /\ s.target = h /\ ComponentOf(s.probe) = c
                           /\ StreamHealth(s) \in {"Unavailable", "Degraded"}
  BY BrokenBy
<1>2. s.probe = probe /\ s.probe \in RemoteProbe
  BY <1>1, StreamProbe DEF AnyProbe, ComponentOf, RemoteProbe
<1>3. /\ held[s.source] # Nothing
      /\ Up(held[s.source], h) /\ Linked(held[s.source], s.source, h)
  BY <1>1, <1>2, NetworkWell
<1>4. Implied(Remote(held[s.source], s.source, h, probe).status) \in {"Unavailable", "Degraded"}
  BY <1>1, <1>2, <1>3, RemoteHealth
<1>5. Remote(held[s.source], s.source, h, probe).status \notin {"Ok", "Unsupported", "NotApplicable"}
  BY <1>4 DEF Implied, IsBad
<1>6. s.source \in Source
  BY StreamAsks
<1> QED BY <1>1, <1>3, <1>5, <1>6

\* Rule SSH_SERVICE_FAILURE.
LEMMA SshSound ==
    ASSUME NEW n, NEW d \in SshServiceFailure(Context(n)) PROVE Sound(d)
<1>1. PICK h \in Host :
          /\ IsBroken(Context(n), h, "Ssh") /\ IsHealthy(Context(n), h, "Network")
          /\ d.kind = "SSH_SERVICE_FAILURE" /\ d.affected = {h} /\ d.evidence = ForEntity(Context(n), h)
  BY SMT, ContextRest DEF SshServiceFailure, Diagnosed
<1>2. PICK s \in Streams :
          /\ Living(s) /\ s.target = h /\ held[s.source] # Nothing /\ s.source \in Source
          /\ Up(held[s.source], h) /\ Linked(held[s.source], s.source, h)
          /\ Remote(held[s.source], s.source, h, "ssh.service").status \notin {"Ok", "Unsupported", "NotApplicable"}
  BY <1>1, BrokenService
<1>3. <<"sshd", h>> \in held[s.source] \/ <<"stalled", h>> \in held[s.source]
  BY <1>2 DEF Remote, SshService, Says, Connect, ConnectStatus
<1>4. held[s.source] \subseteq Behind
  BY <1>2, BehindHeld
<1>5. d.evidence # {}
  BY <1>1, <1>2, Cites
<1> QED BY <1>1, <1>3, <1>4, <1>5 DEF Sound, Caused

\* Rule SENTINEL_AGENT_FAILURE.
LEMMA AgentSound ==
    ASSUME NEW n, NEW d \in SentinelAgentFailure(Context(n)) PROVE Sound(d)
<1>1. PICK h \in Host :
          /\ IsBroken(Context(n), h, "Agent") /\ IsHealthy(Context(n), h, "Network")
          /\ d.kind = "SENTINEL_AGENT_FAILURE" /\ d.affected = {h} /\ d.evidence = ForEntity(Context(n), h)
  BY SMT, ContextRest DEF SentinelAgentFailure, Diagnosed
<1>2. PICK s \in Streams :
          /\ Living(s) /\ s.target = h /\ held[s.source] # Nothing /\ s.source \in Source
          /\ Up(held[s.source], h) /\ Linked(held[s.source], s.source, h)
          /\ Remote(held[s.source], s.source, h, "sentinel.agent").status \notin {"Ok", "Unsupported", "NotApplicable"}
  BY <1>1, BrokenService
<1>3. <<"agent", h>> \in held[s.source]
  BY <1>2 DEF Remote, AgentService, Says, Connect, ConnectStatus
<1>4. held[s.source] \subseteq Behind
  BY <1>2, BehindHeld
<1>5. d.evidence # {}
  BY <1>1, <1>2, Cites
<1> QED BY <1>1, <1>3, <1>4, <1>5 DEF Sound, Caused

-----------------------------------------------------------------------------
(* What the scheduler says of a node.                                      *)

\* The scheduler has only answered through a slurmctld.
Heard == seen[TheScheduler] # Nothing => Answering(seen[TheScheduler]) # {}

\* A nonempty set of naturals has a least element.
LEMMA LeastOf ==
    ASSUME NEW S \in SUBSET Nat, S # {}
    PROVE  \E m \in S : \A j \in S : m <= j
<1>1. PICK m \in S : \A j \in S : ~(<<j, m>> \in OpToRel(<, Nat))
  BY WFMin, NatLessThanWellFounded
<1>2. \A j \in S : ~(j < m)
  BY <1>1 DEF OpToRel
<1> QED BY SMT, <1>2

\* The slurmctld that answers is one of those configured.
LEMMA ActingIsCtld ==
    ASSUME NEW w, Answering(w) # {}
    PROVE  \E i \in DOMAIN Ctld : Acting(w) = Ctld[i]
<1> DEFINE A == Answering(w)
<1>1. A \in SUBSET Nat /\ A \subseteq DOMAIN Ctld
  BY SMT, WatchAssumption DEF Answering
<1>2. \E m \in A : \A j \in A : m <= j
  BY <1>1, LeastOf
<1>3. (CHOOSE i \in A : \A j \in A : i <= j) \in A
  BY <1>2
<1> QED BY <1>1, <1>3 DEF Acting

\* A node the scheduler does not hear from.
LEMMA NotResponding ==
    ASSUME NEW w, NEW h, Answering(w) # {}, "not_responding" \in NodeFlags(w, h)
    PROVE  <<"slurmd", h>> \in w \/ LostTouch(w, h)
<1>1. <<"down", h>> \in w \/ <<"slurmd", h>> \in w \/ <<"cut", {Acting(w), h}>> \in w
  BY DEF NodeFlags, Up, Linked
<1>2. PICK i \in DOMAIN Ctld : Acting(w) = Ctld[i]
  BY ActingIsCtld
<1> QED BY <1>1, <1>2 DEF LostTouch

\* What a rule reads of a node is the payload of the scheduler's answer.
LEMMA NodeSays ==
    ASSUME NEW n, NEW h, NEW o \in Observation(Context(n), h, "slurm.node")
    PROVE  LET w == seen[TheScheduler]
           IN  /\ w # Nothing /\ o \in ForEntity(Context(n), h)
               /\ "drained" \in DOMAIN o.payload
               /\ o.payload["drained"] = TRUE <=> "drain" \in NodeFlags(w, h)
               /\ o.payload["not_responding"] = TRUE <=> "not_responding" \in NodeFlags(w, h)
               /\ o.payload["schedulable"] = FALSE <=> ~IsSchedulable(NodeBase(w, h), NodeFlags(w, h))
<1>1. o \in ForEntity(Context(n), h) /\ o.probe = "slurm.node"
  BY DEF Observation
<1>2. PICK s \in Streams : Living(s) /\ o = Obs(s) /\ s.target = h /\ s.probe = "slurm.node"
  BY SMT, <1>1, Observed
<1>3. s.source = TheScheduler
  BY <1>2, SchedulerStream
<1>4. o.payload = ReportOf(seen[TheScheduler], TheScheduler, h, "slurm.node").payload
  BY <1>2, <1>3, ObsFields
<1>5. ReportOf(seen[TheScheduler], TheScheduler, h, "slurm.node")
        = SlurmNode(NodeBase(seen[TheScheduler], h), NodeFlags(seen[TheScheduler], h))
  BY DEF ReportOf, Slurm
<1> DEFINE base == NodeBase(seen[TheScheduler], h)
           flags == NodeFlags(seen[TheScheduler], h)
<1>6. o.payload = [schedulable |-> IsSchedulable(base, flags), drained |-> "drain" \in flags,
                   not_responding |-> "not_responding" \in flags]
  BY SMT, <1>4, <1>5 DEF SlurmNode, Says
<1> DEFINE sched == IsSchedulable(base, flags)
           drain == "drain" \in flags
           lost == "not_responding" \in flags
<1>7. sched \in BOOLEAN /\ drain \in BOOLEAN /\ lost \in BOOLEAN
  BY SMT DEF IsSchedulable
<1>8. seen[TheScheduler] # Nothing
  BY <1>2, <1>3 DEF Living
<1>9. o.payload = [schedulable |-> sched, drained |-> drain, not_responding |-> lost]
  BY <1>6
<1> HIDE DEF sched, drain, lost
<1>10. /\ "drained" \in DOMAIN o.payload /\ o.payload["drained"] = drain
       /\ o.payload["not_responding"] = lost /\ o.payload["schedulable"] = sched
  BY SMT, <1>9
<1>11. /\ o.payload["drained"] = TRUE <=> drain
       /\ o.payload["not_responding"] = TRUE <=> lost
       /\ o.payload["schedulable"] = FALSE <=> ~sched
  BY <1>7, <1>10
<1> QED BY <1>1, <1>8, <1>10, <1>11 DEF sched, drain, lost

\* Rule SLURM_ONLY_DEGRADATION.
LEMMA SlurmOnlySound ==
    ASSUME NEW n, NEW d \in SlurmOnlyDegradation(Context(n)) PROVE Sound(d)
<1>0. PICK h \in Context(n).hosts :
          /\ Reports(Context(n), h, "slurm.node", "drained", TRUE)
          /\ d = Diagnosed("SLURM_ONLY_DEGRADATION", {h}, {h}, "High", ForEntity(Context(n), h))
  BY DEF SlurmOnlyDegradation
<1>1. d.kind = "SLURM_ONLY_DEGRADATION" /\ d.affected = {h} /\ d.evidence = ForEntity(Context(n), h)
  BY <1>0 DEF Diagnosed
<1> DEFINE w == seen[TheScheduler]
<1>2. PICK o \in Observation(Context(n), h, "slurm.node") : o.payload["drained"] = TRUE
  BY <1>0 DEF Reports
<1>3. w # Nothing /\ o \in ForEntity(Context(n), h)
  BY <1>2, NodeSays
<1>4. "drain" \in NodeFlags(w, h)
  BY <1>2, NodeSays
<1>5. <<"drain", h>> \in w
  BY <1>4 DEF NodeFlags
<1>6. w \subseteq Behind
  BY <1>3, BehindSeen DEF Source
<1> QED BY <1>1, <1>3, <1>5, <1>6 DEF Sound, Caused

\* Rule SLURMD_SERVICE_FAILURE.
LEMMA SlurmdSound ==
    ASSUME Heard, NEW n, NEW d \in SlurmdServiceFailure(Context(n)) PROVE Sound(d)
<1>1. PICK h \in Host :
          /\ DaemonProblem(Context(n), h)
          /\ d.kind = "SLURMD_SERVICE_FAILURE" /\ d.affected = {h} /\ d.evidence = ForEntity(Context(n), h)
  BY SMT, ContextRest DEF SlurmdServiceFailure, Diagnosed
<1> DEFINE w == seen[TheScheduler]
<1>2. PICK o \in Observation(Context(n), h, "slurm.node") :
          \/ o.payload["not_responding"] = TRUE
          \/ o.payload["schedulable"] = FALSE /\ ~("drained" \in DOMAIN o.payload /\ o.payload["drained"] = TRUE)
  BY <1>1 DEF DaemonProblem, Reports
<1>3. w # Nothing /\ o \in ForEntity(Context(n), h)
  BY <1>2, NodeSays
<1>4. Answering(w) # {} /\ w \subseteq Behind
  BY <1>3, BehindSeen DEF Heard, Source
<1>6. \/ "not_responding" \in NodeFlags(w, h)
      \/ ~IsSchedulable(NodeBase(w, h), NodeFlags(w, h)) /\ "drain" \notin NodeFlags(w, h)
  BY <1>2, NodeSays
<1>7. <<"slurmd", h>> \in w \/ <<"downed", h>> \in w \/ LostTouch(w, h)
  <2>1. CASE "not_responding" \in NodeFlags(w, h)
    BY <2>1, <1>4, NotResponding
  <2>2. CASE "not_responding" \notin NodeFlags(w, h)
    BY <2>2, <1>6 DEF IsSchedulable, SchedulableBase, NodeBase
  <2> QED BY <2>1, <2>2
<1>8. <<"slurmd", h>> \in Behind \/ <<"downed", h>> \in Behind \/ LostTouch(Behind, h)
  BY <1>4, <1>7 DEF LostTouch
<1> QED BY <1>1, <1>3, <1>8 DEF Sound, Caused

-----------------------------------------------------------------------------
(* Storage.                                                                *)

\* Only the server provides the storage.
LEMMA OnlyServerServes ==
    ASSUME NEW n, NEW h, ServesAnyone(Context(n), h) PROVE h = Server
<1>1. <<Storage, h>> \in Context(n).provides
  BY SMT, ContextRest DEF ServesAnyone
<1>2. \A d : <<Storage, h>> # <<TheScheduler, d>>
  BY DEF Storage, TheScheduler
<1>3. \A x, y : <<Storage, h>> # <<Slurmctld(x), y>>
  BY DEF Storage, Slurmctld
<1> QED BY <1>1, <1>2, <1>3, ContextRest

\* The server's port: what made the newest answer bad.
LEMMA PortTrouble ==
    ASSUME NEW n, NEW o \in Observation(Context(n), Server, "nfs.server.port"), IsBad(o.status)
    PROVE  /\ \/ {<<"nfsd", Server>>, <<"down", Server>>} \cap Behind # {}
              \/ CutFrom(Behind, Server) # {}
           /\ ForEntity(Context(n), Server) # {}
<1>1. o \in ForEntity(Context(n), Server) /\ o.probe = "nfs.server.port"
  BY DEF Observation
<1>2. PICK s \in Streams : /\ Living(s) /\ o = Obs(s) /\ s.target = Server
                           /\ s.probe = "nfs.server.port"
  BY SMT, <1>1, Observed
<1> DEFINE met == Connect(seen[s.source], s.source, Server, "nfsd")
<1>3. o.status = ConnectStatus(met)
  <2>1. o.status = Remote(seen[s.source], s.source, Server, "nfs.server.port").status
    BY <1>2, ObsFields, RemoteReport DEF RemoteProbe
  <2> QED BY <2>1 DEF Remote, NfsPort, Says
<1>4. met \in {"timed_out", "failed", "refused"}
  <2>1. met \in Answer
    BY Unconnected
  <2> HIDE DEF met
  <2> QED BY <1>3, <2>1 DEF ConnectStatus, IsBad, Answer
<1>5. <<"down", Server>> \in seen[s.source] \/ <<"cut", {s.source, Server}>> \in seen[s.source]
      \/ <<"nfsd", Server>> \in seen[s.source]
  BY <1>4, Unconnected
<1>6. s.source \in Host /\ Server \in Targets(s.source)
  BY <1>2, RemoteStream DEF RemoteProbe
<1>7. seen[s.source] \subseteq Behind
  BY <1>2, <1>6, BehindSeen DEF Living, Source
<1> QED BY <1>1, <1>5, <1>6, <1>7 DEF CutFrom

\* The server's export list: what emptied it.
LEMMA ExportTrouble ==
    ASSUME NEW n, Reports(Context(n), Server, "nfs.server.exports", "export_count", 0)
    PROVE  <<"exports", Server>> \in Behind /\ ForEntity(Context(n), Server) # {}
<1>1. PICK o \in Observation(Context(n), Server, "nfs.server.exports") : o.payload["export_count"] = 0
  BY DEF Reports
<1>2. o \in ForEntity(Context(n), Server) /\ o.probe = "nfs.server.exports"
  BY DEF Observation
<1>3. PICK s \in Streams : /\ Living(s) /\ o = Obs(s) /\ s.target = Server
                           /\ s.probe = "nfs.server.exports"
  BY SMT, <1>2, Observed
<1>4. s.source = Server /\ Server \in Source /\ Server # TheScheduler
  BY <1>3, LocalStream DEF Source
<1>5. o.payload = Local(seen[Server], Server, "nfs.server.exports").payload
  BY <1>3, <1>4, ObsFields DEF ReportOf, RemoteProbe
<1>6. CASE <<"exports", Server>> \notin seen[Server]
  <2>1. o.payload = [export_count |-> 1]
    BY SMT, <1>5, <1>6 DEF Local, NfsExports, Says
  <2> QED BY SMT, <1>1, <2>1
<1>7. seen[Server] \subseteq Behind
  BY <1>3, <1>4, BehindSeen DEF Living
<1> QED BY <1>2, <1>6, <1>7

\* Rule NFS_SERVICE_FAILURE.
LEMMA StorageServiceSound ==
    ASSUME NEW n, NEW d \in StorageServiceFailure(Context(n)) PROVE Sound(d)
<1>1. PICK h \in Host :
          /\ ServiceTrouble(Context(n), h) /\ ServesAnyone(Context(n), h)
          /\ d.kind = "NFS_SERVICE_FAILURE" /\ d.affected = {h} /\ d.evidence = ForEntity(Context(n), h)
  BY SMT, ContextRest DEF StorageServiceFailure, Diagnosed
<1>2. h = Server
  BY <1>1, OnlyServerServes
<1>3. /\ \/ {<<"nfsd", Server>>, <<"exports", Server>>, <<"down", Server>>} \cap Behind # {}
         \/ CutFrom(Behind, Server) # {}
      /\ ForEntity(Context(n), Server) # {}
  BY <1>1, <1>2, PortTrouble, ExportTrouble DEF ServiceTrouble
<1> QED BY <1>1, <1>2, <1>3 DEF Sound, Caused

\* A stat() that does not come back promptly has one fault to blame.
LEMMA StatBlames ==
    ASSUME NEW w, NEW c, Stat(w, c) # "prompt"
    PROVE  \E f \in w : Stat({f}, c) # "prompt"
<1>1. \/ <<"down", Server>> \in w
      \/ c # Server /\ <<"cut", {c, Server}>> \in w
      \/ <<"nfsd", Server>> \in w \/ <<"wedge", c>> \in w
      \/ <<"exports", Server>> \in w \/ <<"slow", c>> \in w
  BY DEF Stat, Up, Linked
<1>2. Stat({<<"down", Server>>}, c) # "prompt"
  BY DEF Stat, Up
<1>3. c # Server => Stat({<<"cut", {c, Server}>>}, c) # "prompt"
  BY DEF Stat, Linked
<1>4. Stat({<<"nfsd", Server>>}, c) # "prompt" /\ Stat({<<"wedge", c>>}, c) # "prompt"
  BY DEF Stat
<1>5. Stat({<<"exports", Server>>}, c) # "prompt" /\ Stat({<<"slow", c>>}, c) # "prompt"
  BY DEF Stat
<1> QED BY <1>1, <1>2, <1>3, <1>4, <1>5

\* What a local storage stream's health rests on.
LEMMA IoHealth ==
    ASSUME NEW s \in Streams, Living(s), s.probe = "nfs.client.io",
           StreamHealth(s) \in {"Unavailable", "Degraded"}
    PROVE  /\ held[s.source] # Nothing /\ s.source \in Source
           /\ Stat(held[s.source], s.target) # "prompt"
<1>1. s.source \in Host /\ s.source # TheScheduler /\ s.target = s.source
  BY LocalStream
<1> DEFINE status(w) == NfsClientIo(Stat(w, s.source)).status
<1>2. \A w : ReportOf(w, s.source, s.target, s.probe).status = status(w)
  BY <1>1 DEF ReportOf, RemoteProbe, Local
<1>3. \A w : status(w) \in {"Ok", "Degraded", "Failed", "Timeout"}
  <2> SUFFICES ASSUME NEW w PROVE status(w) \in {"Ok", "Degraded", "Failed", "Timeout"}
    OBVIOUS
  <2>1. Stat(w, s.source) \in {"hangs", "error", "slow", "prompt"}
    BY DEF Stat
  <2> QED BY <2>1 DEF NfsClientIo, Says
<1>4. \A w : Stat(w, s.source) = "prompt" => status(w) = "Ok"
  BY DEF NfsClientIo, Says
<1>5. ~Immediate(s.probe)
  BY DEF Immediate
<1> HIDE DEF status
<1>6. held[s.source] # Nothing /\ Implied(status(held[s.source])) \in {"Unavailable", "Degraded"}
  BY <1>2, <1>3, <1>5 DEF StreamHealth, Living, IsConclusive
<1>7. status(held[s.source]) # "Ok"
  BY <1>6 DEF Implied, IsBad
<1> QED BY <1>1, <1>4, <1>6, <1>7 DEF Source

\* The mount table never speaks against a client.
LEMMA MountHealth ==
    ASSUME NEW s \in Streams, Living(s), s.probe = "nfs.client.mount"
    PROVE  StreamHealth(s) \notin {"Unavailable", "Degraded"}
<1>1. s.source # TheScheduler
  BY LocalStream
<1>2. \A w : ReportOf(w, s.source, s.target, s.probe).status = "Ok"
  BY <1>1 DEF ReportOf, RemoteProbe, Local, NfsMounts, Says
<1>3. Implied("Ok") = "Healthy"
  BY DEF Implied, IsBad
<1> QED BY <1>2, <1>3 DEF StreamHealth, Living

\* A client whose storage is impaired.
LEMMA ImpairedClient ==
    ASSUME NEW n, NEW h \in Host, IsBroken(Context(n), h, "Storage")
    PROVE  /\ h \in Packaged \/ \E v \in SUBSET Behind : Cardinality(v) <= 1 /\ Stat(v, h) # "prompt"
           /\ ForEntity(Context(n), h) # {}
<1>1. PICK s \in Streams : /\ Living(s) /\ s.target = h /\ ComponentOf(s.probe) = "Storage"
                           /\ StreamHealth(s) \in {"Unavailable", "Degraded"}
  BY SMT, BrokenBy
<1>2. s.probe \in {"nfs.client.mount", "nfs.client.io", "nfs.server.port", "nfs.server.exports"}
  BY <1>1, StreamProbe DEF AnyProbe, RemoteProbe, ComponentOf
<1>3. CASE s.probe = "nfs.client.mount"
  BY <1>1, <1>3, MountHealth
<1>4. CASE s.probe = "nfs.client.io"
  <2>1. held[s.source] \subseteq Behind /\ Stat(held[s.source], h) # "prompt"
    BY <1>1, <1>4, IoHealth, BehindHeld
  <2>2. PICK f \in held[s.source] : Stat({f}, h) # "prompt"
    BY <2>1, StatBlames
  <2>3. Cardinality({f}) = 1
    BY FS_Singleton
  <2> QED BY SMT, <1>1, <2>1, <2>2, <2>3, Cites
<1>5. CASE s.probe \in {"nfs.server.port", "nfs.server.exports"}
  <2>1. h \in Packaged
    BY <1>1, <1>5, ServerStream, RemoteStream DEF RemoteProbe
  <2> QED BY <1>1, <2>1, Cites
<1> QED BY <1>2, <1>3, <1>4, <1>5

\* Rule SHARED_STORAGE_FAILURE.
LEMMA SharedStorageSound ==
    ASSUME NEW n, NEW d \in SharedStorageFailure(Context(n)) PROVE Sound(d)
<1> DEFINE cx == Context(n)
           hurt(st) == ClientsOf(cx, st) \cap Impaired(cx)
<1>1. PICK st : /\ Cardinality(hurt(st)) > 1
                /\ st \in {edge[2] : edge \in cx.uses}
                /\ d.kind = "SHARED_STORAGE_FAILURE" /\ d.affected = hurt(st) \cup {st}
                /\ d.evidence = UNION {ForEntity(cx, e) : e \in hurt(st) \cup {st}}
  BY SMT DEF SharedStorageFailure, Diagnosed
<1>2. st = Storage
  BY SMT, <1>1, ContextRest
<1>3. \A h \in hurt(st) : h \in Host /\ IsBroken(cx, h, "Storage")
  BY ContextRest DEF Impaired
<1>4. Caused(d, Behind)
  <2> SUFFICES ASSUME NEW x \in d.affected \ {Storage, TheScheduler}
               PROVE  x \in Packaged \/ \E v \in SUBSET Behind : Cardinality(v) <= 1 /\ Stat(v, x) # "prompt"
    BY <1>1 DEF Caused
  <2>1. x \in hurt(st)
    BY <1>1, <1>2
  <2> QED BY <1>3, <2>1, ImpairedClient
<1>5. hurt(st) # {}
  <2> SUFFICES ASSUME hurt(st) = {} PROVE FALSE
    OBVIOUS
  <2>1. Cardinality(hurt(st)) = 0
    BY FS_EmptySet
  <2> QED BY SMT, <1>1, <2>1
<1>6. d.evidence # {}
  BY SMT, <1>1, <1>3, <1>5, ImpairedClient
<1> QED BY <1>4, <1>6 DEF Sound

\* Rule NFS_CLIENT_FAILURE.
LEMMA ClientLocalSound ==
    ASSUME NEW n, NEW d \in ClientLocalStorageFailure(Context(n)) PROVE Sound(d)
<1>1. PICK h \in Impaired(Context(n)) :
          d.kind = "NFS_CLIENT_FAILURE" /\ d.affected = {h} /\ d.evidence = ForEntity(Context(n), h)
  BY SMT DEF ClientLocalStorageFailure, Diagnosed
<1>2. h \in Host /\ IsBroken(Context(n), h, "Storage")
  BY <1>1, ContextRest DEF Impaired
<1> QED BY <1>1, <1>2, ImpairedClient DEF Sound, Caused

\* The control plane blames no host, but cites what the scheduler said.
LEMMA ControlPlaneSound ==
    ASSUME NEW n, NEW d \in SlurmControlPlaneFailure(Context(n)) PROVE Sound(d)
<1> DEFINE cx == Context(n)
<1>1. /\ \/ Reports(cx, TheScheduler, "slurm.controller", "up", FALSE)
         \/ Component(cx, TheScheduler, "Service", "Unavailable")
      /\ d.affected = {TheScheduler}
      /\ ForEntity(cx, TheScheduler) \subseteq d.evidence
  <2> DEFINE daemons == Providers(cx, TheScheduler)
             cited == UNION {ForEntity(cx, e) : e \in daemons \cup {TheScheduler}}
  <2>1. \/ Reports(cx, TheScheduler, "slurm.controller", "up", FALSE)
        \/ Component(cx, TheScheduler, "Service", "Unavailable")
    BY DEF SlurmControlPlaneFailure
  <2>2. \E roots, confidence :
            d = Diagnosed("SLURM_CONTROL_PLANE_FAILURE", {TheScheduler}, roots, confidence, cited)
    BY <2>1 DEF SlurmControlPlaneFailure
  <2>3. d.affected = {TheScheduler} /\ d.evidence = cited
    BY SMT, <2>2 DEF Diagnosed
  <2> QED BY <2>1, <2>3
<1>2. ForEntity(cx, TheScheduler) # {}
  <2>1. CASE Reports(cx, TheScheduler, "slurm.controller", "up", FALSE)
    BY <2>1 DEF Reports, Observation
  <2>2. CASE Component(cx, TheScheduler, "Service", "Unavailable")
    BY SMT, <2>2, BrokenBy, Cites DEF IsBroken
  <2> QED BY <1>1, <2>1, <2>2
<1> QED BY <1>1, <1>2 DEF Sound, Caused

\* Whatever the answers are worth, nothing is diagnosed without a cause.
LEMMA EveryRuleSound ==
    ASSUME Heard, NEW n, NEW d \in Diagnose(Context(n)) PROVE Sound(d)
<1>1. \/ d \in HostUnreachable(Context(n)) \/ d \in PathSpecificNetworkFailure(Context(n))
      \/ d \in SentinelAgentFailure(Context(n)) \/ d \in SshServiceFailure(Context(n))
      \/ d \in SlurmOnlyDegradation(Context(n)) \/ d \in SlurmdServiceFailure(Context(n))
      \/ d \in SlurmControlPlaneFailure(Context(n)) \/ d \in StorageServiceFailure(Context(n))
      \/ d \in SharedStorageFailure(Context(n)) \/ d \in ClientLocalStorageFailure(Context(n))
  BY DEF Diagnose
<1> QED BY <1>1, HostUnreachableSound, PathSound, AgentSound, SshSound, SlurmOnlySound, SlurmdSound,
           ControlPlaneSound, StorageServiceSound, SharedStorageSound, ClientLocalSound

-----------------------------------------------------------------------------
(* The rules beside each other.                                            *)

\* Which rule a kind comes from.
LEMMA KindOf ==
    ASSUME NEW n, NEW d \in Diagnose(Context(n))
    PROVE  /\ d.kind = "HOST_UNREACHABLE" => d \in HostUnreachable(Context(n))
           /\ d.kind = "PATH_SPECIFIC_NETWORK_FAILURE" => d \in PathSpecificNetworkFailure(Context(n))
           /\ d.kind = "SENTINEL_AGENT_FAILURE" => d \in SentinelAgentFailure(Context(n))
           /\ d.kind = "SSH_SERVICE_FAILURE" => d \in SshServiceFailure(Context(n))
           /\ d.kind = "SLURM_ONLY_DEGRADATION" => d \in SlurmOnlyDegradation(Context(n))
           /\ d.kind = "SLURMD_SERVICE_FAILURE" => d \in SlurmdServiceFailure(Context(n))
           /\ d.kind = "NFS_SERVICE_FAILURE" => d \in StorageServiceFailure(Context(n))
           /\ d.kind = "SHARED_STORAGE_FAILURE" => d \in SharedStorageFailure(Context(n))
           /\ d.kind = "NFS_CLIENT_FAILURE" => d \in ClientLocalStorageFailure(Context(n))
<1> DEFINE cx == Context(n)
<1>1. d \in HostUnreachable(cx) => d.kind = "HOST_UNREACHABLE"
  BY SMT DEF HostUnreachable, Diagnosed
<1>2. d \in PathSpecificNetworkFailure(cx) => d.kind = "PATH_SPECIFIC_NETWORK_FAILURE"
  BY SMT DEF PathSpecificNetworkFailure, Diagnosed
<1>3. d \in SentinelAgentFailure(cx) => d.kind = "SENTINEL_AGENT_FAILURE"
  BY SMT DEF SentinelAgentFailure, Diagnosed
<1>4. d \in SshServiceFailure(cx) => d.kind = "SSH_SERVICE_FAILURE"
  BY SMT DEF SshServiceFailure, Diagnosed
<1>5. d \in SlurmOnlyDegradation(cx) => d.kind = "SLURM_ONLY_DEGRADATION"
  <2> SUFFICES ASSUME d \in SlurmOnlyDegradation(cx) PROVE d.kind = "SLURM_ONLY_DEGRADATION"
    OBVIOUS
  <2>1. PICK h : d = Diagnosed("SLURM_ONLY_DEGRADATION", {h}, {h}, "High", ForEntity(cx, h))
    BY DEF SlurmOnlyDegradation
  <2> QED BY <2>1 DEF Diagnosed
<1>6. d \in SlurmdServiceFailure(cx) => d.kind = "SLURMD_SERVICE_FAILURE"
  BY SMT DEF SlurmdServiceFailure, Diagnosed
<1>7. d \in SlurmControlPlaneFailure(cx) => d.kind = "SLURM_CONTROL_PLANE_FAILURE"
  <2> SUFFICES ASSUME d \in SlurmControlPlaneFailure(cx) PROVE d.kind = "SLURM_CONTROL_PLANE_FAILURE"
    OBVIOUS
  <2>1. \E roots, confidence, cited :
            d = Diagnosed("SLURM_CONTROL_PLANE_FAILURE", {TheScheduler}, roots, confidence, cited)
    BY DEF SlurmControlPlaneFailure
  <2> QED BY SMT, <2>1 DEF Diagnosed
<1>8. d \in StorageServiceFailure(cx) => d.kind = "NFS_SERVICE_FAILURE"
  BY SMT DEF StorageServiceFailure, Diagnosed
<1>9. d \in SharedStorageFailure(cx) => d.kind = "SHARED_STORAGE_FAILURE"
  <2> SUFFICES ASSUME d \in SharedStorageFailure(cx) PROVE d.kind = "SHARED_STORAGE_FAILURE"
    OBVIOUS
  <2>1. \E affected, roots, confidence, cited :
            d = Diagnosed("SHARED_STORAGE_FAILURE", affected, roots, confidence, cited)
    BY DEF SharedStorageFailure
  <2> QED BY SMT, <2>1 DEF Diagnosed
<1>10. d \in ClientLocalStorageFailure(cx) => d.kind = "NFS_CLIENT_FAILURE"
  BY SMT DEF ClientLocalStorageFailure, Diagnosed
<1>11. \/ d \in HostUnreachable(cx) \/ d \in PathSpecificNetworkFailure(cx)
       \/ d \in SentinelAgentFailure(cx) \/ d \in SshServiceFailure(cx)
       \/ d \in SlurmOnlyDegradation(cx) \/ d \in SlurmdServiceFailure(cx)
       \/ d \in SlurmControlPlaneFailure(cx) \/ d \in StorageServiceFailure(cx)
       \/ d \in SharedStorageFailure(cx) \/ d \in ClientLocalStorageFailure(cx)
  BY DEF Diagnose
<1> HIDE DEF cx
<1> QED BY <1>1, <1>2, <1>3, <1>4, <1>5, <1>6, <1>7, <1>8, <1>9, <1>10, <1>11 DEF cx

\* A drained node is not one with a dead slurmd.
LEMMA DrainedOrDead ==
    ASSUME NEW n, NEW h, NEW d \in SlurmOnlyDegradation(Context(n)), h \in d.affected,
           NEW e \in SlurmdServiceFailure(Context(n)), h \in e.affected
    PROVE  FALSE
<1> DEFINE drained == Reports(Context(n), h, "slurm.node", "drained", TRUE)
           lost == Reports(Context(n), h, "slurm.node", "not_responding", TRUE)
           idle == Reports(Context(n), h, "slurm.node", "schedulable", FALSE)
<1>1. drained /\ ~lost
  <2>1. PICK x : /\ Reports(Context(n), x, "slurm.node", "drained", TRUE)
                 /\ ~Reports(Context(n), x, "slurm.node", "not_responding", TRUE)
                 /\ d = Diagnosed("SLURM_ONLY_DEGRADATION", {x}, {x}, "High", ForEntity(Context(n), x))
    BY DEF SlurmOnlyDegradation
  <2>2. d.affected = {x}
    BY <2>1 DEF Diagnosed
  <2>3. x = h
    BY <2>2
  <2> QED BY <2>1, <2>3
<1>2. lost \/ (idle /\ ~drained)
  <2>1. PICK x : /\ DaemonProblem(Context(n), x)
                 /\ e.affected = {x}
    BY SMT DEF SlurmdServiceFailure, Diagnosed
  <2>2. x = h
    BY <2>1
  <2>3. DaemonProblem(Context(n), h)
    BY <2>1, <2>2
  <2> QED BY <2>3 DEF DaemonProblem
<1> QED BY <1>1, <1>2

\* An impaired client is either alone or one of several.
LEMMA AloneOrShared ==
    ASSUME NEW n, NEW h \in Host, NEW d \in ClientLocalStorageFailure(Context(n)), h \in d.affected,
           NEW e \in SharedStorageFailure(Context(n)), h \in e.affected
    PROVE  FALSE
<1> DEFINE cx == Context(n)
           hurt(st) == ClientsOf(cx, st) \cap Impaired(cx)
<1>1. Neighbours(cx, h) \cap Impaired(cx) = {}
  BY SMT DEF ClientLocalStorageFailure, Diagnosed
<1>2. PICK st : /\ Cardinality(hurt(st)) > 1
                /\ st \in {edge[2] : edge \in cx.uses}
                /\ e.affected = hurt(st) \cup {st}
  BY SMT DEF SharedStorageFailure, Diagnosed
<1>3. st = Storage
  BY SMT, <1>2, ContextRest
<1>4. h \in hurt(st)
  BY <1>2, <1>3, WatchAssumption
<1>5. hurt(st) # {h}
  <2> SUFFICES ASSUME hurt(st) = {h} PROVE FALSE
    OBVIOUS
  <2>1. Cardinality(hurt(st)) = 1
    BY FS_Singleton
  <2> QED BY SMT, <1>2, <2>1
<1>6. PICK x \in hurt(st) : x # h
  BY <1>4, <1>5
<1>7. h \in ClientsOf(cx, st) /\ x \in ClientsOf(cx, st) /\ x \in Impaired(cx)
  BY <1>4, <1>6
<1>8. st \in StoragesUsed(cx, h)
  BY <1>7 DEF StoragesUsed, ClientsOf
<1>9. x \in Neighbours(cx, h)
  BY <1>6, <1>7, <1>8 DEF Neighbours
<1> QED BY <1>1, <1>7, <1>9

\* Once the picture has settled, a host whose network is well is missed by nobody.
LEMMA WellIsReached ==
    ASSUME Settled, NEW n, NEW h, IsHealthy(Context(n), h, "Network")
    PROVE  FailedBy(Context(n), h) = {}
<1> SUFFICES ASSUME NEW o \in FailedBy(Context(n), h) PROVE FALSE
  OBVIOUS
<1>1. PICK s \in Streams : /\ Living(s) /\ s.probe = "network.tcp" /\ s.target = h /\ s.source = o
                           /\ Connect(seen[o], o, h, "sshd") \in {"timed_out", "failed"}
  BY FailedVote
<1>2. Up(held[o], h) /\ Linked(held[o], o, h)
  BY <1>1, NetworkWell DEF RemoteProbe
<1>3. o \in Source
  BY <1>1, StreamAsks
<1>4. held[o] = seen[o]
  BY <1>3 DEF Settled
<1> QED BY <1>1, <1>2, <1>4 DEF Connect

\* The rules that name a fault of a host that is up ask for its network.
LEMMA NeedsNetwork ==
    ASSUME NEW n, NEW h, NEW d, h \in d.affected,
           \/ d \in SshServiceFailure(Context(n)) \/ d \in SentinelAgentFailure(Context(n))
           \/ d \in StorageServiceFailure(Context(n)) \/ d \in SlurmOnlyDegradation(Context(n))
           \/ d \in SlurmdServiceFailure(Context(n))
    PROVE  IsHealthy(Context(n), h, "Network")
<1>1. CASE d \in SshServiceFailure(Context(n))
  BY SMT, <1>1 DEF SshServiceFailure, Diagnosed
<1>2. CASE d \in SentinelAgentFailure(Context(n))
  BY SMT, <1>2 DEF SentinelAgentFailure, Diagnosed
<1>3. CASE d \in StorageServiceFailure(Context(n))
  BY SMT, <1>3 DEF StorageServiceFailure, Diagnosed, HostLooksHealthy
<1>4. CASE d \in SlurmOnlyDegradation(Context(n))
  <2>1. PICK x : /\ HostLooksHealthy(Context(n), x)
                 /\ d = Diagnosed("SLURM_ONLY_DEGRADATION", {x}, {x}, "High", ForEntity(Context(n), x))
    BY <1>4 DEF SlurmOnlyDegradation
  <2> QED BY <2>1 DEF Diagnosed, HostLooksHealthy
<1>5. CASE d \in SlurmdServiceFailure(Context(n))
  BY SMT, <1>5 DEF SlurmdServiceFailure, Diagnosed, HostLooksHealthy
<1> QED BY <1>1, <1>2, <1>3, <1>4, <1>5

\* The rules that doubt a host's network rest on a failed vote.
LEMMA NeedsFailure ==
    ASSUME NEW n, NEW h, NEW d, h \in d.affected,
           d \in HostUnreachable(Context(n)) \/ d \in PathSpecificNetworkFailure(Context(n))
    PROVE  FailedBy(Context(n), h) # {}
<1>1. CASE d \in HostUnreachable(Context(n))
  <2>1. UnanimouslyUnreachable(Context(n), h)
    BY SMT, <1>1 DEF HostUnreachable, Diagnosed
  <2> SUFFICES ASSUME FailedBy(Context(n), h) = {} PROVE FALSE
    OBVIOUS
  <2>2. Cardinality(FailedBy(Context(n), h)) = 0
    BY FS_EmptySet
  <2> QED BY SMT, <2>1, <2>2 DEF UnanimouslyUnreachable
<1>2. CASE d \in PathSpecificNetworkFailure(Context(n))
  BY SMT, <1>2 DEF PathSpecificNetworkFailure, Diagnosed, Disagree
<1> QED BY <1>1, <1>2

-----------------------------------------------------------------------------
(* The watch.                                                              *)

\* What a pass relies on of the answers it is given.
Picture ==
    /\ seen = [src \in Source |-> seen[src]] /\ held = [src \in Source |-> held[src]]
    /\ Heard

Inv == Picture /\ BlameHasCause /\ OneStory

\* Without a slurmctld that answers there is no view of the scheduler.
LEMMA SchedulerAnswers ==
    ASSUME NEW w PROVE CanReport(w, TheScheduler) <=> Answering(w) # {}
  BY WatchAssumption DEF CanReport

\* The watch starts with a picture and no diagnosis.
LEMMA InitInv == Init => Inv
<1> SUFFICES ASSUME Init PROVE Inv
  OBVIOUS
<1>1. TheScheduler \in Source
  BY DEF Source
<1>2. seen[TheScheduler] = IF Answering(faults) # {} THEN faults ELSE Nothing
  BY <1>1, SchedulerAnswers DEF Init
<1>3. Heard
  BY <1>2 DEF Heard
<1>4. Picture
  BY <1>3 DEF Init, Picture
<1> QED BY <1>4 DEF Init, Inv, BlameHasCause, OneStory

\* Every step but a pass drops what was found.
LEMMA ReportStep ==
    ASSUME Inv, NEW src \in Source, Report(src) PROVE Picture'
<1>1. seen' = [seen EXCEPT ![src] = faults] /\ CanReport(faults, src)
  BY DEF Report
<1>2. PICK h : held' = [held EXCEPT ![src] = h]
  BY DEF Report
<1>3. seen' = [x \in Source |-> seen'[x]] /\ held' = [x \in Source |-> held'[x]]
  BY <1>1, <1>2 DEF Inv, Picture
<1>4. TheScheduler \in Source
  BY DEF Source
<1>5. CASE src = TheScheduler
  <2>1. seen'[TheScheduler] = faults /\ Answering(faults) # {}
    BY <1>1, <1>4, <1>5, SchedulerAnswers DEF Inv, Picture
  <2> QED BY <1>3, <2>1 DEF Picture, Heard
<1>6. CASE src # TheScheduler
  <2>1. seen'[TheScheduler] = seen[TheScheduler]
    BY <1>1, <1>4, <1>6 DEF Inv, Picture
  <2> QED BY <1>3, <2>1 DEF Inv, Picture, Heard
<1> QED BY <1>5, <1>6

\* Giving a source up leaves a picture.
LEMMA ExpireStep ==
    ASSUME Inv, NEW src \in Source, Expire(src) PROVE Picture'
<1>1. seen' = [seen EXCEPT ![src] = Nothing] /\ held' = [held EXCEPT ![src] = Nothing]
  BY DEF Expire
<1>2. seen' = [x \in Source |-> seen'[x]] /\ held' = [x \in Source |-> held'[x]]
  BY <1>1 DEF Inv, Picture
<1>3. TheScheduler \in Source
  BY DEF Source
<1>4. seen'[TheScheduler] \in {Nothing, seen[TheScheduler]}
  BY <1>1, <1>3 DEF Inv, Picture
<1> QED BY <1>2, <1>4 DEF Inv, Picture, Heard

\* One pass, on an arbitrary picture.
LEMMA PassStep ==
    ASSUME Inv, Pass PROVE BlameHasCause' /\ OneStory'
<1>1. PICK n : found' = Diagnose(Context(n))
  BY DEF Pass
<1>2. seen' = seen /\ held' = held /\ faults' = faults
  BY DEF Pass
<1>3. Behind' = Behind /\ (Settled' <=> Settled)
  BY <1>2 DEF Behind, Settled
<1>4. BlameHasCause'
  <2> SUFFICES ASSUME NEW d \in found' PROVE Caused(d, Behind') /\ d.evidence # {}
    BY DEF BlameHasCause
  <2>1. Sound(d)
    BY <1>1, EveryRuleSound DEF Inv, Picture
  <2> QED BY <1>3, <2>1 DEF Sound
<1>5. OneStory'
  <2> SUFFICES ASSUME NEW h \in Host
               PROVE  LET kinds == {d.kind : d \in {x \in found' : h \in x.affected}}
                      IN  /\ ~({"SLURM_ONLY_DEGRADATION", "SLURMD_SERVICE_FAILURE"} \subseteq kinds)
                          /\ ~({"NFS_CLIENT_FAILURE", "SHARED_STORAGE_FAILURE"} \subseteq kinds)
                          /\ Settled /\ {"HOST_UNREACHABLE", "PATH_SPECIFIC_NETWORK_FAILURE"} \cap kinds # {} =>
                                kinds \cap {"SSH_SERVICE_FAILURE", "SENTINEL_AGENT_FAILURE",
                                            "NFS_SERVICE_FAILURE", "SLURM_ONLY_DEGRADATION",
                                            "SLURMD_SERVICE_FAILURE"} = {}
    BY <1>3 DEF OneStory
  <2> DEFINE kinds == {d.kind : d \in {x \in found' : h \in x.affected}}
  <2>1. ASSUME "SLURM_ONLY_DEGRADATION" \in kinds, "SLURMD_SERVICE_FAILURE" \in kinds PROVE FALSE
    BY <1>1, <2>1, KindOf, DrainedOrDead
  <2>2. ASSUME "NFS_CLIENT_FAILURE" \in kinds, "SHARED_STORAGE_FAILURE" \in kinds PROVE FALSE
    BY <1>1, <2>2, KindOf, AloneOrShared
  <2>3. ASSUME Settled, {"HOST_UNREACHABLE", "PATH_SPECIFIC_NETWORK_FAILURE"} \cap kinds # {},
               kinds \cap {"SSH_SERVICE_FAILURE", "SENTINEL_AGENT_FAILURE", "NFS_SERVICE_FAILURE",
                           "SLURM_ONLY_DEGRADATION", "SLURMD_SERVICE_FAILURE"} # {}
        PROVE  FALSE
    <3>1. FailedBy(Context(n), h) # {}
      BY <1>1, <2>3, KindOf, NeedsFailure
    <3>2. IsHealthy(Context(n), h, "Network")
      BY <1>1, <2>3, KindOf, NeedsNetwork
    <3> QED BY <2>3, <3>1, <3>2, WellIsReached
  <2> HIDE DEF kinds
  <2>4. /\ ~({"SLURM_ONLY_DEGRADATION", "SLURMD_SERVICE_FAILURE"} \subseteq kinds)
        /\ ~({"NFS_CLIENT_FAILURE", "SHARED_STORAGE_FAILURE"} \subseteq kinds)
        /\ Settled /\ {"HOST_UNREACHABLE", "PATH_SPECIFIC_NETWORK_FAILURE"} \cap kinds # {} =>
              kinds \cap {"SSH_SERVICE_FAILURE", "SENTINEL_AGENT_FAILURE", "NFS_SERVICE_FAILURE",
                          "SLURM_ONLY_DEGRADATION", "SLURMD_SERVICE_FAILURE"} = {}
    BY <2>1, <2>2, <2>3
  <2> QED BY <2>4 DEF kinds
<1> QED BY <1>4, <1>5

\* Every step keeps the invariant.
LEMMA StepInv == Inv /\ [Next]_vars => Inv'
<1> SUFFICES ASSUME Inv, [Next]_vars PROVE Inv'
  OBVIOUS
<1>1. ASSUME fresh' = FALSE PROVE BlameHasCause' /\ OneStory'
  BY <1>1 DEF BlameHasCause, OneStory
<1>2. CASE Change
  <2>1. Picture'
    BY <1>2 DEF Change, Inv, Picture, Heard
  <2> QED BY <1>1, <1>2, <2>1 DEF Change, Inv
<1>3. CASE Pass
  <2>1. Picture'
    BY <1>3 DEF Pass, Inv, Picture, Heard
  <2> QED BY <1>3, <2>1, PassStep DEF Inv
<1>4. ASSUME NEW src \in Source, Report(src) PROVE Inv'
  BY <1>1, <1>4, ReportStep DEF Report, Inv
<1>5. ASSUME NEW src \in Source, Expire(src) PROVE Inv'
  BY <1>1, <1>5, ExpireStep DEF Expire, Inv
<1>6. CASE UNCHANGED vars
  <2>1. Picture'
    BY <1>6 DEF vars, Inv, Picture, Heard
  <2>2. found' = found /\ fresh' = fresh /\ Behind' = Behind /\ (Settled' <=> Settled)
    BY <1>6 DEF vars, Behind, Settled
  <2>3. BlameHasCause'
    BY <2>2 DEF Inv, BlameHasCause
  <2>4. OneStory'
    BY <2>2 DEF Inv, OneStory
  <2> QED BY <2>1, <2>3, <2>4 DEF Inv
<1> QED BY <1>2, <1>3, <1>4, <1>5, <1>6 DEF Next

\* Whatever mix of answers from before and after a fault the controller holds,
\* and whichever answer about the export port is the newest, each rule of a pass
\* blames a host only for what was wrong in one of the worlds those answers came
\* from, and cites an observation (Controller::diagnose, diagnosis/rules/*.rs,
\* Diagnosis::evidence).
THEOREM NoBlameWithoutCause == Spec => []BlameHasCause
<1>1. Inv => BlameHasCause
  BY DEF Inv
<1> QED BY <1>1, InitInv, StepInv, PTL DEF Spec

\* No pass calls a node both drained and dead of its slurmd, nor a client both
\* alone in its trouble and one of several; and once every source has reported,
\* none diagnoses a service of a host that it calls unreachable or reached by
\* some only (the preconditions in diagnosis/rules/{reachability,services,
\* slurm,storage}.rs).
THEOREM OneStoryIsTold == Spec => []OneStory
<1>1. Inv => OneStory
  BY DEF Inv
<1> QED BY <1>1, InitInv, StepInv, PTL DEF Spec
=============================================================================
