------------------------------ MODULE HostIntake ------------------------------
(***************************************************************************)
(* What is read of a host before anything is decided about it: the texts   *)
(* of Slurm, the host's addresses, its files and its journal; the number   *)
(* of its GPUs, which the agent counts, registers, and the controller      *)
(* compares with what the scheduler has been told; and the port of its     *)
(* sshd, which the agent reads and registers and peers knock on.           *)
(*                                                                         *)
(* Source: src/src/integrations/slurm, src/src/agent/{addressing,system},  *)
(* src/src/probes/{journal,gpu}.rs, record_probe_results and registration  *)
(* in src/src/agent/mod.rs, endpoint_for in src/src/controller/observer.rs *)
(* and the mismatch rule of src/src/diagnosis/rules/slurm.rs (modules      *)
(* SlurmText, Addressing, HostFiles, Probes and Diagnosis).                *)
(*                                                                         *)
(* `input' is a text of one sort, growing token by token to every text up  *)
(* to a bound; the GPUs and the port are state machines.  One of the three *)
(* moves in a behaviour.                                                   *)
(***************************************************************************)
EXTENDS SlurmText, Addressing, HostFiles, Diagnosis

CONSTANTS
    Piece,       \* per sort, what a text is put together from
    MaxLength,   \* per sort, how long it gets
    Me,          \* this host's name
    MaxGpus,
    MaxSteps,    \* bound on the steps of the two machines
    SshdConfig   \* the contents sshd_config may have

VARIABLES
    input,       \* [sort, text]
    gpu,         \* [cards, tool, counted, registered, told, past, steps]
    port         \* [sshd, set, declared, ports, told, steps]

intake == <<input, gpu, port>>

Blanks == [sort |-> "none", text |-> <<>>]

\* The agent has not probed, registered or been told anything yet.
NoGpus ==
    [cards |-> MaxGpus, tool |-> "listing", counted |-> {}, registered |-> {}, told |-> {},
     past |-> {MaxGpus}, steps |-> 0]

\* The agent has not registered; `set' is [agent] ssh_port and `declared' the
\* port [[entities]] gives the host.
NoPorts == [sshd |-> <<>>, set |-> {}, declared |-> {}, ports |-> {}, told |-> {}, steps |-> 0]

IntakeInit == input = Blanks /\ gpu = NoGpus /\ port = NoPorts

Read(sort, piece) ==
    /\ gpu = NoGpus /\ port = NoPorts
    /\ input.sort \in {"none", sort} /\ Len(input.text) < MaxLength[sort]
    /\ input' = [sort |-> sort, text |-> Append(input.text, piece)]
    /\ UNCHANGED <<gpu, port>>

-----------------------------------------------------------------------------
(* GPUs.                                                                   *)

Stepped(g) == /\ input = Blanks /\ port = NoPorts /\ gpu.steps < MaxSteps
              /\ gpu' = [g EXCEPT !.steps = gpu.steps + 1]
              /\ UNCHANGED <<input, port>>

\* A card falls off the bus or is put in; the driver or its tool breaks.
ChangeCards(n) == Stepped([gpu EXCEPT !.cards = n, !.past = @ \cup {n}])
ChangeTool(tool) == Stepped([gpu EXCEPT !.tool = tool])

\* record_probe_results: what an observation of gpu.nvidia says of the count.
Counted(answer) ==
    IF "gpu_count" \in DOMAIN answer.payload THEN {answer.payload.gpu_count} ELSE gpu.counted

\* What nvidia-smi lists: the last card is one that reports nothing but itself.
Listing == [i \in 1..gpu.cards |-> {"index", "uuid", "name"} \cup (IF i < gpu.cards THEN {"power"} ELSE {})]

\* No code passes expected_gpu_count to the probe.
ProbeGpus == Stepped([gpu EXCEPT !.counted = Counted(NvidiaGpu(gpu.tool, Listing, {}))])

\* registration, then host_entity: hardware.gpus, null when never counted.
RegisterHardware == Stepped([gpu EXCEPT !.registered = gpu.counted])

\* observations_from_view: configured_gpu_count of the node's row.
ReadGres(gres) == Stepped([gpu EXCEPT !.told = ConfiguredGpuCount(gres)])

-----------------------------------------------------------------------------
(* The port of sshd.                                                       *)

DefaultPort == 22

Moved(p) == /\ input = Blanks /\ gpu = NoGpus /\ port.steps < MaxSteps
            /\ port' = [p EXCEPT !.steps = port.steps + 1]
            /\ UNCHANGED <<input, gpu>>

\* The operator configures the agent and the controller, before they start.
Configure(set, declared) == port = NoPorts /\ Moved([port EXCEPT !.set = set, !.declared = declared])

\* The operator edits sshd_config.
Reconfigure(lines) == Moved([port EXCEPT !.sshd = lines])

\* What the agent takes the port to be.
SshPort == IF port.set # {} THEN port.set ELSE ParseSshdPort(port.sshd)

\* Faulty: a port that is the default again says nothing, and the last one stays.
ServicePortsKept == IF SshPort \subseteq {DefaultPort} THEN port.ports ELSE SshPort

\* service_ports: only a port that is not the default is reported.
ServicePorts == SshPort \ {DefaultPort}

\* snapshot_from_registration, then merge_metadata: the ports are replaced.
RegisterPorts ==
    Moved([port EXCEPT !.ports = ServicePorts, !.told = IF SshPort = {} THEN {DefaultPort} ELSE SshPort])

\* StaticConfigProvider::snapshot: ports are stated only if there are any.
DiscoverPorts == port.declared # {} /\ Moved([port EXCEPT !.ports = port.declared])

\* endpoint_for, and the default of SshProbe.
ProbedPort == IF port.ports = {} THEN {DefaultPort} ELSE port.ports

IntakeNext ==
    \/ \E set \in {{}, {2222}}, declared \in {{}, {2022}} : Configure(set, declared)
    \/ \E lines \in SshdConfig : Reconfigure(lines)
    \/ RegisterPorts
    \/ DiscoverPorts
    \/ \E sort \in DOMAIN Piece : \E piece \in Piece[sort] : Read(sort, piece)
    \/ \E n \in 0..MaxGpus : ChangeCards(n)
    \/ \E tool \in {"missing", "failing", "listing"} : ChangeTool(tool)
    \/ ProbeGpus
    \/ RegisterHardware
    \/ \E gres \in {<<>>, <<[type |-> "gpu", count |-> {}]>>,
                    <<[type |-> "shard", count |-> {4}], [type |-> "gpu", count |-> {1}],
                      [type |-> "gpu", count |-> {1}]>>} : ReadGres(gres)

-----------------------------------------------------------------------------
(* Properties.                                                             *)

Reads(sort) == input.sort = sort

\* The names a list of elements stands for, each element a sequence of tokens
\* and groups, a group a set of tokens: one name for each way to choose.
Readings(element) ==
    {[i \in DOMAIN element |-> f[i]] :
        f \in {g \in [DOMAIN element -> UNION {element[i].is : i \in DOMAIN element}] :
                  \A i \in DOMAIN element : g[i] \in element[i].is}}

Written(pieces) == FlattenSeq([i \in DOMAIN pieces |-> pieces[i].text])

\* The elements of a list of pieces: what stands between commas.
Elements(pieces) ==
    LET commas == {i \in DOMAIN pieces : pieces[i].text = <<Comma>>} \cup {0, Len(pieces) + 1}
    IN  {SubSeq(pieces, i + 1, (Min({j \in commas : j > i})) - 1) : i \in commas \ {Len(pieces) + 1}} \ {<<>>}

\* A hostlist is expanded in full: the names are those of every way to choose a
\* number from each of its groups, zero padding as on the left of a range, and
\* an element that holds a range this parser does not know stays as it is
\* (hostlist.rs:13), unless a group before that one has been expanded already.
HostlistInFull ==
    LET elements == Elements(input.text)
        unknown(e) == {i \in DOMAIN e : e[i].is = {}}
        mixed(e) == \E i \in DOMAIN e, j \in unknown(e) : i < j /\ Cardinality(e[i].is) > 1
    IN  Reads("hostlist") /\ (\A e \in elements : ~mixed(e)) =>
            Range(Expand(Written(input.text))) =
                UNION {IF unknown(e) # {} THEN {Written(e)} ELSE Readings(e) : e \in elements}

\* Whatever an operator writes as the reason of a node, the node's name, host
\* and state are read as if the reason were not there, and the reason is read
\* to the end of the row (parse_record, "reason text is free-form operator
\* prose that may itself contain `=`").
ReasonIsOpaque ==
    Reads("row") =>
        LET at == SelectInSeq(input.text, LAMBDA w : w.key = "Reason")
            before == SubSeq(input.text, 1, at - 1)
            rest == SubSeq(input.text, at, Len(input.text))
        IN  at > 0 =>
              \A node \in ParseLine(input.text) :
                  /\ \E plain \in ParseLine(before) : plain = [node EXCEPT !.reason = {}]
                  /\ \A r \in node.reason : Len(r) = Len(rest)

\* A node's state is read alike however Slurm spells it: a flag as a symbol at
\* the end is the flag by its name, in any order (NodeState::parse), so the
\* observation made of the node is the same.
StateReadAlike ==
    Reads("state") =>
        LET Part(kind) == SelectSeq(input.text, LAMBDA p : p.kind = kind)
            names == [i \in DOMAIN Part("name") |-> Part("name")[i].is]
            symbols == [i \in DOMAIN Part("symbol") |-> Part("symbol")[i].is]
            spelled == [i \in DOMAIN symbols |-> SymbolFlag[symbols[i]]]
            a == NodeState([parts |-> names, symbols |-> symbols])
            b == NodeState([parts |-> <<names[1]>> \o spelled \o Reverse(Tail(names)), symbols |-> <<>>])
        IN  names # <<>> => SlurmNode(a.base, a.flags) = SlurmNode(b.base, b.flags) /\ a = b

\* `scontrol ping` is read by position: a slurmctld is up only if its own status
\* says so, also when a backup that is not configured stands before it or the
\* statuses run out (parse_ping).
PingByPosition ==
    Reads("ping") =>
        LET hosts == [i \in DOMAIN input.text |-> input.text[i].host]
            statuses == SelectSeq([i \in DOMAIN input.text |-> input.text[i].status], LAMBDA s : s # "")
            pings == ParsePing(<<"primary", "backup">>, hosts, statuses)
        IN  /\ {p.host : p \in Range(pings)} = Range(hosts) \ {"(NULL)"}
            /\ \A k \in DOMAIN pings :
                  \E i \in DOMAIN hosts :
                      /\ hosts[i] = pings[k].host
                      /\ pings[k].up <=> (i <= Len(statuses) /\ statuses[i] = "UP")
                      /\ pings[k].role = IF i <= 2 THEN <<"primary", "backup">>[i] ELSE "unknown"

\* The roles a host has in slurm.conf are those some line gives it under any
\* spelling of its name, wherever the line stands and however often the host
\* is named (roles_from_config).
RolesAnywhere ==
    Reads("conf") =>
        LET roles == RolesFromConfig(input.text, Me)
            short == {n.short : n \in UNION {Range(l.names) : l \in Range(input.text)}}
        IN  /\ roles = RolesFromConfig(Reverse(input.text), Me)
            /\ roles.compute <=> Me.short \in short

\* The address peers are told to probe is one they may reach, on a cabled
\* interface if any has one, on the interface the operator named if they named
\* one; it does not move with the order in which the kernel lists interfaces;
\* and a choice between several cabled interfaces is not made in silence
\* (rank_addresses, choose; no address is on two interfaces).
AddressesFit ==
    Reads("links") =>
        LET links == input.text
            good == {x \in Range(links) : x.iface # Loopback /\ x.address \notin Unreachable}
            cabled == {x \in good : x.iface \notin Virtual}
            choice == Choose(links, {}, {})
            On(iface) == {x.address : x \in {y \in good : y.iface = iface}}
        IN  (\A x, y \in Range(links) : x.address = y.address => x = y) =>
            /\ Range(choice.addresses) = {x.address : x \in good}
            /\ cabled # {} => choice.addresses[1] \in {x.address : x \in cabled}
            /\ choice = Choose(Reverse(links), {}, {})
            /\ Warns(choice) <=> Cardinality({x.iface : x \in cabled}) > 1 \/ good = {}
            /\ \A x \in Range(links) : Range(Choose(links, {}, {x.iface}).addresses) = On(x.iface)

\* A line of the journal that is evidence of trouble degrades the host whatever
\* else the line or the window holds (EVENT_CLASSES: the first class that
\* matches decides, and the notable ones stand last).
SeriousNotMasked ==
    Reads("journal") =>
        LET answer == Journal(TRUE, {Classify(line).severity : line \in {l \in Range(input.text) : l # {}}})
        IN  answer.status = "Degraded" <=>
                \E line \in Range(input.text) : line \cap {"io_error", "nfs_server_not_responding"} # {}

\* A disagreement about GPUs is diagnosed only on a count that was made: one
\* the host has had, never a zero for a query that failed, and never before a
\* count was registered (gpu.rs, "a query that failed did not count zero GPUs";
\* agent/mod.rs, registration).
MismatchWasCounted ==
    MismatchKind(gpu.told, gpu.registered, {}, {}) # {} => gpu.registered # {} /\ gpu.registered \subseteq gpu.past

\* Peers knock where the host last said its sshd is, or where the configuration
\* declares it, whichever was said last; never where it once was, although a
\* port that is the default again is reported by saying nothing
\* (Agent::service_ports, merge_metadata, endpoint_for).
KnocksAsTold ==
    port.told # {} => ProbedPort = port.told \/ (port.declared # {} /\ ProbedPort = port.declared)

\* A Port line decides wherever ListenAddress lines stand ("`Port` wins
\* outright", parse_sshd_port): peers are not sent to a port that only one
\* address of the host may have.
PortWinsAnywhere ==
    Reads("sshd") =>
        LET listens == SelectSeq(input.text, LAMBDA l : l.keyword # "Port")
            ports == SelectSeq(input.text, LAMBDA l : l.keyword = "Port")
        IN  ParseSshdPort(input.text) = ParseSshdPort(listens \o ports)

\* The kernel writes a space or a backslash of a mount point as an octal escape.
Escaped(c) == IF c \in {32, Backslash} THEN <<Backslash, 48 + (c \div 64), 48 + ((c \div 8) % 8), 48 + (c % 8)>> ELSE <<c>>

\* A mount point is read back as it is named, also when its own name looks like
\* an escape or ends in one (unescape_mount_field); the agent would watch a
\* path that is not there otherwise.
MountsReadBack ==
    Reads("mount") => Unescape(FlattenSeq([i \in DOMAIN input.text |-> Escaped(input.text[i])])) = input.text

\* What Slurm prints and its configuration says is read in full and in the right
\* place (hostlist.rs, parser.rs, roles_from_config).
SlurmReadInFull ==
    HostlistInFull /\ ReasonIsOpaque /\ StateReadAlike /\ PingByPosition /\ RolesAnywhere

\* What a host is taken to be is what it says it is: its address, its ports and
\* its mounts, its journal and its GPUs.
HostReadAsTold ==
    /\ AddressesFit /\ KnocksAsTold /\ PortWinsAnywhere
    /\ MountsReadBack /\ SeriousNotMasked /\ MismatchWasCounted
=============================================================================
