------------------------------- MODULE MCReading -------------------------------
(* The graph, and what is read of a host.  The two share nothing, so only one *)
(* of them moves in a behaviour; a host is read beside a graph nobody loaded. *)
EXTENDS DependencyGraph, HostIntake

CONSTANTS h1, h2, h3, h4, s1, s2, lo0, eth0, eth1, docker0, a1, a2, a3, a4, a5, a6

Relation(a, b, c, src) == [source |-> a, target |-> b, crit |-> c, src |-> src]
MCOrder == <<h1, h2, h3, h4>>
MCEdge == {Relation(h1, s1, "critical", "nfs"), Relation(h2, s1, "optional", "nfs"),
           Relation(s1, h3, "important", "nfs"), Relation(h3, s2, "critical", "static"),
           Relation(s2, h1, "critical", "static"), Relation(h2, s1, "critical", "static"),
           Relation(h4, s2, "optional", "static")}

Num(n, w) == <<"num", n, w>>
Token(t) == [text |-> <<t>>, is |-> {t}]
Group(text, is) == [text |-> <<Open>> \o text \o <<Close>>, is |-> is]
HostlistPiece ==
    {Token(Comma), Token(<<"text", "n">>), Token(Num(1, 1)),
     Group(<<Num(8, 2), Dash, Num(10, 2)>>, {Num(8, 2), Num(9, 2), Num(10, 2)}),
     Group(<<Num(9, 1), Dash, Num(10, 2), Comma, Num(3, 2)>>, {Num(9, 1), Num(10, 2), Num(3, 2)}),
     Group(<<Num(2, 1), Dash, Num(1, 1)>>, {}),
     Group(<<Num(1, 1), Dash, Num(99, 2)>>, {})}

Word(key, value) == [key |-> key, value |-> value]
RowPiece == {Word("NodeName", "n1"), Word("State", "IDLE"), Word("State", "DOWN"), Word("Reason", "bad"),
             Word("NodeHostName", "x1"), Word("", "disk")}

StatePiece == {[kind |-> "name", is |-> n] : n \in {"IDLE", "DOWN", "DRAIN", "COMP"}}
              \cup {[kind |-> "symbol", is |-> s] : s \in {"star", "tilde", "dollar"}}

PingPiece == {[host |-> h, status |-> s] : h \in {"a", "b", "(NULL)"}, s \in {"UP", "DOWN", ""}}

Name(short, domain) == [short |-> short, domain |-> domain]
MCMe == Name("n1", "example.org")
Line(directive, name, names) == [directive |-> directive, name |-> name, names |-> names]
None == Name("", "")
ConfPiece ==
    {Line("SlurmctldHost", Name("n1", ""), <<>>), Line("ControlMachine", Name("n2", ""), <<>>),
     Line("NodeName", None, <<>>), Line("NodeName", None, <<Name("n1", ""), Name("n2", "")>>),
     Line("NodeName", None, <<Name("n2", "example.org")>>), Line("other", None, <<>>)}

Link(iface, address) == [iface |-> iface, address |-> address]
MCNameOrder == <<a1, a2, a3, a4, a5, a6, docker0, eth0, eth1, lo0>>
LinkPiece == {Link(lo0, a1), Link(docker0, a2), Link(eth0, a6), Link(eth0, a4), Link(eth1, a3), Link(eth1, a5)}

SshdLine(keyword, n) == [keyword |-> keyword, port |-> n]
SshdPiece == {SshdLine("Port", {22}), SshdLine("Port", {2222}), SshdLine("Port", {}),
              SshdLine("ListenAddress", {}), SshdLine("ListenAddress", {2022})}
MCSshdConfig == {<<>>, <<SshdLine("Port", {22})>>, <<SshdLine("ListenAddress", {2022})>>,
                 <<SshdLine("ListenAddress", {2022}), SshdLine("Port", {2222})>>}

MCPiece == [hostlist |-> HostlistPiece, row |-> RowPiece, state |-> StatePiece, ping |-> PingPiece,
            conf |-> ConfPiece, sshd |-> SshdPiece, mount |-> {32, 48, 52, 92, 120}, links |-> LinkPiece,
            journal |-> SUBSET {"io_error", "nfs_server_not_responding", "oom", "network_down"}]
MCMaxLength == [hostlist |-> 4, row |-> 4, state |-> 4, ping |-> 3, conf |-> 3, sshd |-> 4, mount |-> 4, links |-> 4, journal |-> 2]

RInit == graph = Empty /\ loaded \in BOOLEAN /\ IntakeInit
RNext == \/ Next /\ intake = <<Blanks, NoGpus, NoPorts>> /\ UNCHANGED intake
         \/ IntakeNext /\ vars = <<Empty, FALSE>> /\ UNCHANGED vars
RSpec == RInit /\ [][RNext]_<<vars, intake>>
=============================================================================
