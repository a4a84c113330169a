------------------------------ MODULE Addressing ------------------------------
(***************************************************************************)
(* Which address a host tells the controller to reach it at.               *)
(*                                                                         *)
(* Source: src/src/agent/addressing.rs, and rank_addresses in              *)
(* src/src/agent/system.rs.                                                *)
(*                                                                         *)
(* A link is [iface, address], in the order the kernel lists them.         *)
(***************************************************************************)
EXTENDS Naturals, Sequences, SequencesExt, FiniteSets

CONSTANTS
    Loopback,        \* the interface lo
    Virtual,         \* interfaces named like a bridge, a tunnel, a container's
    Unreachable,     \* loopback, link-local and unspecified addresses
    IPv6,            \* the addresses with a colon in them
    NameOrder        \* interfaces and addresses in the order of their names

Before(x, y) ==
    \E i, j \in DOMAIN NameOrder : i < j /\ NameOrder[i] = x /\ NameOrder[j] = y

\* The order of the tuples that rank_addresses compares.
RanksBefore(a, b) ==
    LET virtual(x) == IF x.iface \in Virtual THEN 1 ELSE 0
        six(x) == IF x.address \in IPv6 THEN 1 ELSE 0
    IN  \/ virtual(a) < virtual(b)
        \/ virtual(a) = virtual(b) /\ six(a) < six(b)
        \/ /\ virtual(a) = virtual(b) /\ six(a) = six(b)
           /\ Before(a.iface, b.iface) \/ (a.iface = b.iface /\ Before(a.address, b.address))

\* Vec::dedup: repetitions that stand next to each other.
Dedup(s) == SelectSeq([i \in DOMAIN s |-> [at |-> i, v |-> s[i]]],
                      LAMBDA x : x.at = 1 \/ s[x.at - 1] # x.v)

RankAddresses(links) ==
    LET usable == {x \in Range(links) : x.iface # Loopback /\ x.address \notin Unreachable}
        sorted == SetToSortSeq(usable, RanksBefore)
        kept == Dedup([i \in DOMAIN sorted |-> sorted[i].address])
    IN  [i \in DOMAIN kept |-> kept[i].v]

\* usable: each address with the interface of the first link that has it.
Usable(links) ==
    LET ranked == RankAddresses(links)
    IN  [i \in DOMAIN ranked |-> links[SelectInSeq(links, LAMBDA x : x.address = ranked[i])]]

PlausibleInterfaces(candidates) == {c.iface : c \in Range(candidates)} \ Virtual

\* choose; `address` and `interface` are what [agent] says, each a set of at
\* most one.
Choose(links, address, interface) ==
    LET candidates == Usable(links)
        AddressesOf(s) == [i \in DOMAIN s |-> s[i].address]
        there == AddressesOf(SelectSeq(candidates, LAMBDA c : c.iface \in interface))
        plausible == PlausibleInterfaces(candidates)
        Choice(addresses, source) == [addresses |-> addresses, source |-> source]
    IN  CASE address # {} -> Choice(SetToSeq(address), "Configured")
          [] address = {} /\ interface # {} ->
                IF there = <<>> THEN Choice(<<>>, "InterfaceEmpty") ELSE Choice(there, "Interface")
          [] OTHER ->
                Choice(AddressesOf(candidates),
                       CASE candidates = <<>> -> "None"
                         [] candidates # <<>> /\ Cardinality(plausible) <= 1 -> "Detected"
                         [] OTHER -> "Ambiguous")

\* AddressChoice::warning: whether the log says that the operator should look.
Warns(choice) == choice.source \in {"Ambiguous", "InterfaceEmpty", "None"}
=============================================================================
