------------------------------ MODULE SlurmText ------------------------------
(***************************************************************************)
(* Reading what Slurm writes: hostlists, the rows and states of `scontrol  *)
(* show', its ping, the Gres field and slurm.conf.                         *)
(*                                                                         *)
(* Source: src/src/integrations/slurm/{hostlist,parser,detect}.rs.         *)
(*                                                                         *)
(* A text is a sequence of the tokens its reader tells apart, not of       *)
(* characters: <<"text", t>> (no digit, comma, dash or bracket in it),     *)
(* <<"num", n, w>> (digits of value n, w of them), <<",">>, <<"-">>,       *)
(* <<"[">>, <<"]">>; white space is trimmed.                               *)
(***************************************************************************)
EXTENDS Naturals, Sequences, SequencesExt, FiniteSetsExt

CONSTANT RangeLimit      \* 100_000: the longest range that is expanded

Comma == <<",">>
Dash == <<"-">>
Open == <<"[">>
Close == <<"]">>

\* Position of the first token t, 0 if there is none.
FirstOf(s, t) == LET at == {i \in DOMAIN s : s[i] = t} IN IF at = {} THEN 0 ELSE Min(at)

-----------------------------------------------------------------------------
(* hostlist.rs                                                             *)

\* The pieces of s between the tokens that `cut` marks, given the depth of
\* brackets they stand at; empty ones are dropped when `drop`.
Pieces(s, nested, drop) ==
    LET step(acc, t) ==
            CASE t = Comma /\ (acc.depth = 0 \/ ~nested) ->
                    [acc EXCEPT !.out = IF drop /\ acc.cur = <<>> THEN @ ELSE Append(@, acc.cur),
                                !.cur = <<>>]
              [] t = Open -> [acc EXCEPT !.depth = @ + 1, !.cur = Append(@, t)]
              [] t = Close -> [acc EXCEPT !.depth = IF @ = 0 THEN 0 ELSE @ - 1, !.cur = Append(@, t)]
              [] OTHER -> [acc EXCEPT !.cur = Append(@, t)]
        end == FoldLeft(step, [out |-> <<>>, cur |-> <<>>, depth |-> 0], s)
    IN  IF drop /\ end.cur = <<>> THEN end.out ELSE Append(end.out, end.cur)

SplitTopLevel(s) == Pieces(s, TRUE, TRUE)

IsNumber(s) == Len(s) = 1 /\ s[1][1] = "num"

\* {n:0width$}: padded to the width, never cut to it.
Formatted(n, width) ==
    LET digits == IF n < 10 THEN 1 ELSE IF n < 100 THEN 2 ELSE 3
    IN  <<"num", n, IF width > digits THEN width ELSE digits>>

\* Faulty: padded to the width of the right end.
ExpandRangeRight(r) ==
    LET at == FirstOf(r, Dash)
        lo == SubSeq(r, 1, at - 1)
        hi == SubSeq(r, at + 1, Len(r))
    IN  IF at = 0
          THEN IF IsNumber(r) THEN {r} ELSE {}
          ELSE IF IsNumber(lo) /\ IsNumber(hi) /\ hi[1][2] >= lo[1][2] /\ hi[1][2] - lo[1][2] <= RangeLimit
                 THEN {[i \in 1..(hi[1][2] - lo[1][2] + 1) |-> Formatted(lo[1][2] + i - 1, hi[1][3])]}
                 ELSE {}

\* expand_range: the numbers, as a set of at most one sequence.
ExpandRange(r) ==
    LET at == FirstOf(r, Dash)
        lo == SubSeq(r, 1, at - 1)
        hi == SubSeq(r, at + 1, Len(r))
    IN  IF at = 0
          THEN IF IsNumber(r) THEN {r} ELSE {}
          ELSE IF IsNumber(lo) /\ IsNumber(hi) /\ hi[1][2] >= lo[1][2] /\ hi[1][2] - lo[1][2] <= RangeLimit
                 THEN {[i \in 1..(hi[1][2] - lo[1][2] + 1) |-> Formatted(lo[1][2] + i - 1, lo[1][3])]}
                 ELSE {}

RECURSIVE ExpandElement(_)
ExpandElement(e) ==
    LET open == FirstOf(e, Open)
        after == SubSeq(e, open + 1, Len(e))
        width == FirstOf(after, Close)
        ranges == Pieces(SubSeq(after, 1, width - 1), FALSE, FALSE)
        middles == FlattenSeq([i \in DOMAIN ranges |-> CHOOSE v \in ExpandRange(ranges[i]) : TRUE])
    IN  IF open = 0 \/ width = 0 \/ \E i \in DOMAIN ranges : ExpandRange(ranges[i]) = {}
          THEN <<e>>
          ELSE FlattenSeq([i \in DOMAIN middles |->
                   ExpandElement(SubSeq(e, 1, open - 1) \o <<middles[i]>>
                                 \o SubSeq(after, width + 1, Len(after)))])

NullText == <<<<"text", "(null)">>>>

Expand(hostlist) ==
    IF hostlist \in {<<>>, NullText} THEN <<>>
    ELSE LET elements == SplitTopLevel(hostlist)
         IN  FlattenSeq([i \in DOMAIN elements |-> ExpandElement(elements[i])])

-----------------------------------------------------------------------------
(* detect.rs.  A name has a short form, in lower case, and a domain.       *)

NamesMatch(a, b) == a.short = b.short

\* roles_from_config over the lines of slurm.conf, each a directive and its
\* value: a name, or a sequence of the names its hostlist expands to.
RolesFromConfig(lines, host) ==
    LET Is(i, directives) == lines[i].directive \in directives
    IN  [controller |-> \E i \in DOMAIN lines :
                            /\ Is(i, {"SlurmctldHost", "ControlMachine"})
                            /\ NamesMatch(lines[i].name, host),
         compute |-> \E i \in DOMAIN lines :
                        Is(i, {"NodeName"}) /\ \E n \in Range(lines[i].names) : NamesMatch(n, host)]

-----------------------------------------------------------------------------
(* parser.rs.  A row is a sequence of words; a word [key, value] begins a  *)
(* field, and a word whose key is "" goes on with the value before it.     *)

\* parse_record: the last of several fields with one key stands; the first
\* Reason takes the rest of the line.
ParseRecord(words) ==
    LET reasons == {i \in DOMAIN words : words[i].key = "Reason"}
        end == IF reasons = {} THEN Len(words) + 1 ELSE Min(reasons)
        starts == {i \in 1..(end - 1) : words[i].key # ""} \cup (reasons \cap {end})
        Value(i) == LET later == {j \in starts : j > i}
                        last == IF later = {} THEN Len(words) ELSE Min(later) - 1
                    IN  [j \in 1..(last - i + 1) |-> words[i + j - 1].value]
    IN  [k \in {words[i].key : i \in starts} |-> Value(Max({i \in starts : words[i].key = k}))]

\* A State= value: the names between the plus signs, and the symbols after them.
BaseName ==
    [IDLE |-> "idle", ALLOC |-> "allocated", MIX |-> "mixed", DOWN |-> "down", ERR |-> "error"]
FlagName ==
    [DRAIN |-> "drain", DRNG |-> "drain", NO_RESPOND |-> "not_responding", COMP |-> "completing",
     MAINT |-> "maintenance", POWER_SAVE |-> "power_save", POWER_UP |-> "powering_up",
     POWERING_DOWN |-> "powering_down", REBOOT |-> "reboot"]
SymbolFlag ==
    [star |-> "not_responding", tilde |-> "power_save", hash |-> "powering_up",
     percent |-> "powering_down", dollar |-> "maintenance", at |-> "reboot"]

Named(table, name) == IF name \in DOMAIN table THEN table[name] ELSE name

\* NodeState::parse
NodeState(state) ==
    [base |-> IF state.parts = <<>> THEN "unknown" ELSE Named(BaseName, Head(state.parts)),
     flags |-> {SymbolFlag[state.symbols[i]] : i \in DOMAIN state.symbols}
               \cup {Named(FlagName, state.parts[i]) : i \in 2..Len(state.parts)}]

Blank == {<<"">>, <<"(null)">>, <<"N/A">>, <<"None">>}

\* optional: a set of at most one value.
Optional(fields, key) == IF key \in DOMAIN fields /\ fields[key] \notin Blank THEN {fields[key]} ELSE {}

\* SlurmNode::parse_line: nothing unless the row names a node.
ParseLine(words) ==
    LET fields == ParseRecord(words)
    IN  IF "NodeName" \notin DOMAIN fields \/ fields["NodeName"] = <<"">> THEN {}
        ELSE {[name |-> fields["NodeName"],
               host |-> IF Optional(fields, "NodeHostName") = {} THEN {fields["NodeName"]}
                        ELSE Optional(fields, "NodeHostName"),
               state |-> IF "State" \in DOMAIN fields THEN fields["State"] ELSE <<"UNKNOWN">>,
               reason |-> Optional(fields, "Reason") \ {<<"none">>}]}

\* SlurmNode::configured_gpu_count over the items of Gres, each a type and the
\* set of what its last part says if that is a number; annotations are dropped.
ConfiguredGpuCount(gres) ==
    LET gpus == SelectSeq(gres, LAMBDA item : item.type = "gpu")
        Count(item) == IF item.count = {} THEN 1 ELSE CHOOSE n \in item.count : TRUE
    IN  IF gpus = <<>> THEN {} ELSE {FoldLeft(LAMBDA total, item : total + Count(item), 0, gpus)}

\* parse_ping of one line: roles, hosts and statuses, each separated by slashes.
ParsePing(roles, hosts, statuses) ==
    LET named == SelectSeq([i \in DOMAIN hosts |-> i], LAMBDA i : hosts[i] # "(NULL)")
    IN  [k \in DOMAIN named |->
            LET i == named[k] IN
            [host |-> hosts[i], up |-> i \in DOMAIN statuses /\ statuses[i] = "UP",
             role |-> IF i \in DOMAIN roles THEN roles[i] ELSE "unknown"]]
=============================================================================
