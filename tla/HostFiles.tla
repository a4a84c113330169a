------------------------------- MODULE HostFiles -------------------------------
(***************************************************************************)
(* What an agent reads in its host's files: the port of sshd and the mount *)
(* table.                                                                  *)
(*                                                                         *)
(* Source: parse_sshd_port in src/src/agent/discovery.rs and               *)
(* unescape_mount_field in src/src/agent/system.rs.                        *)
(***************************************************************************)
EXTENDS Naturals, Sequences, SequencesExt

\* A line of sshd_config is a keyword and the set of at most one number that
\* its value, or what follows the last colon of it, parses to.
FirstPort(lines, keyword) ==
    LET named == SelectSeq(lines, LAMBDA l : l.keyword = keyword /\ l.port # {})
    IN  IF named = <<>> THEN {} ELSE Head(named).port

\* parse_sshd_port: the first Port, or else the first ListenAddress with one.
ParseSshdPort(lines) ==
    IF FirstPort(lines, "Port") # {} THEN FirstPort(lines, "Port")
                                     ELSE FirstPort(lines, "ListenAddress")

-----------------------------------------------------------------------------
(* A field of the mount table is a sequence of characters, by their codes. *)

Backslash == 92
IsOctal(c) == c \in 48..55

\* u8::from_str_radix of three characters: a set of at most one byte.
FromOctal(s) ==
    LET n == (s[1] - 48) * 64 + (s[2] - 48) * 8 + (s[3] - 48)
    IN  IF (\A i \in 1..3 : IsOctal(s[i])) /\ n < 256 THEN {n} ELSE {}

RECURSIVE UnescapeShort(_)
\* Faulty: an escape at the very end is not one.
UnescapeShort(s) ==
    IF s = <<>> THEN <<>>
    ELSE IF Head(s) = Backslash /\ Len(s) > 4 /\ FromOctal(SubSeq(s, 2, 4)) # {}
      THEN SetToSeq(FromOctal(SubSeq(s, 2, 4))) \o UnescapeShort(SubSeq(s, 5, Len(s)))
      ELSE <<Head(s)>> \o UnescapeShort(Tail(s))

RECURSIVE Unescape(_)
\* unescape_mount_field
Unescape(s) ==
    IF s = <<>> THEN <<>>
    ELSE IF Head(s) = Backslash /\ Len(s) > 3 /\ FromOctal(SubSeq(s, 2, 4)) # {}
      THEN SetToSeq(FromOctal(SubSeq(s, 2, 4))) \o Unescape(SubSeq(s, 5, Len(s)))
      ELSE <<Head(s)>> \o Unescape(Tail(s))
=============================================================================
