------------------------- MODULE MCSpooledHysteresis -------------------------
(***************************************************************************)
(* A small instance of SpooledHysteresis under DebouncePolicy::default: a  *)
(* stream whose good answers a failure separates, and one about a peer     *)
(* that shares the spool with it.                                          *)
(***************************************************************************)
EXTENDS SpooledHysteresis

CONSTANTS host, peer, s1, s2, p1

DrainOutcome == <<"Ok", "Failed", "Degraded", "Ok">>
DrainPriority == <<0, 2, 1, 0>>
DrainTarget == <<host, host, peer, host>>
DrainSize == <<1, 1, 2, 1>>
DrainSource == <<s1, s1, s2, s1>>
MCProbeOf == [s \in Stream |-> p1]
MCStartsAt == [s \in Stream |-> IF s = s1 THEN "NotApplicable" ELSE "Unknown"]
MCPolicy == [p \in Probe |-> [warning |-> 2, critical |-> 3, recovery |-> 2]]
=============================================================================
