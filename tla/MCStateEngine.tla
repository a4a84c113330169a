---------------------------- MODULE MCStateEngine ----------------------------
(***************************************************************************)
(* A small instance of StateEngine.  The policies are scaled from          *)
(* register_builtin_probes: Measurement is DebouncePolicy::default (2/3/2) *)
(* and Statement is DebouncePolicy::immediate (1/1/1).                     *)
(***************************************************************************)
EXTENDS StateEngine, TLC

CONSTANTS p1, p2, o1, c1, c2

Measurement == [warning |-> 2, critical |-> 3, recovery |-> 2]
Statement == [warning |-> 1, critical |-> 1, recovery |-> 1]

\* The switchable accelerator probe, measured, beside an authoritative probe of
\* another component.
SplitFeeds == p1 :> c1 @@ p2 :> c2
SplitPolicy == p1 :> Measurement @@ p2 :> Statement
SplitHorizon == [k \in Key |-> IF k[1] = p1 THEN 0 ELSE 1]
=============================================================================
