------------------------ MODULE MCStateEngineHistory ------------------------
(***************************************************************************)
(* A small instance of StateEngineHistory: one switchable probe, two peers *)
(* that measure it, DebouncePolicy::default.                               *)
(***************************************************************************)
EXTENDS StateEngineHistory, TLC

CONSTANTS p1, o1, o2, c1

PeerFeeds == p1 :> c1
PeerPolicy == p1 :> [warning |-> 2, critical |-> 3, recovery |-> 2]
PeerHorizon == [k \in Key |-> 0]

ObserverSymmetry == Permutations(Observer)
=============================================================================
