--------------------------- MODULE DeliveryContract ---------------------------
(***************************************************************************)
(* What the agent, its spool, the network and the controller together      *)
(* promise of an observation: once recorded it waits until it is either    *)
(* delivered or dropped by the spool's limits, delivery is final, and it   *)
(* counts towards the entity's state at most once, when it is delivered.   *)
(***************************************************************************)
EXTENDS Integers

CONSTANT Obs

VARIABLES
    status,    \* [Obs -> {"unborn", "waiting", "delivered", "dropped"}]
    counted    \* [Obs -> Nat]: how often the state engine has counted it

cvars == <<status, counted>>

CInit ==
    /\ status = [o \in Obs |-> "unborn"]
    /\ counted = [o \in Obs |-> 0]

CMoves ==
    {<<"unborn", "waiting">>, <<"waiting", "delivered">>, <<"waiting", "dropped">>}

\* One step may record, deliver and drop several observations.  It counts only
\* what it delivers, once.
CNext ==
    /\ \A o \in Obs : status'[o] = status[o] \/ <<status[o], status'[o]>> \in CMoves
    /\ \A o \in Obs :
          \/ counted'[o] = counted[o]
          \/ /\ counted'[o] = counted[o] + 1
             /\ <<status[o], status'[o]>> = <<"waiting", "delivered">>

CSpec == CInit /\ [][CNext]_cvars
=============================================================================
