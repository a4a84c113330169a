------------------------------ MODULE MCNotifier ------------------------------
(* Instances of Notifier for TLC.                                          *)
EXTENDS Notifier

CONSTANT p1

OneProvider == {p1}
MildOrSevere == {0, 1}
=============================================================================
