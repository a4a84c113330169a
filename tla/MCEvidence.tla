----------------------------- MODULE MCEvidence -----------------------------
EXTENDS Evidence
CONSTANTS o1, o2
MCStream == {<<"network.tcp", o1>>, <<"network.tcp", o2>>, <<"ssh.service", o1>>}
MCPolicy == [p \in {"network.tcp", "ssh.service"} |-> [warning |-> 1, critical |-> 1, recovery |-> 1]]
=============================================================================
