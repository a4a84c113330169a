---------------------------- MODULE MCProbeRunner ----------------------------
(* A mount, a GPU and a journal probe on one agent; only GPU probes may     *)
(* overlap.                                                                 *)
EXTENDS ProbeRunner

CONSTANTS mount, gpu, journal

MCKey == <<gpu, journal, mount>>
MCLimit == [k \in {mount, gpu, journal} |-> IF k = gpu THEN 2 ELSE 1]
MCPolicy == [k \in {mount, gpu, journal} |-> [warning |-> 2, critical |-> 3, recovery |-> 2]]
=============================================================================
