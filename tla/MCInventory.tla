---------------------------- MODULE MCInventory ----------------------------
(* Two hosts, of which one serves files and one runs jobs.                 *)
EXTENDS Inventory, TLC

CONSTANTS n1, fs, daemon

(* A fileserver and the node's use of it are declared, the latter as       *)
(* optional; the node itself is for Slurm or its agent to report.          *)
MCDeclared ==
    [ents |-> <<HostId(fs) :> {"ssh.server"} @@ StorageId(fs) :> {}>>,
     edges |-> [id \in {EdgeId(HostId(n1), StorageId(fs), "uses_storage")} |-> "optional"]]

\* A node may be the controller as well, and its agent may claim what Slurm does.
MCViews == {[nodes |-> {}, ctl |-> {fs}], [nodes |-> {n1}, ctl |-> {n1}]}

MCMountTables == {[h \in Host |-> {}], [h \in Host |-> IF h = n1 THEN {<<"name", fs>>} ELSE {<<"addr", n1>>}]}
MCAgentCaps == [h \in Host |-> IF h = n1 THEN {{"gpu.nvidia"}, {"slurm.compute"}} ELSE {}]
=============================================================================
