---- MODULE MCProbeAudit ----
(* Two hosts.  The controller runs on `ctl', a file server that may watch  *)
(* peers; `node' is a Slurm node with a GPU and an NFS mount that come and *)
(* go, whose operator forces the journal off.                              *)
EXTENDS ProbeAudit, TLC

CONSTANTS ctl, node

MCOrder == <<ctl, node>>
MCRoles == ctl :> {"fileserver"} @@ node :> {"compute", "controller"}
MCOverride == ctl :> ("storage.nfs.client" :> "enable") @@ node :> ("journal.read" :> "disable")
MCInstalled == ctl :> {"systemd", "journalctl", "sshd", "exports"} @@ node :> {"systemd", "journalctl", "slurm.conf:node", "slurmd"}
MCChanging == ctl :> {} @@ node :> {"nvidia-smi", "nfs-mount"}
MCNodes == {node}
====
