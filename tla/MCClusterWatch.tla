---------------------------- MODULE MCClusterWatch ----------------------------
(* A controller, a fileserver that doubles as its backup, and two compute   *)
(* nodes; faults of the first node stand for those of the second, whose    *)
(* agent may also fail: the first is then watched by one observer.         *)
EXTENDS ClusterWatch

CONSTANTS m, fs, c1, c2

MCWatch == {<<c1, c2>>, <<c2, c1>>, <<c1, fs>>, <<c1, m>>, <<c2, m>>}
MCCtld == <<m, fs>>
MCFault == {<<"down", h>> : h \in {c1, fs}}
           \cup {<<"cut", {a, b}>> : <<a, b>> \in {<<m, c1>>, <<c1, c2>>, <<c1, fs>>}}
           \cup {<<f, c1>> : f \in {"sshd", "agent", "slow", "drain", "slurmd", "downed"}}
           \cup {<<"agent", c2>>, <<"nfsd", fs>>, <<"exports", fs>>, <<"slurmctld", m>>}

\* Two at a time when one of them hides something of the other from an observer.
MCHiding == {<<"agent", c2>>, <<"down", c1>>}
            \cup {<<"cut", {a, b}>> : <<a, b>> \in {<<m, c1>>, <<c1, c2>>, <<c1, fs>>}}
MCWorld == {{}} \cup {{f, g} : f \in MCFault, g \in MCHiding} \cup {{f} : f \in MCFault}
=============================================================================
