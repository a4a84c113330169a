---- MODULE MCDeployment ----
(* Two releases, the second with one more migration; TLS is switched on    *)
(* setting by setting, on the controller and on the agents.                *)
EXTENDS Deployment

MCBuilds == <<[config |-> 1, protocol |-> 1, schema |-> 1], [config |-> 1, protocol |-> 1, schema |-> 2]>>
MCTlsEdits == [controller |-> <<{}, {"cert"}, {"cert", "key"}>>, agent |-> <<{}, {"ca"}>>]
====
