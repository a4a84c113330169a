------------------------------ MODULE Deployment ------------------------------
(***************************************************************************)
(* Bringing a fleet up and keeping it up: `sentinel install' of            *)
(* src/src/cli/install_cmd.rs, the files src/src/cli/generate.rs writes,   *)
(* `config check', and what the controller and agent daemons of            *)
(* src/src/cli/daemon_cmd.rs need of them before they run.  An             *)
(* installation writes one file after another and can be interrupted       *)
(* between two of them; systemd restarts a daemon that would not start;    *)
(* binaries are replaced under a database that keeps its migrations.       *)
(*                                                                         *)
(* A unit is a pair of a role and a host.  The two roles of one host have  *)
(* configuration files of their own in one directory, so they share the    *)
(* credential beside them.  Secrets are numbers, taken in order.           *)
(***************************************************************************)
EXTENDS Naturals, Sequences, FiniteSets

CONSTANTS
    Ctl,            \* the host of the controller
    AgentHosts,     \* the hosts that run an agent
    Builds,         \* the releases: what each supports of configuration and protocol, and its last migration
    TlsEdits,       \* the [tls] sections an operator writes, by role
    Disturbances,   \* bound on interruptions, forced installs, rotations and binary changes together
    Downgrades      \* whether an earlier binary may be put back

VARIABLES
    build,          \* the binary on each host
    user,           \* hosts that have the service user
    config,         \* the configuration file of each unit
    unit,           \* units whose systemd file is written
    token,          \* the credential file of each host
    schema,         \* the last migration applied to the controller's database
    install,        \* the installation in progress
    enabled,        \* units systemd keeps running
    daemon,         \* what each running daemon read when it started
    refused,        \* why each unit last failed to start
    secrets,        \* credentials generated so far
    rotated,        \* whether an operator has ever deleted the credential
    disturbed

vars == <<build, user, config, unit, token, schema, install, enabled, daemon, refused, secrets, rotated, disturbed>>

Hosts == {Ctl} \cup AgentHosts
Controller == <<"controller", Ctl>>
Agents == {<<"agent", h>> : h \in AgentHosts}
Units == {Controller} \cup Agents
Role(u) == u[1]
Host(u) == u[2]

Absent == [present |-> FALSE]
Idle == [running |-> FALSE]
Off == [running |-> FALSE]
Reasons == {"none", "config", "version", "credential", "tls", "schema"}

ASSUME DeploymentAssumption ==
    /\ Disturbances \in Nat /\ Downgrades \in BOOLEAN
    /\ Builds # <<>>
    /\ \A i \in 1 .. Len(Builds) - 1 : Builds[i].schema <= Builds[i + 1].schema

-----------------------------------------------------------------------------
(* [tls]: a set of the settings that are given.                            *)

ServesTls(tls) == {"cert", "key"} \subseteq tls
PresentsCertificate(tls) == {"client_cert", "client_key"} \subseteq tls
AffectsClient(tls) == "ca" \in tls \/ PresentsCertificate(tls) \/ "skip_verify" \in tls

Problems(tls) ==
    {p \in {"cert", "client_cert", "client_ca", "skip_verify"} :
        CASE p = "cert" -> ("cert" \in tls) # ("key" \in tls)
          [] p = "client_cert" -> ("client_cert" \in tls) # ("client_key" \in tls)
          [] p = "client_ca" -> "client_ca" \in tls /\ ~ServesTls(tls)
          [] p = "skip_verify" -> {"skip_verify", "ca"} \subseteq tls}

(* An agent speaks TLS when its settings say anything about it, trusts the *)
(* site's authority only when told to, and shows a certificate if it must. *)
Handshake(agent, controller) ==
    /\ AffectsClient(agent) = ServesTls(controller)
    /\ ServesTls(controller) => {"ca", "skip_verify"} \cap agent # {}
    /\ "client_ca" \in controller => PresentsCertificate(agent)

-----------------------------------------------------------------------------
(* The generated file: every setting at its default, two to be replaced.   *)

Generated(u, owned) ==
    [present |-> TRUE, version |-> Builds[build[Host(u)]].config, environment |-> "CHANGE-ME",
     address |-> IF Role(u) = "agent" THEN "CHANGE-ME" ELSE "none", tls |-> {}, owned |-> owned]

Edited(file) == file.environment # "CHANGE-ME" /\ file.address # "CHANGE-ME"

-----------------------------------------------------------------------------

Init ==
    /\ build = [h \in Hosts |-> 1]
    /\ user = {} /\ unit = {} /\ enabled = {}
    /\ config = [u \in Units |-> Absent]
    /\ token = [h \in Hosts |-> Absent]
    /\ schema = 0 /\ secrets = 0 /\ rotated = FALSE /\ disturbed = 0
    /\ install = Idle
    /\ daemon = [u \in Units |-> Off]
    /\ refused = [u \in Units |-> "none"]

Disturb == disturbed < Disturbances /\ disturbed' = disturbed + 1

(* `install': the files it will place, in order.  The agent never gets a   *)
(* credential of its own.                                                  *)
Plan(u) == IF Role(u) = "controller" THEN <<"config", "unit", "token">> ELSE <<"config", "unit">>

Begin(u, force) ==
    /\ ~install.running
    /\ install' = [running |-> TRUE, unit |-> u, force |-> force, todo |-> Plan(u)]

(* Faulty: `--force' reaches every file.                                   *)
KeepsForce(file, exists) == exists /\ ~install.force

(* What is already there is kept, unless `--force' was given; `--force'    *)
(* does not reach the credential.                                          *)
Keeps(file, exists) == exists /\ (file = "token" \/ ~install.force)

(* Faulty: the configuration is an operator's, so it is always refreshed.  *)
PlaceConfigAlways(u) == config' = [config EXCEPT ![u] = Generated(u, Host(u) \in user)]

PlaceConfig(u) ==
    config' = IF Keeps("config", config[u].present) THEN config
              ELSE [config EXCEPT ![u] = Generated(u, Host(u) \in user)]

PlaceUnit(u) == unit' = IF Keeps("unit", u \in unit) THEN unit ELSE unit \cup {u}

PlaceToken(u) ==
    IF Keeps("token", token[Host(u)].present) THEN UNCHANGED <<token, secrets>>
    ELSE /\ secrets' = secrets + 1
         /\ token' = [token EXCEPT ![Host(u)] = [present |-> TRUE, secret |-> secrets + 1, owned |-> Host(u) \in user]]

Place ==
    /\ install.running
    /\ LET u == install.unit
           file == Head(install.todo)
       IN /\ IF file = "config" THEN PlaceConfig(u) ELSE UNCHANGED config
          /\ IF file = "unit" THEN PlaceUnit(u) ELSE UNCHANGED unit
          /\ IF file = "token" THEN PlaceToken(u) ELSE UNCHANGED <<token, secrets>>
    /\ install' = IF Len(install.todo) = 1 THEN Idle ELSE [install EXCEPT !.todo = Tail(@)]
    /\ UNCHANGED <<build, user, schema, enabled, daemon, refused, rotated, disturbed>>

Unfinished(u) == ~config[u].present \/ u \notin unit \/ (u = Controller /\ ~token[Ctl].present)

(* An operator installs, installs again after an interruption, and may     *)
(* install again, with `--force' or without, what is complete.             *)
Install(u) ==
    /\ Unfinished(u)
    /\ Begin(u, FALSE)
    /\ UNCHANGED <<build, user, config, unit, token, schema, enabled, daemon, refused, secrets, rotated, disturbed>>

Reinstall(u, force) ==
    /\ ~Unfinished(u)
    /\ Disturb
    /\ Begin(u, force)
    /\ UNCHANGED <<build, user, config, unit, token, schema, enabled, daemon, refused, secrets, rotated>>

Interrupt ==
    /\ install.running
    /\ Disturb
    /\ install' = Idle
    /\ UNCHANGED <<build, user, config, unit, token, schema, enabled, daemon, refused, secrets, rotated>>

-----------------------------------------------------------------------------
(* The operator's side of the printed instructions.                        *)

CreateUser(h) ==
    /\ h \notin user
    /\ user' = user \cup {h}
    /\ config' = [u \in Units |-> IF Host(u) = h /\ config[u].present THEN [config[u] EXCEPT !.owned = TRUE] ELSE config[u]]
    /\ token' = IF token[h].present THEN [token EXCEPT ![h].owned = TRUE] ELSE token
    /\ UNCHANGED <<build, unit, schema, install, enabled, daemon, refused, secrets, rotated, disturbed>>

(* The controller's credential is put on another host.                     *)
Distribute(h) ==
    /\ h # Ctl /\ h \in user
    /\ token[Ctl].present
    /\ token[h].present => token[h].secret # token[Ctl].secret
    /\ token' = [token EXCEPT ![h] = [token[Ctl] EXCEPT !.owned = TRUE]]
    /\ UNCHANGED <<build, user, config, unit, schema, install, enabled, daemon, refused, secrets, rotated, disturbed>>

Edit(u) ==
    /\ config[u].present /\ ~Edited(config[u])
    /\ config' = [config EXCEPT ![u].environment = "site",
                                ![u].address = IF Role(u) = "agent" THEN "controller" ELSE "none"]
    /\ UNCHANGED <<build, user, unit, token, schema, install, enabled, daemon, refused, secrets, rotated, disturbed>>

(* The [tls] section is filled in over several edits.                      *)
EditTls(u) ==
    /\ config[u].present /\ Edited(config[u])
    /\ \E i \in 1 .. Len(TlsEdits[Role(u)]) - 1 :
           /\ config[u].tls = TlsEdits[Role(u)][i]
           /\ config' = [config EXCEPT ![u].tls = TlsEdits[Role(u)][i + 1]]
    /\ UNCHANGED <<build, user, unit, token, schema, install, enabled, daemon, refused, secrets, rotated, disturbed>>

Enable(u) ==
    /\ u \in unit \ enabled
    /\ enabled' = enabled \cup {u}
    /\ UNCHANGED <<build, user, config, unit, token, schema, install, daemon, refused, secrets, rotated, disturbed>>

(* A new credential: delete the file, then install again.                  *)
Rotate ==
    /\ token[Ctl].present /\ ~install.running
    /\ Disturb
    /\ token' = [token EXCEPT ![Ctl] = Absent]
    /\ rotated' = TRUE
    /\ UNCHANGED <<build, user, config, unit, schema, install, enabled, daemon, refused, secrets>>

ReplaceBinary(h, b) ==
    /\ b \in 1 .. Len(Builds) /\ b # build[h]
    /\ b < build[h] => Downgrades
    /\ Disturb
    /\ build' = [build EXCEPT ![h] = b]
    /\ UNCHANGED <<user, config, unit, token, schema, install, enabled, daemon, refused, secrets, rotated>>

-----------------------------------------------------------------------------
(* What `controller' and `agent' do before they run, in order.             *)

ConfigRefusal(u) ==
    IF Host(u) \notin user \/ ~config[u].present \/ ~config[u].owned THEN "config"
    ELSE IF config[u].version > Builds[build[Host(u)]].config THEN "version"
    ELSE "none"

(* The unit names the credential file; a daemon does not run without it.   *)
CredentialRefusal(u) ==
    IF token[Host(u)].present /\ token[Host(u)].owned THEN "none" ELSE "credential"

(* The migrator refuses a database with a migration it does not know.      *)
SchemaRefusal(u) ==
    IF Role(u) = "controller" /\ schema > Builds[build[Host(u)]].schema THEN "schema" ELSE "none"

(* What `doctor' says of the credential, in a shell that has a token, the  *)
(* path of the file, or neither in its environment.                        *)
Doctor(u, shell) == shell = "token" \/ token[Host(u)].present

TlsRefusal(u) == IF Problems(config[u].tls) # {} THEN "tls" ELSE "none"

(* The first check that objects; TLS is looked at after the database.      *)
Refusal(u) ==
    IF ConfigRefusal(u) # "none" THEN ConfigRefusal(u)
    ELSE IF CredentialRefusal(u) # "none" THEN CredentialRefusal(u)
    ELSE IF SchemaRefusal(u) # "none" THEN SchemaRefusal(u)
    ELSE TlsRefusal(u)

Opened(u) == Role(u) = "controller" /\ Refusal(u) \in {"none", "tls"}

Reads(u) ==
    [running |-> TRUE, environment |-> config[u].environment, address |-> config[u].address, tls |-> config[u].tls,
     secret |-> token[Host(u)].secret, build |-> build[Host(u)]]

(* systemd starts an enabled unit, and again five seconds after it failed. *)
Start(u) ==
    /\ u \in enabled /\ ~daemon[u].running
    /\ refused' = [refused EXCEPT ![u] = Refusal(u)]
    /\ schema' = IF Opened(u) THEN Builds[build[Host(u)]].schema ELSE schema
    /\ daemon' = IF Refusal(u) = "none" THEN [daemon EXCEPT ![u] = Reads(u)] ELSE daemon
    /\ UNCHANGED <<build, user, config, unit, token, install, enabled, secrets, rotated, disturbed>>

(* The operator restarts a daemon whose files or binary changed.           *)
Restart(u) ==
    /\ daemon[u].running
    /\ Refusal(u) = "none" /\ daemon[u] # Reads(u)
    /\ daemon' = [daemon EXCEPT ![u] = Off]
    /\ UNCHANGED <<build, user, config, unit, token, schema, install, enabled, refused, secrets, rotated, disturbed>>

(* SIGTERM, or a daemon that dies.                                         *)
Stop(u) ==
    /\ daemon[u].running
    /\ Disturb
    /\ daemon' = [daemon EXCEPT ![u] = Off]
    /\ UNCHANGED <<build, user, config, unit, token, schema, install, enabled, refused, secrets, rotated>>

Next ==
    \/ Place \/ Interrupt \/ Rotate
    \/ \E u \in Units : Install(u) \/ Edit(u) \/ EditTls(u) \/ Enable(u) \/ Start(u) \/ Restart(u) \/ Stop(u)
    \/ \E u \in Units : \E force \in BOOLEAN : Reinstall(u, force)
    \/ \E h \in Hosts : CreateUser(h) \/ Distribute(h)
    \/ \E h \in Hosts : \E b \in 1 .. Len(Builds) : ReplaceBinary(h, b)

Spec == Init /\ [][Next]_vars

(* What is left to do of the printed instructions.                         *)
Instructed ==
    \/ \E u \in Units : Install(u) \/ Edit(u) \/ EditTls(u) \/ Enable(u)
    \/ \E h \in Hosts : CreateUser(h) \/ Distribute(h)

Fairness ==
    /\ WF_vars(Place) /\ WF_vars(Instructed)
    /\ \A u \in Units : WF_vars(Start(u)) /\ WF_vars(Restart(u))

FairSpec == Spec /\ Fairness

-----------------------------------------------------------------------------

TypeOK ==
    /\ build \in [Hosts -> 1 .. Len(Builds)]
    /\ user \subseteq Hosts /\ unit \subseteq Units /\ enabled \subseteq unit
    /\ schema \in {0} \cup {Builds[i].schema : i \in 1 .. Len(Builds)}
    /\ \A u \in Units : daemon[u].running => u \in enabled
    /\ refused \in [Units -> Reasons]
    /\ \A h \in Hosts : token[h].present => token[h].secret \in 1 .. secrets
    /\ install.running => install.todo # <<>>
    /\ disturbed \in 0 .. Disturbances

(* Faulty: mixed releases do not talk to each other.                       *)
AcceptedSameBuild(a) ==
    /\ daemon[a].running /\ daemon[Controller].running
    /\ daemon[a].address = "controller"
    /\ daemon[a].secret = daemon[Controller].secret
    /\ daemon[a].build = daemon[Controller].build

(* What the controller does with a request: the transport, the credential  *)
(* and the protocol version, in that order.                                *)
Accepted(a) ==
    /\ daemon[a].running /\ daemon[Controller].running
    /\ daemon[a].address = "controller"
    /\ Handshake(daemon[a].tls, daemon[Controller].tls)
    /\ daemon[a].secret = daemon[Controller].secret
    /\ Builds[daemon[a].build].protocol = Builds[daemon[Controller].build].protocol

(* A host of another environment is another cluster's.                     *)
Monitored(a) == Accepted(a) /\ daemon[a].environment = daemon[Controller].environment

(* Running `install' again, interrupted or forced, locks nobody out: until *)
(* an operator deletes the credential, every host that has one and every   *)
(* daemon that runs holds the same.                                        *)
NobodyLockedOut ==
    ~rotated =>
        /\ \A h, k \in Hosts : token[h].present /\ token[k].present => token[h].secret = token[k].secret
        /\ \A u, v \in Units : daemon[u].running /\ daemon[v].running => daemon[u].secret = daemon[v].secret

(* Running `install' twice is safe: what an operator has written into a    *)
(* configuration is lost to no installation they did not force.            *)
EditsSurvive ==
    [][\A u \in Units : config[u].present /\ Edited(config[u]) /\ ~Edited(config'[u])
           => install.running /\ install.unit = u /\ install.force]_vars

(* A controller whose TLS material is wrong fails to start, and does not   *)
(* come up in plaintext and be trusted to be encrypted.                    *)
NeverQuietlyPlain ==
    daemon[Controller].running /\ {"cert", "key", "client_ca"} \cap daemon[Controller].tls # {}
        => ServesTls(daemon[Controller].tls)

(* `doctor' describes the host, not the shell it is run in: where the      *)
(* service user exists, it reports a credential exactly when the daemon's  *)
(* next start would find one.                                              *)
DoctorDescribesHost ==
    \A u \in Units : Host(u) \in user => (Doctor(u, "none") <=> CredentialRefusal(u) = "none")

(* However often the installation is interrupted, repeated or forced, the  *)
(* credential rotated, the release changed or a daemon killed: once that   *)
(* ends and the instructions are followed, every agent is monitored.       *)
Converges == <>[](\A a \in Agents : Monitored(a))

=============================================================================
