--------------------------- MODULE DeploymentProofs ---------------------------
(***************************************************************************)
(* For any number of hosts, releases, interruptions and forced installs:   *)
(* nobody is locked out, no controller serves plainly what it was told to  *)
(* encrypt, no edit is lost to an installation that was not forced, and    *)
(* doctor's line on the credential is what the next start will find.       *)
(*                                                                         *)
(* Until a credential is deleted there is at most one: it is generated     *)
(* when the controller has none, by an installation that reaches the       *)
(* credential only for the controller's unit, and everything that holds a  *)
(* credential, a file or a running daemon, has that one.                   *)
(***************************************************************************)
EXTENDS Deployment, TLAPS

Held == [present : {TRUE}, secret : Nat, owned : BOOLEAN]

\* What an installation has yet to place; only the controller's comes to the
\* credential.
Todo(i) ==
    i.running =>
        /\ DOMAIN i = {"running", "unit", "force", "todo"} /\ i.unit \in Units
        /\ \/ i.todo \in {<<"config", "unit">>, <<"unit">>}
           \/ i.todo \in {<<"config", "unit", "token">>, <<"unit", "token">>, <<"token">>} /\ i.unit = Controller

Credentials ==
    /\ secrets \in Nat /\ Todo(install)
    /\ DOMAIN token = Hosts /\ \A h \in Hosts : token[h] = Absent \/ token[h] \in Held
    /\ DOMAIN daemon = Units

\* Before any credential was deleted.
OneSecret ==
    ~rotated =>
        /\ secrets = 0 => \A h \in Hosts : ~token[h].present
        /\ secrets # 0 => token[Ctl].present
        /\ \A h \in Hosts : token[h].present => token[h].secret = 1
        /\ \A u \in Units : daemon[u].running => daemon[u].secret = 1

\* A daemon that runs has settings it did not object to.
Checked == \A u \in Units : daemon[u].running => Problems(daemon[u].tls) = {}

Inv == Credentials /\ OneSecret /\ Checked

\* Fields of the records the model starts from.
LEMMA Shapes ==
    /\ Absent.present = FALSE /\ Off.running = FALSE /\ Idle.running = FALSE
    /\ \A t \in Held : t.present = TRUE /\ t.secret \in Nat
    /\ Ctl \in Hosts /\ Controller \in Units /\ \A u \in Units : Host(u) \in Hosts
    /\ Host(Controller) = Ctl
<1>1. Absent.present = FALSE /\ Off.running = FALSE /\ Idle.running = FALSE
  BY DEF Absent, Off, Idle
<1>2. \A t \in Held : t.present = TRUE /\ t.secret \in Nat
  BY DEF Held
<1>3. Ctl \in Hosts /\ Controller \in Units /\ Host(Controller) = Ctl
  BY DEF Hosts, Units, Controller, Host
<1>4. ASSUME NEW u \in Units PROVE Host(u) \in Hosts
  <2>1. CASE u = Controller
    BY <1>3, <2>1
  <2>2. ASSUME NEW h \in AgentHosts, u = <<"agent", h>> PROVE Host(u) \in Hosts
    BY <2>2 DEF Host, Hosts
  <2> QED BY <2>1, <2>2 DEF Units, Agents
<1> QED BY <1>1, <1>2, <1>3, <1>4

LEMMA InitInv == Init => Inv
<1> SUFFICES ASSUME Init PROVE Inv
  OBVIOUS
<1> USE Shapes
<1>1. Credentials
  BY DEF Init, Credentials, Todo
<1>2. OneSecret
  BY DEF Init, OneSecret
<1>3. Checked
  BY DEF Init, Checked
<1> QED BY <1>1, <1>2, <1>3 DEF Inv

\* A step that leaves the credentials alone, and at most stops daemons.
LEMMA Elsewhere ==
    ASSUME Inv, UNCHANGED <<token, secrets, rotated>>, Todo(install'),
           DOMAIN daemon' = Units,
           \A u \in Units : daemon'[u] = daemon[u] \/ daemon'[u] = Off
    PROVE  Inv'
<1>1. Credentials'
  BY DEF Inv, Credentials
<1>2. OneSecret'
  BY Shapes DEF Inv, OneSecret
<1>3. Checked'
  BY Shapes DEF Inv, Checked
<1> QED BY <1>1, <1>2, <1>3 DEF Inv

\* An installation that begins has its first step to do.
LEMMA Begun == ASSUME NEW u \in Units, NEW force, Begin(u, force) PROVE Todo(install')
<1> DEFINE i == [running |-> TRUE, unit |-> u, force |-> force, todo |-> Plan(u)]
<1>1. /\ install' = i /\ i.unit = u /\ i.todo = Plan(u)
      /\ DOMAIN i = {"running", "unit", "force", "todo"}
  BY DEF Begin
<1>2. \/ Plan(u) = <<"config", "unit">>
      \/ Plan(u) = <<"config", "unit", "token">> /\ u = Controller
  <2>1. Role(u) = "controller" => u = Controller
    BY DEF Units, Agents, Role, Controller
  <2> QED BY <2>1 DEF Plan
<1> HIDE DEF i
<1> QED BY <1>1, <1>2 DEF Todo

\* The credential is generated only where there is none, and on the controller.
LEMMA PlaceInv == Inv /\ Place => Inv'
<1> SUFFICES ASSUME Inv, Place PROVE Inv'
  OBVIOUS
<1> DEFINE u == install.unit  todo == install.todo
<1>1. /\ install.running /\ UNCHANGED <<daemon, rotated>> /\ u \in Units
      /\ install' = IF Len(todo) = 1 THEN Idle ELSE [install EXCEPT !.todo = Tail(@)]
  BY DEF Place, Inv, Credentials, Todo
<1>2. \/ todo \in {<<"config", "unit">>, <<"unit">>}
      \/ todo \in {<<"config", "unit", "token">>, <<"unit", "token">>, <<"token">>} /\ u = Controller
  BY <1>1 DEF Inv, Credentials, Todo
<1>3. Todo(install')
  <2>1. CASE install' = Idle
    BY <2>1, Shapes DEF Todo
  <2>2. CASE install' = [install EXCEPT !.todo = Tail(@)] /\ Len(todo) # 1
    <3>1. \/ Tail(todo) = <<"unit">>
          \/ Tail(todo) \in {<<"unit", "token">>, <<"token">>} /\ u = Controller
      <4>1. /\ Tail(<<"config", "unit">>) = <<"unit">>
            /\ Tail(<<"unit", "token">>) = <<"token">>
        OBVIOUS
      <4>2. Tail(<<"config", "unit", "token">>) = <<"unit", "token">>
        OBVIOUS
      <4>3. Len(<<"unit">>) = 1 /\ Len(<<"token">>) = 1
        OBVIOUS
      <4> QED BY <1>2, <2>2, <4>1, <4>2, <4>3, Zenon
    <3>2. install'.unit = u /\ install'.todo = Tail(todo) /\ DOMAIN install' = DOMAIN install
      <4> DEFINE rest == Tail(todo)
      <4>1. DOMAIN install = {"running", "unit", "force", "todo"}
        BY <1>1 DEF Inv, Credentials, Todo
      <4>2. install' = [install EXCEPT !.todo = rest]
        BY <2>2
      <4> HIDE DEF rest
      <4>3. install'.unit = install.unit /\ install'.todo = rest /\ DOMAIN install' = DOMAIN install
        BY <4>1, <4>2
      <4> QED BY <4>3 DEF rest
    <3> QED BY <1>1, <3>1, <3>2 DEF Todo, Inv, Credentials
  <2> QED BY <1>1, <2>1, <2>2
<1>4. CASE UNCHANGED <<token, secrets>>
  BY <1>1, <1>3, <1>4, Elsewhere DEF Inv, Credentials
<1>5. CASE ~UNCHANGED <<token, secrets>>
  <2>1. Head(todo) = "token" /\ PlaceToken(u)
    BY <1>5 DEF Place
  <2>2. u = Controller /\ Host(u) = Ctl
    BY <1>2, <2>1, Shapes
  <2> DEFINE s == secrets + 1
             t == [present |-> TRUE, secret |-> s, owned |-> Host(u) \in user]
  <2>3. /\ ~token[Ctl].present /\ secrets' = s /\ token' = [token EXCEPT ![Ctl] = t]
    BY <1>5, <2>1, <2>2 DEF PlaceToken, Keeps
  <2>4. t \in Held /\ t.present = TRUE /\ t.secret = s /\ s \in Nat
    BY DEF Held, Inv, Credentials
  <2>5. secrets \in Nat /\ (secrets = 0 => s = 1) /\ s # 0
    BY DEF Inv, Credentials
  <2> HIDE DEF t, s
  <2>6. /\ DOMAIN token' = Hosts /\ token'[Ctl] = t
        /\ \A h \in Hosts : h # Ctl => token'[h] = token[h]
    BY <2>3, Shapes DEF Inv, Credentials
  <2>7. Credentials'
    BY <1>1, <1>3, <2>3, <2>4, <2>6 DEF Inv, Credentials
  <2>8. OneSecret'
    BY <1>1, <2>3, <2>4, <2>5, <2>6 DEF Inv, OneSecret
  <2>9. Checked'
    BY <1>1 DEF Inv, Checked
  <2> QED BY <2>7, <2>8, <2>9 DEF Inv
<1> QED BY <1>4, <1>5

\* Files that are handed over keep their secret, or take the controller's.
LEMMA Handed ==
    ASSUME Inv, UNCHANGED <<secrets, rotated, install, daemon>>,
           DOMAIN token' = Hosts,
           \A h \in Hosts : \/ token'[h] = token[h]
                            \/ /\ token'[h] \in Held
                               /\ \/ token[h].present /\ token'[h].secret = token[h].secret
                                  \/ token[Ctl].present /\ token'[h].secret = token[Ctl].secret,
           token[Ctl].present => token'[Ctl].present
    PROVE  Inv'
<1>1. Credentials'
  BY DEF Inv, Credentials
<1>2. OneSecret'
  BY Shapes DEF Inv, OneSecret
<1>3. Checked'
  BY DEF Inv, Checked
<1> QED BY <1>1, <1>2, <1>3 DEF Inv

\* Handing a credential to its user keeps its secret.
LEMMA Owned ==
    ASSUME NEW t, t \in Held
    PROVE  [t EXCEPT !.owned = TRUE] \in Held /\ [t EXCEPT !.owned = TRUE].secret = t.secret
  BY DEF Held

LEMMA CreateUserInv == \A h \in Hosts : Inv /\ CreateUser(h) => Inv'
<1> SUFFICES ASSUME NEW h \in Hosts, Inv, CreateUser(h) PROVE Inv'
  OBVIOUS
<1>1. UNCHANGED <<secrets, rotated, install, daemon>> /\ DOMAIN token = Hosts
  BY DEF CreateUser, Inv, Credentials
<1>2. CASE ~token[h].present
  <2>1. token' = token
    BY <1>2 DEF CreateUser
  <2> QED BY <1>1, <2>1, Handed
<1>3. CASE token[h].present
  <2> DEFINE t == token[h]  n == [t EXCEPT !.owned = TRUE]
  <2>1. t \in Held
    BY <1>3, Shapes DEF Inv, Credentials
  <2>2. n \in Held /\ n.secret = t.secret /\ n.present
    BY <2>1, Owned, Shapes
  <2>3. token' = [token EXCEPT ![h] = n]
    BY <1>1, <1>3 DEF CreateUser
  <2> HIDE DEF n, t
  <2>4. DOMAIN token' = Hosts /\ token'[h] = n /\ \A g \in Hosts : g # h => token'[g] = token[g]
    BY <1>1, <2>3
  <2>5. token[Ctl].present => token'[Ctl].present
    BY <2>2, <2>4, Shapes
  <2>6. token'[h] \in Held /\ token'[h].secret = token[h].secret
    BY <2>2, <2>4 DEF t
  <2>7. \A g \in Hosts : \/ token'[g] = token[g]
                         \/ token'[g] \in Held /\ token[g].present /\ token'[g].secret = token[g].secret
    BY <1>3, <2>4, <2>6, Zenon
  <2> QED BY <1>1, <2>4, <2>5, <2>7, Handed
<1> QED BY <1>2, <1>3

LEMMA DistributeInv == \A h \in Hosts : Inv /\ Distribute(h) => Inv'
<1> SUFFICES ASSUME NEW h \in Hosts, Inv, Distribute(h) PROVE Inv'
  OBVIOUS
<1> DEFINE t == token[Ctl]  n == [t EXCEPT !.owned = TRUE]
<1>1. UNCHANGED <<secrets, rotated, install, daemon>> /\ DOMAIN token = Hosts /\ h # Ctl /\ token[Ctl].present
  BY DEF Distribute, Inv, Credentials
<1>2. t \in Held
  BY <1>1, Shapes DEF Inv, Credentials
<1>3. n \in Held /\ n.secret = t.secret
  BY <1>2, Owned
<1>4. token' = [token EXCEPT ![h] = n]
  BY <1>1 DEF Distribute
<1> HIDE DEF n, t
<1>5. DOMAIN token' = Hosts /\ token'[h] = n /\ \A g \in Hosts : g # h => token'[g] = token[g]
  BY <1>1, <1>4
<1>6. token'[Ctl] = token[Ctl]
  BY <1>1, <1>5, Shapes
<1> QED BY <1>1, <1>3, <1>5, <1>6, Handed DEF t

LEMMA RotateInv == Inv /\ Rotate => Inv'
<1> SUFFICES ASSUME Inv, Rotate PROVE Inv'
  OBVIOUS
<1>1. token' = [token EXCEPT ![Ctl] = Absent] /\ rotated' = TRUE /\ UNCHANGED <<install, daemon, secrets>>
  BY DEF Rotate
<1>2. Credentials'
  BY <1>1 DEF Inv, Credentials
<1>3. OneSecret' /\ Checked'
  BY <1>1 DEF Inv, OneSecret, Checked
<1> QED BY <1>2, <1>3 DEF Inv

\* A daemon that starts read the credential of its host, and settings without a
\* problem.
LEMMA StartInv == \A u \in Units : Inv /\ Start(u) => Inv'
<1> SUFFICES ASSUME NEW u \in Units, Inv, Start(u) PROVE Inv'
  OBVIOUS
<1>1. UNCHANGED <<token, secrets, rotated, install>> /\ DOMAIN daemon = Units
  BY DEF Start, Inv, Credentials
<1>2. CASE Refusal(u) # "none"
  <2>1. daemon' = daemon
    BY <1>2 DEF Start
  <2> QED BY <1>1, <2>1, Elsewhere DEF Inv, Credentials
<1>3. CASE Refusal(u) = "none"
  <2> DEFINE d == Reads(u)
  <2>1. CredentialRefusal(u) = "none" /\ TlsRefusal(u) = "none"
    BY <1>3 DEF Refusal
  <2>2. token[Host(u)].present /\ Problems(config[u].tls) = {}
    BY <2>1 DEF CredentialRefusal, TlsRefusal
  <2>3. d.secret = token[Host(u)].secret /\ d.tls = config[u].tls
    BY DEF Reads
  <2>4. daemon' = [daemon EXCEPT ![u] = d]
    BY <1>3 DEF Start
  <2> HIDE DEF d
  <2>5. DOMAIN daemon' = Units /\ daemon'[u] = d /\ \A v \in Units : v # u => daemon'[v] = daemon[v]
    BY <1>1, <2>4
  <2>6. Host(u) \in Hosts
    BY Shapes
  <2>7. Credentials'
    BY <1>1, <2>5 DEF Inv, Credentials
  <2>8. OneSecret'
    BY <1>1, <2>2, <2>3, <2>5, <2>6 DEF Inv, OneSecret
  <2>9. Checked'
    BY <2>2, <2>3, <2>5 DEF Inv, Checked
  <2> QED BY <2>7, <2>8, <2>9 DEF Inv
<1> QED BY <1>2, <1>3

LEMMA StepInv == Inv /\ [Next]_vars => Inv'
<1> SUFFICES ASSUME Inv, [Next]_vars PROVE Inv'
  OBVIOUS
<1>1. Todo(install) /\ Todo(Idle) /\ DOMAIN daemon = Units
  BY Shapes DEF Inv, Credentials, Todo
<1>2. CASE UNCHANGED vars
  BY <1>1, <1>2, Elsewhere DEF vars
<1>3. CASE Interrupt
  BY <1>1, <1>3, Elsewhere DEF Interrupt
<1>4. ASSUME NEW u \in Units, NEW force \in BOOLEAN, Install(u) \/ Reinstall(u, force) PROVE Inv'
  <2>1. \E f : Begin(u, f)
    BY <1>4 DEF Install, Reinstall
  <2>2. Todo(install')
    BY <2>1, Begun
  <2> QED BY <1>1, <1>4, <2>2, Elsewhere DEF Install, Reinstall
<1>5. ASSUME NEW u \in Units, Edit(u) \/ EditTls(u) \/ Enable(u) PROVE Inv'
  BY <1>1, <1>5, Elsewhere DEF Edit, EditTls, Enable
<1>6. ASSUME NEW u \in Units, Restart(u) \/ Stop(u) PROVE Inv'
  <2>1. daemon' = [daemon EXCEPT ![u] = Off] /\ UNCHANGED <<token, secrets, rotated, install>>
    BY <1>6 DEF Restart, Stop
  <2>2. DOMAIN daemon' = Units /\ \A v \in Units : daemon'[v] = daemon[v] \/ daemon'[v] = Off
    BY <1>1, <2>1
  <2> QED BY <1>1, <2>1, <2>2, Elsewhere
<1>7. ASSUME NEW h \in Hosts, NEW b, ReplaceBinary(h, b) PROVE Inv'
  BY <1>1, <1>7, Elsewhere DEF ReplaceBinary
<1> QED BY <1>2, <1>3, <1>4, <1>5, <1>6, <1>7, PlaceInv, RotateInv, StartInv, CreateUserInv, DistributeInv
        DEF Next

LEMMA AlwaysInv == Spec => []Inv
  BY InitInv, StepInv, PTL DEF Spec

\* Interrupted, repeated or forced, an installation locks nobody out: until an
\* operator deletes the credential, all files and all running daemons hold the
\* same (install_cmd.rs, the credential that --force does not reach).
THEOREM NobodyIsLockedOut == Spec => []NobodyLockedOut
<1>1. Inv => NobodyLockedOut
  BY DEF Inv, OneSecret, NobodyLockedOut
<1> QED BY <1>1, AlwaysInv, PTL

\* A controller with half of its TLS material never comes up in plaintext
\* (daemon_cmd.rs, the check of [tls] before it serves).
THEOREM PlainOnlyWhenAsked == Spec => []NeverQuietlyPlain
<1>1. Inv => NeverQuietlyPlain
  <2> SUFFICES ASSUME Inv, daemon[Controller].running,
                      {"cert", "key", "client_ca"} \cap daemon[Controller].tls # {}
               PROVE  ServesTls(daemon[Controller].tls)
    BY DEF NeverQuietlyPlain
  <2> DEFINE tls == daemon[Controller].tls
  <2>1. Problems(tls) = {}
    BY Shapes DEF Inv, Checked
  <2> HIDE DEF tls
  <2>2. ("cert" \in tls) = ("key" \in tls)
    BY <2>1 DEF Problems
  <2>3. "client_ca" \in tls => ServesTls(tls)
    BY <2>1 DEF Problems
  <2>4. "cert" \in tls \/ "key" \in tls \/ "client_ca" \in tls
    BY DEF tls
  <2> QED BY <2>2, <2>3, <2>4 DEF ServesTls, tls
<1> QED BY <1>1, AlwaysInv, PTL
-----------------------------------------------------------------------------
(* What an operator wrote into a configuration.                            *)

Settings == {"present", "version", "environment", "address", "tls", "owned"}

Files ==
    /\ DOMAIN config = Units
    /\ \A u \in Units : config[u].present => DOMAIN config[u] = Settings

\* What one step may do to one configuration file: nothing, an edit that takes no
\* setting back, or a new file, which over an old one only a forced installation
\* of the unit writes.
Kept(u) == config'[u] = config[u]
Refined(u) ==
    /\ config[u].present /\ DOMAIN config'[u] = Settings
    /\ Edited(config[u]) => Edited(config'[u])
Written(u) ==
    /\ DOMAIN config'[u] = Settings
    /\ config[u].present => install.running /\ install.unit = u /\ install.force

\* Placing files keeps a configuration or writes one afresh.
LEMMA PlaceFiles == ASSUME Files, Inv, Place, NEW u \in Units
                    PROVE  DOMAIN config' = Units /\ (Kept(u) \/ Written(u))
<1> DEFINE v == install.unit  g == Generated(v, Host(v) \in user)
<1>1. install.running /\ v \in Units
  BY DEF Place, Inv, Credentials, Todo
<1>2. CASE config' = config
  BY <1>2 DEF Files, Kept
<1>3. CASE config' # config
  <2>1. PlaceConfig(v)
    BY <1>3 DEF Place
  <2>2. ~Keeps("config", config[v].present) /\ config' = [config EXCEPT ![v] = g]
    BY <1>3, <2>1 DEF PlaceConfig
  <2>3. config[v].present => install.force
    BY <2>2 DEF Keeps
  <2>4. DOMAIN g = Settings
    BY DEF Generated, Settings
  <2> HIDE DEF g, v
  <2>5. DOMAIN config' = Units /\ config'[v] = g /\ (u # v => config'[u] = config[u])
    BY <1>1, <2>2 DEF Files
  <2> QED BY <1>1, <2>3, <2>4, <2>5 DEF Kept, Written, v
<1> QED BY <1>2, <1>3

\* An edit keeps a configuration or refines it.
LEMMA EditFiles == ASSUME Files, NEW v \in Units, Edit(v) \/ EditTls(v), NEW u \in Units
                   PROVE  DOMAIN config' = Units /\ (Kept(u) \/ Refined(u))
<1>1. config[v].present /\ DOMAIN config[v] = Settings
  BY DEF Edit, EditTls, Files
<1>2. CASE Edit(v)
  <2> DEFINE a == IF Role(v) = "agent" THEN "controller" ELSE "none"
             f == config[v]
             n == [f EXCEPT !.environment = "site", !.address = a]
  <2>1. ~Edited(f) /\ config' = [config EXCEPT ![v] = n]
    BY <1>2 DEF Edit, Files
  <2>2. DOMAIN n = Settings
    BY <1>1
  <2> HIDE DEF n
  <2>3. DOMAIN config' = Units /\ config'[v] = n /\ (u # v => config'[u] = config[u])
    BY <2>1 DEF Files
  <2> QED BY <1>1, <2>1, <2>2, <2>3 DEF Kept, Refined
<1>3. CASE EditTls(v)
  <2>1. PICK i \in 1 .. Len(TlsEdits[Role(v)]) - 1 : config' = [config EXCEPT ![v].tls = TlsEdits[Role(v)][i + 1]]
    BY <1>3 DEF EditTls
  <2> DEFINE t == TlsEdits[Role(v)][i + 1]
             f == config[v]
             n == [f EXCEPT !.tls = t]
  <2>2. config' = [config EXCEPT ![v] = n]
    BY <2>1 DEF Files
  <2> HIDE DEF t
  <2>3. DOMAIN n = Settings /\ n.environment = f.environment /\ n.address = f.address
    BY <1>1 DEF Settings
  <2> HIDE DEF n
  <2>4. DOMAIN config' = Units /\ config'[v] = n /\ (u # v => config'[u] = config[u])
    BY <2>2 DEF Files
  <2> QED BY <1>1, <2>3, <2>4 DEF Kept, Refined, Edited
<1> QED BY <1>2, <1>3

\* Creating the service user keeps a configuration or refines it.
LEMMA CreateFiles == ASSUME Files, NEW h \in Hosts, CreateUser(h), NEW u \in Units
                     PROVE  DOMAIN config' = Units /\ (Kept(u) \/ Refined(u))
<1> DEFINE f == config[u]  n == [f EXCEPT !.owned = TRUE]
<1>1. /\ DOMAIN config' = Units
      /\ config'[u] = IF Host(u) = h /\ f.present THEN n ELSE f
  BY DEF CreateUser
<1>2. CASE Host(u) = h /\ f.present
  <2>1. DOMAIN f = Settings
    BY <1>2 DEF Files
  <2>2. DOMAIN n = Settings /\ n.environment = f.environment /\ n.address = f.address
    BY <2>1 DEF Settings
  <2> HIDE DEF n
  <2> QED BY <1>1, <1>2, <2>2 DEF Refined, Edited
<1> QED BY <1>1, <1>2 DEF Kept

\* No step but those writes a configuration.
LEMMA FilesStep == ASSUME Files, Inv, [Next]_vars, NEW u \in Units
                   PROVE  DOMAIN config' = Units /\ (Kept(u) \/ Refined(u) \/ Written(u))
<1>1. CASE config' = config
  BY <1>1 DEF Files, Kept
<1>2. CASE config' # config
  <2>1. ~UNCHANGED vars /\ ~Interrupt /\ ~Rotate
    BY <1>2 DEF vars, Interrupt, Rotate
  <2>2. \A v \in Units : ~Install(v) /\ ~Enable(v) /\ ~Start(v) /\ ~Restart(v) /\ ~Stop(v)
    BY <1>2 DEF Install, Enable, Start, Restart, Stop
  <2>3. \A v \in Units, force \in BOOLEAN : ~Reinstall(v, force)
    BY <1>2 DEF Reinstall
  <2>4. \A h \in Hosts : ~Distribute(h) /\ \A b \in 1 .. Len(Builds) : ~ReplaceBinary(h, b)
    BY <1>2 DEF Distribute, ReplaceBinary
  <2>5. \/ Place
        \/ \E v \in Units : Edit(v) \/ EditTls(v)
        \/ \E h \in Hosts : CreateUser(h)
    BY <2>1, <2>2, <2>3, <2>4 DEF Next
  <2> QED BY <2>5, PlaceFiles, EditFiles, CreateFiles
<1> QED BY <1>1, <1>2

LEMMA AlwaysFiles == Spec => []Files
<1>1. Init => Files
  BY Shapes DEF Init, Files
<1>2. Files /\ Inv /\ [Next]_vars => Files'
  <2> SUFFICES ASSUME Files, Inv, [Next]_vars PROVE Files'
    OBVIOUS
  <2>1. ASSUME NEW u \in Units PROVE DOMAIN config' = Units /\ (config'[u].present => DOMAIN config'[u] = Settings)
    BY FilesStep DEF Files, Kept, Refined, Written
  <2>2. DOMAIN config' = Units
    BY <2>1, Shapes
  <2> QED BY <2>1, <2>2 DEF Files
<1> QED BY <1>1, <1>2, AlwaysInv, PTL DEF Spec

\* What an operator wrote into a configuration is lost to no installation they
\* did not force, whatever else happens to the host (install_cmd.rs, the files
\* that are kept when they exist).
THEOREM OperatorEditsSurvive == Spec => EditsSurvive
<1> DEFINE Survives == \A u \in Units : config[u].present /\ Edited(config[u]) /\ ~Edited(config'[u])
                           => install.running /\ install.unit = u /\ install.force
<1>1. Files /\ Inv /\ [Next]_vars => [Survives]_vars
  <2> SUFFICES ASSUME Files, Inv, [Next]_vars, NEW u \in Units,
                      config[u].present, Edited(config[u]), ~Edited(config'[u])
               PROVE  install.running /\ install.unit = u /\ install.force
    OBVIOUS
  <2>1. Kept(u) \/ Refined(u) \/ Written(u)
    BY FilesStep
  <2> QED BY <2>1 DEF Kept, Refined, Written
<1> QED BY <1>1, AlwaysFiles, AlwaysInv, PTL DEF Spec, EditsSurvive

-----------------------------------------------------------------------------
(* What `doctor' says of the credential.                                   *)

\* Where the service user exists, it owns the credential: it is created with the
\* file, or the file with it.
Owners == \A h \in Hosts : h \in user /\ token[h].present => token[h].owned

LEMMA OwnersStep == Owners /\ Inv /\ [Next]_vars => Owners'
<1> SUFFICES ASSUME Owners, Inv, [Next]_vars PROVE Owners'
  OBVIOUS
<1>0. DOMAIN token = Hosts
  BY DEF Inv, Credentials
<1>1. CASE UNCHANGED <<user, token>>
  BY <1>1 DEF Owners
<1>2. CASE Place /\ ~UNCHANGED token
  <2> DEFINE u == install.unit
             t == [present |-> TRUE, secret |-> secrets + 1, owned |-> Host(u) \in user]
  <2>1. token' = [token EXCEPT ![Host(u)] = t] /\ user' = user
    BY <1>2 DEF Place, PlaceToken
  <2>2. t.owned <=> Host(u) \in user
    OBVIOUS
  <2> HIDE DEF t
  <2> QED BY <1>0, <2>1, <2>2 DEF Owners
<1>3. ASSUME NEW h \in Hosts, CreateUser(h) PROVE Owners'
  <2>1. CASE ~token[h].present
    BY <1>3, <2>1 DEF CreateUser, Owners
  <2>2. CASE token[h].present
    <3> DEFINE t == token[h]  n == [t EXCEPT !.owned = TRUE]
    <3>1. t \in Held
      BY <2>2, Shapes DEF Inv, Credentials
    <3>2. n.owned
      BY <3>1 DEF Held
    <3>3. token' = [token EXCEPT ![h] = n] /\ user' = user \cup {h}
      BY <1>0, <1>3, <2>2 DEF CreateUser
    <3> HIDE DEF n
    <3> QED BY <1>0, <3>2, <3>3 DEF Owners
  <2> QED BY <2>1, <2>2
<1>4. ASSUME NEW h \in Hosts, Distribute(h) PROVE Owners'
  <2> DEFINE t == token[Ctl]  n == [t EXCEPT !.owned = TRUE]
  <2>1. t \in Held
    BY <1>4, Shapes DEF Distribute, Inv, Credentials
  <2>2. n.owned
    BY <2>1 DEF Held
  <2>3. token' = [token EXCEPT ![h] = n] /\ user' = user
    BY <1>4 DEF Distribute
  <2> HIDE DEF n
  <2> QED BY <1>0, <2>2, <2>3 DEF Owners
<1>5. CASE Rotate
  <2>1. token' = [token EXCEPT ![Ctl] = Absent] /\ user' = user
    BY <1>5 DEF Rotate
  <2> QED BY <1>0, <2>1, Shapes DEF Owners
<1>6. CASE Place /\ UNCHANGED token
  BY <1>1, <1>6 DEF Place
<1>7. CASE Interrupt \/ UNCHANGED vars
  BY <1>1, <1>7 DEF Interrupt, vars
<1>8. ASSUME NEW u \in Units, Install(u) \/ Edit(u) \/ EditTls(u) \/ Enable(u) \/ Start(u) \/ Restart(u) \/ Stop(u)
      PROVE  Owners'
  BY <1>1, <1>8 DEF Install, Edit, EditTls, Enable, Start, Restart, Stop
<1>9. ASSUME NEW u \in Units, NEW force \in BOOLEAN, Reinstall(u, force) PROVE Owners'
  BY <1>1, <1>9 DEF Reinstall
<1>10. ASSUME NEW h \in Hosts, NEW b \in 1 .. Len(Builds), ReplaceBinary(h, b) PROVE Owners'
  BY <1>1, <1>10 DEF ReplaceBinary
<1> QED BY <1>2, <1>3, <1>4, <1>5, <1>6, <1>7, <1>8, <1>9, <1>10 DEF Next

\* Where the service user exists, `doctor' reports a credential exactly when the
\* daemon's next start finds one it can read: nobody is told the host is in order
\* while the daemon is refused (daemon_cmd.rs, the checks of doctor).
THEOREM DoctorIsRight == Spec => []DoctorDescribesHost
<1>1. Init => Owners
  BY DEF Init, Owners
<1>2. Inv /\ Owners => DoctorDescribesHost
  BY Shapes DEF Owners, DoctorDescribesHost, Doctor, CredentialRefusal
<1> QED BY <1>1, <1>2, OwnersStep, AlwaysInv, PTL DEF Spec
=============================================================================
