----------------------------- MODULE AgentProofs -----------------------------
(***************************************************************************)
(* The agent, for any number of hosts, boots, faults and scheduled probes. *)
(*                                                                         *)
(* Its registration (AgentSession): an agent is never ahead of the         *)
(* controller's session, a reboot that is reported was one, and none goes  *)
(* unreported but for a registration cut between its commits.              *)
(*                                                                         *)
(* For the sessions, answers on their way are part of the invariant: none  *)
(* carries a session newer than the controller's.  For the reboots it is   *)
(* the requests at the lock: those of one host wait in the order of its    *)
(* boots, none of them older than what the store already knows, so the     *)
(* late service of an abandoned registration never turns time back.  For   *)
(* completeness it is the registration between its commits, which owes the *)
(* report of the difference it has read.                                   *)
(*                                                                         *)
(* Its probe runner (ProbeRunner): no slot is lost, and none is handed out *)
(* twice.  SlotsBalanced is inductive together with what ties the awaited  *)
(* task to the live ones: a task that is awaited has not ended, and a late *)
(* end is never that of the awaited task, so each task releases its slot   *)
(* once.                                                                   *)
(***************************************************************************)
EXTENDS AgentSession, ProbeRunner, FiniteSetTheorems, TLAPS

\* Most steps are first-order: Zenon, unless a step says otherwise.
USE Zenon

-----------------------------------------------------------------------------
(* Sessions.                                                               *)

Fields == {"pc", "call", "session", "registered", "targets", "due"}

IsProcess(p) == DOMAIN p = Fields /\ p.session \in Nat /\ p.session <= issued

Sessions ==
    /\ issued \in Nat
    /\ sessions \in [Host -> Nat] /\ \A h \in Host : sessions[h] <= issued
    /\ DOMAIN agent = Host /\ \A h \in Host : IsProcess(agent[h])
    /\ DOMAIN answer = Host

Plain == {"failed", "assignments", "heartbeat"}

AnswersBehind ==
    \A h \in Host : \A a \in answer[h] :
        \/ a.call \in Plain
        \/ /\ a.call = "register" /\ a.session \in Nat /\ a.session <= issued
           /\ sessions[h] # 0 => a.session <= sessions[h]

SInv == Sessions /\ AnswersBehind /\ SessionNotAhead

\* A step in which the controller issues and forgets no session, and an agent
\* takes one only from an answer.
LEMMA AgentStep ==
    ASSUME SInv, UNCHANGED <<sessions, issued>>,
           DOMAIN agent' = Host, DOMAIN answer' = Host,
           \A h \in Host : /\ DOMAIN agent'[h] = Fields
                           /\ \/ agent'[h].session \in {agent[h].session, 0}
                              \/ \E a \in answer[h] : a.call = "register" /\ agent'[h].session = a.session,
           \A h \in Host : \A a \in answer'[h] : a \in answer[h] \/ a.call \in Plain
    PROVE  SInv'
<1>1. Sessions'
  BY SMT DEF SInv, Sessions, AnswersBehind, IsProcess, Plain
<1>2. AnswersBehind'
  BY DEF SInv, AnswersBehind
<1>3. SessionNotAhead'
  BY SMT DEF SInv, Sessions, IsProcess, AnswersBehind, SessionNotAhead, Plain
<1> QED BY <1>1, <1>2, <1>3 DEF SInv

LEMMA InitSInv == Init => SInv
<1> SUFFICES ASSUME Init PROVE SInv
  OBVIOUS
<1>1. DOMAIN Process = Fields /\ Process.session = 0
  BY DEF Process, Fields
<1> HIDE DEF Process
<1> QED BY SMT, <1>1 DEF Init, SInv, Sessions, AnswersBehind, SessionNotAhead, IsProcess

\* An agent after a failed call.
LEMMA FailedProcess ==
    ASSUME Sessions, NEW h \in Host, NEW call, NEW final
    PROVE  DOMAIN Failed(h, call, final) = Fields /\ Failed(h, call, final).session = agent[h].session
<1> DEFINE p == agent[h]
           pc == After(call)
           reg == IF call = "register" \/ (call = "heartbeat" /\ final) THEN FALSE ELSE p.registered
<1>1. DOMAIN p = Fields
  BY DEF Sessions, IsProcess
<1>2. Failed(h, call, final) = [p EXCEPT !.pc = pc, !.call = "none", !.registered = reg]
  BY DEF Failed
<1> HIDE DEF p, pc, reg
<1>3. DOMAIN [p EXCEPT !.pc = pc, !.call = "none", !.registered = reg] = Fields
  BY <1>1
<1>4. [p EXCEPT !.pc = pc, !.call = "none", !.registered = reg].session = p.session
  BY <1>1 DEF Fields
<1> QED BY <1>2, <1>3, <1>4 DEF p

LEMMA TurnSInv == \A h \in Host : SInv /\ (Turn(h) \/ Garbled(h) \/ Expire(h) \/ Restart(h)) => SInv'
<1> SUFFICES ASSUME NEW h \in Host, SInv, Turn(h) \/ Garbled(h) \/ Expire(h) \/ Restart(h) PROVE SInv'
  OBVIOUS
<1>0. /\ Sessions /\ DOMAIN agent = Host /\ DOMAIN answer = Host
      /\ \A g \in Host : DOMAIN agent[g] = Fields
  BY DEF SInv, Sessions, IsProcess
<1> DEFINE p == agent[h]
\* One agent changes, and takes no session.
<1>a. ASSUME NEW q, agent' = [agent EXCEPT ![h] = q], DOMAIN q = Fields, q.session \in {p.session, 0},
             UNCHANGED <<sessions, issued>>, DOMAIN answer' = Host,
             \A g \in Host : \A a \in answer'[g] : a \in answer[g] \/ a.call \in Plain
      PROVE  SInv'
  BY <1>0, <1>a, AgentStep
<1>1. CASE Send(h)
  <2> DEFINE q == [[p EXCEPT !.pc = "wait"] EXCEPT !.call = Wants(h)]
  <2>1. agent' = [agent EXCEPT ![h] = q] /\ UNCHANGED <<sessions, issued>>
    BY <1>0, <1>1 DEF Send
  <2>2. DOMAIN q = Fields /\ q.session = p.session
    BY <1>0 DEF Fields
  <2>3. answer' = answer \/ answer' = [answer EXCEPT ![h] = {Heartbeat(h)}]
    BY <1>1 DEF Send
  <2>4. Heartbeat(h).call \in Plain
    BY DEF Heartbeat, Plain
  <2>5. DOMAIN answer' = Host /\ \A g \in Host : \A a \in answer'[g] : a \in answer[g] \/ a.call \in Plain
    BY <1>0, <2>3, <2>4
  <2> HIDE DEF q
  <2> QED BY <1>a, <2>1, <2>2, <2>5
<1>2. CASE Unreachable(h)
  <2>1. agent' = [agent EXCEPT ![h] = Failed(h, Wants(h), FALSE)] /\ UNCHANGED <<sessions, issued, answer>>
    BY <1>2 DEF Unreachable, ctl
  <2>2. DOMAIN Failed(h, Wants(h), FALSE) = Fields /\ Failed(h, Wants(h), FALSE).session = p.session
    BY <1>0, FailedProcess
  <2> HIDE DEF p
  <2> QED BY <1>0, <1>a, <2>1, <2>2
<1>3. CASE GiveUp(h) \/ Garbled(h)
  <2>1. PICK final \in BOOLEAN :
            /\ agent' = [agent EXCEPT ![h] = Failed(h, agent[h].call, final)]
            /\ UNCHANGED <<sessions, issued>> /\ answer' = [answer EXCEPT ![h] = {}]
    BY <1>3 DEF GiveUp, Garbled, ctl
  <2>2. DOMAIN Failed(h, agent[h].call, final) = Fields /\ Failed(h, agent[h].call, final).session = p.session
    BY <1>0, FailedProcess
  <2> HIDE DEF p
  <2> QED BY <1>0, <1>a, <2>1, <2>2
<1>4. CASE Expire(h)
  <2> DEFINE q == [p EXCEPT !.due = TRUE]
  <2>1. agent' = [agent EXCEPT ![h] = q] /\ UNCHANGED <<sessions, issued, answer>>
    BY <1>0, <1>4 DEF Expire, ctl
  <2>2. DOMAIN q = Fields /\ q.session = p.session
    BY <1>0 DEF Fields
  <2> HIDE DEF q, p
  <2> QED BY <1>0, <1>a, <2>1, <2>2
<1>5. CASE Restart(h)
  <2>1. agent' = [agent EXCEPT ![h] = Process] /\ UNCHANGED <<sessions, issued>>
        /\ answer' = [answer EXCEPT ![h] = {}]
    BY <1>5 DEF Restart
  <2>2. DOMAIN Process = Fields /\ Process.session = 0
    BY DEF Process, Fields
  <2> HIDE DEF p
  <2> QED BY <1>0, <1>a, <2>1, <2>2
<1>6. CASE Receive(h)
  <2>1. PICK a \in answer[h] : agent' = [agent EXCEPT ![h] =
            CASE a.call = "failed" -> Failed(h, agent[h].call, FALSE)
              [] a.call = "register" ->
                   [@ EXCEPT !.pc = "tick", !.call = "none", !.session = a.session, !.registered = TRUE, !.due = TRUE]
              [] a.call = "assignments" ->
                   [@ EXCEPT !.pc = "beat", !.call = "none", !.targets = a.targets, !.due = FALSE]
              [] a.call = "heartbeat" ->
                   [@ EXCEPT !.pc = IF a.reregister THEN "start" ELSE "tick", !.call = "none"]]
    BY <1>6 DEF Receive
  <2>2. UNCHANGED <<sessions, issued>> /\ answer' = [answer EXCEPT ![h] = {}]
    BY <1>6 DEF Receive, ctl
  <2>3. \A g \in Host : \A b \in answer'[g] : b \in answer[g]
    BY <1>0, <2>2
  <2>q. ASSUME NEW q, agent' = [agent EXCEPT ![h] = q], DOMAIN q = Fields,
               q.session = p.session \/ (a.call = "register" /\ q.session = a.session)
        PROVE  SInv'
    BY <1>0, <2>2, <2>3, <2>q, AgentStep
  <2>4. DOMAIN p = Fields /\ a.call \in Plain \cup {"register"}
    BY <1>0 DEF SInv, AnswersBehind
  <2>5. CASE a.call = "failed"
    <3>1. agent' = [agent EXCEPT ![h] = Failed(h, agent[h].call, FALSE)]
      BY <2>1, <2>5
    <3>2. DOMAIN Failed(h, agent[h].call, FALSE) = Fields /\ Failed(h, agent[h].call, FALSE).session = p.session
      BY <1>0, FailedProcess
    <3> HIDE DEF p
    <3> QED BY <2>q, <3>1, <3>2
  <2>6. CASE a.call = "register"
    <3> DEFINE q == [p EXCEPT !.pc = "tick", !.call = "none", !.session = a.session, !.registered = TRUE, !.due = TRUE]
    <3>1. agent' = [agent EXCEPT ![h] = q]
      BY <1>0, <2>1, <2>6
    <3>2. DOMAIN q = Fields /\ q.session = a.session
      BY <2>4 DEF Fields
    <3> HIDE DEF p, q
    <3> QED BY <2>q, <2>6, <3>1, <3>2
  <2>7. CASE a.call = "assignments"
    <3> DEFINE q == [p EXCEPT !.pc = "beat", !.call = "none", !.targets = a.targets, !.due = FALSE]
    <3>1. agent' = [agent EXCEPT ![h] = q]
      BY <1>0, <2>1, <2>7
    <3>2. DOMAIN q = Fields /\ q.session = p.session
      BY <2>4 DEF Fields
    <3> HIDE DEF p, q
    <3> QED BY <2>q, <3>1, <3>2
  <2>8. CASE a.call = "heartbeat"
    <3> DEFINE pc == IF a.reregister THEN "start" ELSE "tick"
               q == [p EXCEPT !.pc = pc, !.call = "none"]
    <3>1. agent' = [agent EXCEPT ![h] = q]
      BY <1>0, <2>1, <2>8
    <3> HIDE DEF pc
    <3>2. DOMAIN q = Fields /\ q.session = p.session
      BY <2>4 DEF Fields
    <3> HIDE DEF p, q
    <3> QED BY <2>q, <3>1, <3>2
  <2> QED BY <2>4, <2>5, <2>6, <2>7, <2>8 DEF Plain
<1> QED BY <1>1, <1>2, <1>3, <1>4, <1>5, <1>6 DEF Turn

\* A registration is answered: the new session is ahead of every other.
LEMMA FinishSInv == SInv /\ FinishRegistration => SInv'
<1> SUFFICES ASSUME SInv, FinishRegistration PROVE SInv'
  OBVIOUS
<1> DEFINE r == Head(queue)
           s == issued + 1
           a == [call |-> "register", session |-> s]
<1>1. /\ issued' = s /\ sessions' = [sessions EXCEPT ![r.agent] = s] /\ agent' = agent
      /\ Respond(r, a)
  BY DEF FinishRegistration
<1>2. answer' = answer \/ answer' = [answer EXCEPT ![r.agent] = {a}]
  BY <1>1 DEF Respond
<1>3. a.call = "register" /\ a.session = s /\ issued \in Nat /\ s \in Nat /\ issued < s
  BY SMT DEF SInv, Sessions
<1> HIDE DEF r, s, a
<1>4. \A h \in Host : sessions'[h] \in {sessions[h], s} /\ (h = r.agent => sessions'[h] = s)
  BY <1>1 DEF SInv, Sessions
<1>5. Sessions'
  <2>1. DOMAIN answer' = Host
    BY <1>2 DEF SInv, Sessions
  <2>2. sessions' \in [Host -> Nat] /\ \A h \in Host : sessions'[h] <= issued'
    <3>1. \A h \in Host : sessions[h] \in Nat /\ sessions[h] <= issued
      BY DEF SInv, Sessions
    <3>2. \A h \in Host : sessions'[h] \in Nat /\ sessions'[h] <= s
      BY SMT, <1>3, <1>4, <3>1
    <3>3. sessions' = [h \in Host |-> sessions'[h]]
      BY <1>1 DEF SInv, Sessions
    <3> QED BY <1>1, <3>2, <3>3
  <2>3. DOMAIN agent' = Host /\ \A h \in Host : IsProcess(agent[h])'
    BY SMT, <1>1, <1>3 DEF SInv, Sessions, IsProcess
  <2> QED BY <1>1, <1>3, <2>1, <2>2, <2>3 DEF Sessions
<1>6. ASSUME NEW h \in Host, NEW b \in answer'[h]
      PROVE  \/ b.call \in Plain
             \/ /\ b.call = "register" /\ b.session \in Nat /\ b.session <= issued'
                /\ sessions'[h] # 0 => b.session <= sessions'[h]
  <2>1. b \in answer[h] \/ (h = r.agent /\ b = a)
    BY SMT, <1>2, <1>6 DEF SInv, Sessions
  <2>2. CASE h = r.agent /\ b = a
    BY SMT, <1>1, <1>3, <1>4, <2>2
  <2>3. CASE b \in answer[h]
    <3>1. sessions[h] \in Nat /\ sessions[h] <= issued
      BY DEF SInv, Sessions
    <3> QED BY SMT, <1>1, <1>3, <1>4, <2>3, <3>1 DEF SInv, AnswersBehind
  <2> QED BY <2>1, <2>2, <2>3
<1>7. AnswersBehind'
  BY <1>6 DEF AnswersBehind
<1>8. SessionNotAhead'
  BY SMT, <1>1, <1>3, <1>4 DEF SInv, Sessions, IsProcess, SessionNotAhead
<1> QED BY <1>5, <1>7, <1>8 DEF SInv

\* What the controller answers without issuing a session.
LEMMA PlainSInv ==
    ASSUME SInv, UNCHANGED <<sessions, issued, agent>>, NEW r, NEW a, a.call \in Plain, Respond(r, a)
    PROVE  SInv'
<1>1. answer' = answer \/ answer' = [answer EXCEPT ![r.agent] = {a}]
  BY DEF Respond
<1>2. DOMAIN answer' = Host /\ \A h \in Host : \A b \in answer'[h] : b \in answer[h] \/ b.call \in Plain
  BY SMT, <1>1 DEF SInv, Sessions
<1> QED BY <1>2, AgentStep DEF SInv, Sessions, IsProcess

LEMMA CrashSInv == SInv /\ Crash => SInv'
  BY SMT DEF SInv, Sessions, IsProcess, AnswersBehind, SessionNotAhead, Crash

LEMMA StepSInv == SInv /\ [Next]_vars => SInv'
<1> SUFFICES ASSUME SInv, [Next]_vars PROVE SInv'
  OBVIOUS
<1>1. CASE UNCHANGED <<sessions, issued, agent, answer>>
  BY <1>1 DEF SInv, Sessions, IsProcess, AnswersBehind, SessionNotAhead
<1>2. StartRegistration \/ StartController \/ UNCHANGED vars => UNCHANGED <<sessions, issued, agent, answer>>
  BY DEF StartRegistration, StartController, vars
<1>3. CASE Refuse
  <2>1. /\ UNCHANGED <<sessions, issued, agent>>
        /\ Respond(Head(queue), [call |-> "failed"])
    BY <1>3 DEF Refuse
  <2>2. [call |-> "failed"].call \in Plain
    BY DEF Plain
  <2> QED BY <2>1, <2>2, PlainSInv
<1>4. CASE ServeAssignments
  <2> DEFINE r == Head(queue)
             ts == IF r.known THEN TargetsFor(Plan, r.agent) ELSE {}
             a == [call |-> "assignments", targets |-> ts]
  <2>1. UNCHANGED <<sessions, issued, agent>> /\ Respond(r, a)
    BY <1>4 DEF ServeAssignments
  <2>2. a.call \in Plain
    BY DEF Plain
  <2> HIDE DEF r, a
  <2> QED BY <2>1, <2>2, PlainSInv
<1> QED BY <1>1, <1>2, <1>3, <1>4, TurnSInv, FinishSInv, CrashSInv DEF Next, Serve

\* No agent is ever ahead of the session the controller knows it by, however
\* late a registration it gave up is served (AgentRegistry::register and
\* heartbeat).
THEOREM AgentsNeverAhead == Spec => []SessionNotAhead
<1>1. SInv => SessionNotAhead
  BY DEF SInv
<1> QED BY <1>1, InitSInv, StepSInv, PTL DEF Spec

-----------------------------------------------------------------------------
(* Reboots.                                                                *)

Req == [agent : Host, call : {"register", "heartbeat", "assignments"}, boot : Nat,
        live : BOOLEAN, known : BOOLEAN]

Row == [known : BOOLEAN, boot : Nat, reboots : Seq(Nat \X Nat)]

Boots ==
    /\ boot \in [Host -> Nat] /\ queue \in Seq(Req) /\ db \in [Host -> Row]
    /\ \A h \in Host : db[h].boot <= boot[h]
    /\ \A i \in DOMAIN queue : queue[i].boot <= boot[queue[i].agent]

\* The requests of a host wait in the order of its boots, and none that names a
\* boot is older than the stored one.
InOrder ==
    /\ \A i, j \in DOMAIN queue :
          i < j /\ queue[i].agent = queue[j].agent /\ queue[j].boot # 0 => queue[i].boot <= queue[j].boot
    /\ \A i \in DOMAIN queue : queue[i].boot # 0 => db[queue[i].agent].boot <= queue[i].boot

\* A reported reboot is no later than anything the store or the queue knows.
Told(h) ==
    \A k \in DOMAIN db[h].reboots :
        /\ db[h].reboots[k][2] <= boot[h]
        /\ db[h].boot # 0 => db[h].reboots[k][2] <= db[h].boot
        /\ \A i \in DOMAIN queue : queue[i].agent = h /\ queue[i].boot # 0 =>
              db[h].reboots[k][2] <= queue[i].boot

\* The registration between its commits.
Between(m) ==
    /\ queue # <<>> /\ queue[1].call = "register"
    /\ m.after = queue[1].boot /\ db[queue[1].agent].boot = m.after
    /\ m.before \in Nat /\ (m.after # 0 => m.before <= m.after)
    /\ m.before # 0 => \A k \in DOMAIN db[queue[1].agent].reboots :
                          db[queue[1].agent].reboots[k][2] <= m.before

BInv ==
    /\ Boots /\ InOrder /\ RebootsReal
    /\ \A h \in Host : Told(h)
    /\ \A m \in midway : Between(m)

LEMMA InitBInv == Init => BInv
<1> SUFFICES ASSUME Init PROVE BInv
  OBVIOUS
<1> DEFINE row == [known |-> FALSE, boot |-> 0, reboots |-> <<>>]
<1>1. row \in Row /\ row.boot = 0 /\ row.reboots = <<>>
  BY SMT DEF Row
<1> HIDE DEF row
<1>2. \A h \in Host : db[h] = row /\ boot[h] = 1
  BY DEF Init, row
<1>3. Boots
  BY SMT, <1>1, <1>2 DEF Init, Boots, row
<1> QED BY SMT, <1>1, <1>2, <1>3 DEF Init, BInv, InOrder, RebootsReal, Told

\* What the types say of a queue, and of what the store holds.
LEMMA QueueType ==
    ASSUME NEW q, q \in Seq(Req)
    PROVE  /\ Len(q) \in Nat /\ DOMAIN q = 1..Len(q)
           /\ \A i \in DOMAIN q : q[i].boot \in Nat /\ q[i].agent \in Host
<1>1. Len(q) \in Nat /\ DOMAIN q = 1..Len(q) /\ \A i \in DOMAIN q : q[i] \in Req
  BY SMT
<1>2. \A r \in Req : r.boot \in Nat /\ r.agent \in Host
  BY DEF Req
<1> QED BY <1>1, <1>2

\* A stored session is a row of its type.
LEMMA RowType ==
    ASSUME Boots, NEW h \in Host
    PROVE  /\ boot[h] \in Nat /\ db[h] \in Row /\ db[h].boot \in Nat /\ db[h].reboots \in Seq(Nat \X Nat)
           /\ Len(db[h].reboots) \in Nat /\ DOMAIN db[h].reboots = 1..Len(db[h].reboots)
           /\ \A k \in DOMAIN db[h].reboots :
                 db[h].reboots[k][1] \in Nat /\ db[h].reboots[k][2] \in Nat
<1>1. boot[h] \in Nat /\ db[h] \in Row
  BY DEF Boots
<1>2. db[h].boot \in Nat /\ db[h].reboots \in Seq(Nat \X Nat)
  BY <1>1 DEF Row
<1> DEFINE s == db[h].reboots
<1> HIDE DEF s
<1>3. ASSUME s \in Seq(Nat \X Nat)
      PROVE  /\ Len(s) \in Nat /\ DOMAIN s = 1..Len(s)
             /\ \A k \in DOMAIN s : s[k][1] \in Nat /\ s[k][2] \in Nat
  BY SMT, <1>3
<1> QED BY <1>1, <1>2, <1>3 DEF s

\* Requests come in and are abandoned; machines boot.
LEMMA Arrival ==
    ASSUME BInv, UNCHANGED <<db, midway>>,
           boot' \in [Host -> Nat], \A h \in Host : boot[h] <= boot'[h],
           queue' \in Seq(Req), Len(queue') \in {Len(queue), Len(queue) + 1},
           \A i \in DOMAIN queue : /\ queue'[i].agent = queue[i].agent
                                   /\ queue'[i].boot = queue[i].boot
                                   /\ queue'[i].call = queue[i].call,
           Len(queue') = Len(queue) + 1 =>
               queue'[Len(queue')].boot \in {0, boot[queue'[Len(queue')].agent]}
    PROVE  BInv'
<1>1. /\ Len(queue) \in Nat /\ DOMAIN queue = 1..Len(queue)
      /\ \A i \in DOMAIN queue : queue[i].boot \in Nat /\ queue[i].agent \in Host
  BY QueueType DEF BInv, Boots
<1>2. /\ Len(queue') \in Nat /\ DOMAIN queue' = 1..Len(queue')
      /\ \A i \in DOMAIN queue' : queue'[i].boot \in Nat /\ queue'[i].agent \in Host
  BY QueueType
<1>3. \A h \in Host : boot[h] \in Nat /\ boot'[h] \in Nat /\ db[h].boot \in Nat
  BY RowType DEF BInv
<1>4. /\ \A i \in DOMAIN queue' : i \in DOMAIN queue \/ (i = Len(queue) + 1 /\ Len(queue') = i)
      /\ DOMAIN queue \subseteq DOMAIN queue'
  <2> DEFINE n == Len(queue)  l == Len(queue')
  <2>1. n \in Nat /\ l \in {n, n + 1}
    BY <1>1
  <2> HIDE DEF n, l
  <2>2. /\ \A i \in 1..l : i \in 1..n \/ (i = n + 1 /\ l = i)
        /\ 1..n \subseteq 1..l
    BY SMT, <2>1
  <2> QED BY <1>1, <1>2, <2>2 DEF n, l
<1>5. ASSUME NEW i \in DOMAIN queue'
      PROVE  /\ i \notin DOMAIN queue => queue'[i].boot \in {0, boot[queue'[i].agent]}
             /\ queue'[i].boot <= boot[queue'[i].agent]
             /\ queue'[i].boot # 0 => db[queue'[i].agent].boot <= queue'[i].boot
  <2>1. CASE i \in DOMAIN queue
    BY <1>1, <1>3, <2>1 DEF BInv, Boots, InOrder
  <2>2. CASE i \notin DOMAIN queue
    <3>1. queue'[i].boot \in {0, boot[queue'[i].agent]} /\ queue'[i].agent \in Host
      BY <1>2, <1>4, <2>2
    <3> QED BY SMT, <1>3, <2>2, <3>1 DEF BInv, Boots
  <2> QED BY <2>1, <2>2
<1>6. Boots'
  <2>1. \A h \in Host : db[h].boot <= boot'[h]
    BY SMT, <1>3 DEF BInv, Boots
  <2>2. \A i \in DOMAIN queue' : queue'[i].boot <= boot'[queue'[i].agent]
    <3> SUFFICES ASSUME NEW i \in DOMAIN queue' PROVE queue'[i].boot <= boot'[queue'[i].agent]
      OBVIOUS
    <3> DEFINE g == queue'[i].agent  b == queue'[i].boot
    <3>1. g \in Host /\ b \in Nat /\ b <= boot[g]
      BY <1>2, <1>5
    <3> HIDE DEF g, b
    <3>2. b <= boot'[g]
      BY SMT, <1>3, <3>1
    <3> QED BY <3>2 DEF g, b
  <2> QED BY <2>1, <2>2 DEF BInv, Boots
<1>7. InOrder'
  <2>1. ASSUME NEW i \in DOMAIN queue', NEW j \in DOMAIN queue', i < j,
               queue'[i].agent = queue'[j].agent, queue'[j].boot # 0
        PROVE  queue'[i].boot <= queue'[j].boot
    <3>1. i \in DOMAIN queue
      <4> DEFINE n == Len(queue)  l == Len(queue')
      <4>1. /\ n \in Nat /\ l \in {n, n + 1} /\ i \in 1..l /\ j \in 1..l /\ i < j
        BY <1>1, <1>2, <2>1
      <4> HIDE DEF n, l
      <4>2. i \in 1..n
        BY SMT, <4>1
      <4> QED BY <1>1, <4>2 DEF n
    <3>2. CASE j \in DOMAIN queue
      BY <2>1, <3>1, <3>2 DEF BInv, InOrder
    <3>3. CASE j \notin DOMAIN queue
      BY <1>5, <2>1, <3>3
    <3> QED BY <3>2, <3>3
  <2> QED BY <1>5, <2>1 DEF InOrder
<1>8. RebootsReal'
  <2>1. \A h \in Host : \A k \in DOMAIN db[h].reboots :
            db[h].reboots[k][2] \in Nat /\ db[h].reboots[k][2] <= boot[h]
    BY RowType DEF BInv, Told
  <2>2. \A h \in Host : \A k \in DOMAIN db[h].reboots : db[h].reboots[k][2] <= boot'[h]
    BY SMT, <1>3, <2>1
  <2> QED BY <2>2 DEF BInv, RebootsReal
<1>9. ASSUME NEW h \in Host PROVE Told(h)'
  <2> SUFFICES ASSUME NEW k \in DOMAIN db[h].reboots
               PROVE  /\ db[h].reboots[k][2] <= boot'[h]
                      /\ db[h].boot # 0 => db[h].reboots[k][2] <= db[h].boot
                      /\ \A i \in DOMAIN queue' : queue'[i].agent = h /\ queue'[i].boot # 0 =>
                            db[h].reboots[k][2] <= queue'[i].boot
    BY DEF Told
  <2> DEFINE x == db[h].reboots[k][2]
  <2>1. /\ x \in Nat /\ x <= boot[h] /\ (db[h].boot # 0 => x <= db[h].boot)
        /\ \A i \in DOMAIN queue : queue[i].agent = h /\ queue[i].boot # 0 => x <= queue[i].boot
    BY RowType DEF BInv, Told
  <2> HIDE DEF x
  <2>2. x <= boot'[h]
    BY SMT, <1>3, <2>1
  <2>3. \A i \in DOMAIN queue' : queue'[i].agent = h /\ queue'[i].boot # 0 => x <= queue'[i].boot
    BY <1>5, <2>1
  <2> QED BY <2>1, <2>2, <2>3 DEF x
<1>10. ASSUME NEW m \in midway PROVE Between(m)'
  <2>1. Between(m) /\ 1 \in DOMAIN queue /\ queue # <<>>
    BY SMTT(30), <1>1 DEF BInv, Between
  <2>2. queue' # <<>>
    <3>1. 1 \in DOMAIN queue'
      BY <1>4, <2>1
    <3>2. DOMAIN <<>> = {}
      BY SMT
    <3> QED BY <3>1, <3>2
  <2> QED BY <2>1, <2>2 DEF Between
<1> QED BY <1>6, <1>7, <1>8, <1>9, <1>10 DEF BInv

\* The agents' steps, as the controller lock sees them.
LEMMA SameQueue == ASSUME BInv, UNCHANGED <<boot, queue, midway, db>> PROVE BInv'
  BY DEF BInv, Boots, InOrder, RebootsReal, Told, Between

\* A client that gives up leaves the boots in order.
LEMMA HangUp ==
    ASSUME BInv, NEW h \in Host, UNCHANGED <<db, midway>>, queue' = HungUp(h),
           boot' \in [Host -> Nat], \A g \in Host : boot[g] <= boot'[g]
    PROVE  BInv'
<1>1. queue \in Seq(Req) /\ Len(queue) \in Nat /\ DOMAIN queue = 1..Len(queue)
  BY QueueType DEF BInv, Boots
<1>2. \A r \in Req : LET q == [r EXCEPT !.live = FALSE]
                     IN  q \in Req /\ q.agent = r.agent /\ q.boot = r.boot /\ q.call = r.call
  BY DEF Req
<1>3. ASSUME NEW i \in DOMAIN queue
      PROVE  /\ HungUp(h)[i] \in Req /\ HungUp(h)[i].agent = queue[i].agent
             /\ HungUp(h)[i].boot = queue[i].boot /\ HungUp(h)[i].call = queue[i].call
  <2> DEFINE r == queue[i]
  <2>1. r \in Req
    BY SMT, <1>1
  <2>2. HungUp(h)[i] = r \/ HungUp(h)[i] = [r EXCEPT !.live = FALSE]
    BY DEF HungUp
  <2> HIDE DEF r
  <2>3. /\ HungUp(h)[i] \in Req /\ HungUp(h)[i].agent = r.agent
        /\ HungUp(h)[i].boot = r.boot /\ HungUp(h)[i].call = r.call
    BY <1>2, <2>1, <2>2
  <2> QED BY <2>3 DEF r
<1>4. queue' = [i \in 1..Len(queue) |-> HungUp(h)[i]]
  BY <1>1 DEF HungUp
<1>5. queue' \in Seq(Req) /\ Len(queue') = Len(queue)
  <2> DEFINE n == Len(queue)  f == [i \in 1..n |-> HungUp(h)[i]]
  <2>1. n \in Nat /\ f \in [1..n -> Req]
    BY <1>1, <1>3
  <2> HIDE DEF n, f
  <2>2. f \in Seq(Req) /\ Len(f) = n
    BY SMT, <2>1
  <2> QED BY <1>4, <2>2 DEF n, f
<1>6. \A i \in DOMAIN queue : /\ queue'[i].agent = queue[i].agent
                              /\ queue'[i].boot = queue[i].boot
                              /\ queue'[i].call = queue[i].call
  BY <1>3
<1>7. Len(queue') # Len(queue) + 1
  <2>1. \A n \in Nat : n # n + 1
    BY SMT
  <2> QED BY <1>1, <1>5, <2>1
<1> QED BY <1>5, <1>6, <1>7, Arrival

LEMMA SendBInv == \A h \in Host : BInv /\ Send(h) => BInv'
<1> SUFFICES ASSUME NEW h \in Host, BInv, Send(h) PROVE BInv'
  OBVIOUS
<1>1. UNCHANGED <<boot, midway, db>>
  BY DEF Send
<1>2. CASE queue' = queue
  BY <1>1, <1>2, SameQueue
<1>3. ASSUME NEW b \in {0, boot[h]}, NEW call \in {"register", "assignments"},
             queue' = Append(queue, Request(h, call, b))
      PROVE  BInv'
  <2> DEFINE r == Request(h, call, b)
  <2>1. boot \in [Host -> Nat] /\ b \in Nat /\ queue \in Seq(Req) /\ Len(queue) \in Nat
    BY SMT, <1>3 DEF BInv, Boots
  <2>2. r \in Req /\ r.boot = b /\ r.agent = h
    BY <2>1 DEF Request, Req
  <2> HIDE DEF r
  <2>3. /\ queue' \in Seq(Req) /\ Len(queue') = Len(queue) + 1 /\ queue'[Len(queue) + 1] = r
        /\ \A i \in DOMAIN queue : queue'[i] = queue[i]
    BY SMT, <1>3, <2>1, <2>2 DEF r
  <2>4. \A g \in Host : boot[g] <= boot'[g]
    BY SMT, <1>1, <2>1
  <2> QED BY <1>1, <2>1, <2>2, <2>3, <2>4, Arrival
<1>4. Wants(h) \in {"register", "assignments", "heartbeat"}
  BY DEF Wants
<1>5. \/ queue' = queue
      \/ /\ Wants(h) # "heartbeat"
         /\ \E b \in {0, boot[h]} : queue' = Append(queue, Request(h, Wants(h), b))
  BY DEF Send
<1> QED BY <1>2, <1>3, <1>4, <1>5

LEMMA TurnBInv == \A h \in Host : BInv /\ (Turn(h) \/ Garbled(h) \/ Expire(h) \/ Restart(h)) => BInv'
<1> SUFFICES ASSUME NEW h \in Host, BInv, Turn(h) \/ Garbled(h) \/ Expire(h) \/ Restart(h) PROVE BInv'
  OBVIOUS
<1>1. CASE Unreachable(h) \/ Receive(h) \/ Garbled(h) \/ Expire(h)
  BY <1>1, SameQueue DEF Unreachable, Receive, Garbled, Expire, ctl
<1>2. CASE GiveUp(h) \/ Restart(h)
  <2>1. boot \in [Host -> Nat]
    BY DEF BInv, Boots
  <2>2. boot' \in [Host -> Nat] /\ \A g \in Host : boot[g] <= boot'[g]
    <3>1. boot' = boot \/ boot' = [boot EXCEPT ![h] = @ + 1]
      BY <1>2 DEF GiveUp, Restart
    <3> QED BY SMT, <2>1, <3>1
  <2>3. UNCHANGED <<db, midway>> /\ queue' = HungUp(h)
    BY <1>2 DEF GiveUp, Restart
  <2> QED BY <2>2, <2>3, HangUp
<1> QED BY <1>1, <1>2, SendBInv DEF Turn

\* The request at the head of the queue has been served.
LEMMA TailType ==
    ASSUME NEW q, q \in Seq(Req), q # <<>>
    PROVE  /\ Tail(q) \in Seq(Req) /\ 1 \in DOMAIN q /\ Head(q) = q[1] /\ q[1] \in Req
           /\ \A i \in DOMAIN Tail(q) : i + 1 \in DOMAIN q /\ Tail(q)[i] = q[i + 1] /\ i \in Nat
  BY SMT

\* Serving the oldest request leaves the boots of the others in order.
LEMMA Dequeue ==
    ASSUME BInv, queue # <<>>, queue' = Tail(queue), midway' = {}, UNCHANGED <<boot, db>>
    PROVE  BInv'
<1>1. /\ queue' \in Seq(Req)
      /\ \A i \in DOMAIN queue' : i + 1 \in DOMAIN queue /\ queue'[i] = queue[i + 1] /\ i \in Nat
  BY TailType DEF BInv, Boots
<1>2. Boots'
  BY <1>1 DEF BInv, Boots
<1>3. InOrder'
  BY SMT, <1>1 DEF BInv, InOrder
<1>4. \A h \in Host : Told(h)'
  BY SMT, <1>1 DEF BInv, Told
<1> QED BY <1>2, <1>3, <1>4 DEF BInv, RebootsReal

LEMMA CrashBInv == BInv /\ Crash => BInv'
<1> SUFFICES ASSUME BInv, Crash PROVE BInv'
  OBVIOUS
<1>1. UNCHANGED <<boot, db>> /\ queue' = <<>> /\ midway' = {}
  BY DEF Crash
<1>2. <<>> \in Seq(Req) /\ DOMAIN <<>> = {}
  BY SMT
<1> QED BY <1>1, <1>2 DEF BInv, Boots, InOrder, RebootsReal, Told

\* The first commit: the store knows the boot of the request at the head.
LEMMA StartBInv == BInv /\ StartRegistration => BInv'
<1> SUFFICES ASSUME BInv, StartRegistration PROVE BInv'
  OBVIOUS
<1> DEFINE r == Head(queue)
           g == r.agent
           b == r.boot
           row == [[db[g] EXCEPT !.known = TRUE] EXCEPT !.boot = b]
<1>1. /\ queue # <<>> /\ queue[1].call = "register" /\ r = queue[1] /\ 1 \in DOMAIN queue
      /\ queue' = queue /\ boot' = boot
      /\ g \in Host /\ b \in Nat /\ g = queue[1].agent /\ b = queue[1].boot
  <2>1. queue # <<>> /\ r.call = "register" /\ UNCHANGED <<queue, boot>>
    BY DEF StartRegistration
  <2>2. 1 \in DOMAIN queue /\ r = queue[1]
    BY <2>1, TailType DEF BInv, Boots
  <2> QED BY <2>1, <2>2, QueueType DEF BInv, Boots
<1>2. midway' = {[before |-> db[g].boot, after |-> b]}
  BY DEF StartRegistration, CommitInventory
<1>3. db[g] \in Row /\ db \in [Host -> Row]
  BY <1>1 DEF BInv, Boots
<1>4. db' = [db EXCEPT ![g] = row]
  BY <1>1, <1>3 DEF StartRegistration, CommitInventory
<1>5. row \in Row /\ row.boot = b /\ row.reboots = db[g].reboots
  BY <1>1, <1>3 DEF Row
<1> HIDE DEF r, g, b, row
<1>6. /\ db' \in [Host -> Row] /\ db'[g] = row
      /\ \A h \in Host : db'[h].reboots = db[h].reboots /\ (h # g => db'[h] = db[h])
  BY <1>1, <1>3, <1>4, <1>5
<1>7. Boots'
  BY <1>1, <1>5, <1>6 DEF BInv, Boots
<1>8. InOrder'
  <2>1. ASSUME NEW i \in DOMAIN queue, queue[i].boot # 0
        PROVE  db'[queue[i].agent].boot <= queue[i].boot
    <3>0. i \in Nat /\ i >= 1 /\ queue[i].agent \in Host /\ queue[i].boot \in Nat
      BY SMT, QueueType DEF BInv, Boots
    <3>1. CASE queue[i].agent # g
      BY <1>6, <2>1, <3>0, <3>1 DEF BInv, InOrder
    <3>2. CASE queue[i].agent = g /\ i = 1
      BY SMT, <1>1, <1>5, <1>6, <3>0, <3>2
    <3>3. CASE queue[i].agent = g /\ i # 1
      <4>1. 1 < i
        BY SMT, <3>0, <3>3
      <4> QED BY <1>1, <1>5, <1>6, <2>1, <3>3, <4>1 DEF BInv, InOrder
    <3> QED BY <3>1, <3>2, <3>3
  <2> QED BY <1>1, <2>1 DEF BInv, InOrder
<1>9. RebootsReal'
  BY <1>1, <1>6 DEF BInv, RebootsReal
<1>10. ASSUME NEW h \in Host PROVE Told(h)'
  BY <1>1, <1>5, <1>6 DEF BInv, Told
<1>11. ASSUME NEW m \in midway' PROVE Between(m)'
  <2>1. m = [before |-> db[g].boot, after |-> b]
    BY <1>2, <1>11
  <2>2. m.before = db[g].boot /\ m.after = b
    BY <2>1
  <2>3. db[g].boot \in Nat /\ (b # 0 => db[g].boot <= b)
    BY <1>1, RowType DEF BInv, InOrder
  <2>4. db[g].boot # 0 => \A k \in DOMAIN db[g].reboots : db[g].reboots[k][2] <= db[g].boot
    BY <1>1 DEF BInv, Told
  <2> HIDE DEF BInv
  <2> QED BY <1>1, <1>5, <1>6, <2>2, <2>3, <2>4 DEF Between
<1> QED BY <1>7, <1>8, <1>9, <1>10, <1>11 DEF BInv

\* The second commit: the reboot that is reported leads from what the store knew
\* before to what it knows now.
LEMMA FinishBInv == BInv /\ FinishRegistration => BInv'
<1> SUFFICES ASSUME BInv, FinishRegistration PROVE BInv'
  OBVIOUS
<1> DEFINE g == Head(queue).agent
<1>1. PICK m \in midway :
         /\ db' = IF Rebooted(m.before, m.after)
                    THEN [db EXCEPT ![g].reboots = Append(@, <<m.before, m.after>>)] ELSE db
         /\ queue' = Tail(queue) /\ midway' = {} /\ boot' = boot
  BY DEF FinishRegistration
<1>2. Between(m) /\ queue # <<>>
  BY DEF BInv, Between
<1>3. CASE db' = db
  BY <1>1, <1>2, <1>3, Dequeue
<1>4. CASE Rebooted(m.before, m.after) /\ db' = [db EXCEPT ![g].reboots = Append(@, <<m.before, m.after>>)]
  <2>1. /\ queue' \in Seq(Req) /\ 1 \in DOMAIN queue /\ g = queue[1].agent
        /\ \A i \in DOMAIN queue' : i + 1 \in DOMAIN queue /\ queue'[i] = queue[i + 1] /\ i \in Nat /\ 1 < i + 1
    <3>1. /\ queue' \in Seq(Req) /\ 1 \in DOMAIN queue /\ Head(queue) = queue[1]
          /\ \A i \in DOMAIN queue' : i + 1 \in DOMAIN queue /\ queue'[i] = queue[i + 1] /\ i \in Nat
      BY <1>1, <1>2, TailType DEF BInv, Boots
    <3>2. \A i \in DOMAIN queue' : 1 < i + 1
      BY SMT, <3>1, QueueType
    <3> QED BY <3>1, <3>2
  <2>2. /\ g \in Host /\ m.after = queue[1].boot /\ m.after \in Nat /\ m.before \in Nat
        /\ 0 < m.before /\ m.before < m.after /\ db[g].boot = m.after /\ m.after <= boot[g] /\ boot[g] \in Nat
    <3>1. g \in Host /\ queue[1].boot \in Nat
      BY <2>1, QueueType DEF BInv, Boots
    <3>2. m.after = queue[1].boot /\ db[g].boot = m.after /\ m.before \in Nat
          /\ (m.after # 0 => m.before <= m.after)
      BY <1>2, <2>1 DEF Between
    <3>3. db[g].boot <= boot[g] /\ boot[g] \in Nat
      BY <3>1 DEF BInv, Boots
    <3> QED BY SMT, <1>4, <3>1, <3>2, <3>3 DEF Rebooted
  <2> DEFINE old == db[g].reboots
             last == <<m.before, m.after>>
             new == Append(old, last)
             row == [db[g] EXCEPT !.reboots = new]
  <2>3. /\ db \in [Host -> Row] /\ db[g] \in Row /\ old \in Seq(Nat \X Nat)
        /\ Len(old) \in Nat /\ DOMAIN old = 1..Len(old)
    BY <2>2, RowType DEF BInv, Boots
  <2>4. last \in Nat \X Nat /\ last[1] = m.before /\ last[2] = m.after
    BY <2>2
  <2> HIDE DEF last, old
  <2>a. Len(old) \in Nat /\ DOMAIN old = 1..Len(old)
    BY <2>3
  <2>5. /\ new \in Seq(Nat \X Nat) /\ DOMAIN new = 1..Len(old) + 1 /\ new[Len(old) + 1] = last
        /\ \A k \in DOMAIN old : new[k] = old[k]
    <3>1. old \in Seq(Nat \X Nat)
      BY <2>3
    <3> QED BY SMTT(60), <2>a, <2>4, <3>1
  <2>6. db' = [db EXCEPT ![g] = row]
    BY <1>4, <2>2, <2>3 DEF last, old
  <2> HIDE DEF new
  <2>7. row \in Row /\ row.boot = db[g].boot /\ row.reboots = new
    BY <2>3, <2>5 DEF Row
  <2> HIDE DEF row, g
  <2>8. /\ db' \in [Host -> Row] /\ db'[g] = row
        /\ \A h \in Host : db'[h].boot = db[h].boot /\ (h # g => db'[h] = db[h])
    BY <2>2, <2>3, <2>6, <2>7
  <2>9. Boots'
    BY <1>1, <2>1, <2>8 DEF BInv, Boots
  <2>10. InOrder'
    <3>1. \A i \in DOMAIN queue' : queue'[i].agent \in Host
      BY <2>1, QueueType
    <3>2. ASSUME NEW i \in DOMAIN queue', NEW j \in DOMAIN queue', i < j,
                 queue'[i].agent = queue'[j].agent, queue'[j].boot # 0
          PROVE  queue'[i].boot <= queue'[j].boot
      <4>1. i + 1 < j + 1
        BY SMT, <2>1, <3>2
      <4> QED BY <2>1, <3>2, <4>1 DEF BInv, InOrder
    <3>3. ASSUME NEW i \in DOMAIN queue', queue'[i].boot # 0
          PROVE  db'[queue'[i].agent].boot <= queue'[i].boot
      BY <2>1, <2>8, <3>1, <3>3 DEF BInv, InOrder
    <3> QED BY <3>2, <3>3 DEF InOrder
  <2>11. \A k \in DOMAIN new : k \in DOMAIN old \/ k = Len(old) + 1
    BY SMT, <2>3, <2>5
  <2>12. \A k \in DOMAIN old : old[k][2] <= m.before
    BY SMT, <1>2, <2>1, <2>2 DEF Between, old
  <2>13. RebootsReal'
    <3> SUFFICES ASSUME NEW h \in Host, NEW k \in DOMAIN db'[h].reboots
                 PROVE  LET r == db'[h].reboots[k] IN
                        /\ 0 < r[1] /\ r[1] < r[2] /\ r[2] <= boot[h]
                        /\ k > 1 => db'[h].reboots[k - 1][2] <= r[1]
      BY <1>1 DEF RebootsReal
    <3>1. CASE h # g
      BY <2>8, <3>1 DEF BInv, RebootsReal
    <3>2. CASE h = g /\ k \in DOMAIN old
      <4>1. k > 1 => k - 1 \in DOMAIN old
        BY SMTT(60), <2>a, <3>2
      <4>2. db'[h].reboots[k] = old[k] /\ (k > 1 => db'[h].reboots[k - 1] = old[k - 1])
        BY <2>5, <2>7, <2>8, <3>2, <4>1
      <4> QED BY <2>2, <3>2, <4>2 DEF BInv, RebootsReal, old
    <3>3. CASE h = g /\ k = Len(old) + 1
      <4>1. k > 1 => k - 1 \in DOMAIN old
        BY SMT, <2>3, <3>3
      <4>2. db'[h].reboots[k] = last /\ (k > 1 => db'[h].reboots[k - 1] = old[k - 1])
        BY <2>5, <2>7, <2>8, <3>3, <4>1
      <4> QED BY <2>2, <2>4, <2>12, <3>3, <4>1, <4>2
    <3> QED BY <2>7, <2>8, <2>11, <3>1, <3>2, <3>3
  <2>14. ASSUME NEW h \in Host PROVE Told(h)'
    <3>1. CASE h # g
      BY SMTT(60), <1>1, <2>1, <2>8, <3>1 DEF BInv, Told
    <3>2. CASE h = g
      <4>1. ASSUME NEW k \in DOMAIN new PROVE new[k][2] \in Nat /\ new[k][2] <= m.after
        <5>1. CASE k \in DOMAIN old
          <6>1. old[k][2] \in Nat
            BY <2>2, <5>1, RowType DEF BInv, old
          <6> QED BY SMT, <2>2, <2>5, <2>12, <5>1, <6>1
        <5>2. CASE k = Len(old) + 1
          BY SMT, <2>2, <2>4, <2>5, <5>2
        <5> QED BY <2>11, <5>1, <5>2
      <4>2. ASSUME NEW i \in DOMAIN queue', queue'[i].agent = g, queue'[i].boot # 0
            PROVE  m.after <= queue'[i].boot /\ queue'[i].boot \in Nat
        <5>1. queue'[i].boot \in Nat
          BY <2>1, QueueType
        <5>2. queue[1].boot <= queue[i + 1].boot
          BY <2>1, <4>2 DEF BInv, InOrder
        <5> QED BY <2>1, <2>2, <5>1, <5>2
      <4>3. ASSUME NEW k \in DOMAIN new
            PROVE  /\ new[k][2] <= boot[g]
                   /\ new[k][2] <= db[g].boot
                   /\ \A i \in DOMAIN queue' : queue'[i].agent = g /\ queue'[i].boot # 0 =>
                          new[k][2] <= queue'[i].boot
        BY SMT, <2>2, <4>1, <4>2
      <4> QED BY ZenonT(60), <1>1, <2>7, <2>8, <3>2, <4>3 DEF Told
    <3> QED BY <3>1, <3>2
  <2> QED BY <1>1, <2>9, <2>10, <2>13, <2>14 DEF BInv
<1> QED BY <1>1, <1>3, <1>4

LEMMA StepBInv == BInv /\ [Next]_vars => BInv'
<1> SUFFICES ASSUME BInv, [Next]_vars PROVE BInv'
  OBVIOUS
<1>1. CASE StartController \/ UNCHANGED vars
  BY <1>1, SameQueue DEF StartController, vars
<1>2. CASE Refuse
  BY <1>2, Dequeue DEF Refuse
<1>3. CASE ServeAssignments
  <2>1. queue # <<>> /\ Head(queue).call = "assignments" /\ Head(queue) = queue[1]
    BY <1>3, TailType DEF ServeAssignments, BInv, Boots
  <2>2. midway = {}
    BY <2>1 DEF BInv, Between
  <2> QED BY <1>3, <2>1, <2>2, Dequeue DEF ServeAssignments
<1> QED BY <1>1, <1>2, <1>3, TurnBInv, StartBInv, FinishBInv, CrashBInv DEF Next, Serve

\* Every reboot that is reported happened, once for each time and in order, for
\* any number of hosts and boots, however late an abandoned registration is
\* served (register_agent).
THEOREM ReportedRebootsAreReal == Spec => []RebootsReal
<1>1. BInv => RebootsReal
  BY DEF BInv
<1> QED BY <1>1, InitBInv, StepBInv, PTL DEF Spec

-----------------------------------------------------------------------------
(* Reboots are not missed.                                                 *)

Link == [first : Nat, cut : BOOLEAN]

\* Each reported reboot starts where the one before it led, the first at the
\* first boot id stored.
Traced(h) ==
    /\ \A k \in 2..Len(db[h].reboots) : db[h].reboots[k][1] = db[h].reboots[k - 1][2]
    /\ Len(db[h].reboots) > 0 => db[h].reboots[1][1] = ghost[h].first

\* Where the reported reboots lead.
Latest(h) ==
    IF Len(db[h].reboots) = 0 THEN ghost[h].first ELSE db[h].reboots[Len(db[h].reboots)][2]

\* A registration of h between its commits has a reboot to report.
Owed(h, m) == queue[1].agent = h /\ Rebooted(m.before, m.after)

\* While no link is lost, they lead to the boot id stored now, or to the one
\* before it if the registration under way is about to report the difference.
Linked(h) ==
    ~ghost[h].cut =>
        /\ Traced(h)
        /\ db[h].boot = 0 => ghost[h].first = 0 /\ Len(db[h].reboots) = 0
        /\ db[h].boot # 0 => ghost[h].first # 0
        /\ db[h].boot # 0 /\ (\A m \in midway : ~Owed(h, m)) => Latest(h) = db[h].boot
        /\ \A m \in midway : Owed(h, m) => Latest(h) = m.before

CInv ==
    /\ ghost \in [Host -> Link]
    /\ \A m, n \in midway : m = n
    /\ \A h \in Host : Linked(h)

LEMMA InitCInv == Init => CInv
<1> SUFFICES ASSUME Init PROVE CInv
  OBVIOUS
<1> DEFINE row == [known |-> FALSE, boot |-> 0, reboots |-> <<>>]
           link == [first |-> 0, cut |-> FALSE]
<1>1. row.boot = 0 /\ Len(row.reboots) = 0 /\ link \in Link /\ link.first = 0
  BY DEF Link
<1>2. \A h \in Host : db[h] = row /\ ghost[h] = link
  BY DEF Init
<1>3. midway = {} /\ ghost \in [Host -> Link]
  BY <1>1 DEF Init
<1> HIDE DEF row, link
<1> QED BY SMTT(60), <1>1, <1>2, <1>3 DEF CInv, Linked, Traced, Latest

\* A step that commits nothing and keeps the request under way at the head.
LEMMA Steady ==
    ASSUME CInv, UNCHANGED <<db, midway, ghost>>,
           midway # {} => queue'[1].agent = queue[1].agent
    PROVE  CInv'
<1>1. \A h : \A m \in midway : Owed(h, m)' <=> Owed(h, m)
  BY DEF Owed, Rebooted
<1>2. \A h \in Host : Traced(h)' <=> Traced(h)
  BY DEF Traced
<1>3. \A h \in Host : Latest(h)' = Latest(h)
  BY DEF Latest
<1> QED BY <1>1, <1>2, <1>3 DEF CInv, Linked

LEMMA TurnCInv ==
    \A h \in Host : BInv /\ CInv /\ (Turn(h) \/ Garbled(h) \/ Expire(h) \/ Restart(h)) => CInv'
<1> SUFFICES ASSUME NEW h \in Host, BInv, CInv, Turn(h) \/ Garbled(h) \/ Expire(h) \/ Restart(h) PROVE CInv'
  OBVIOUS
<1>1. UNCHANGED <<db, midway, ghost>>
  BY DEF Turn, Send, Unreachable, Receive, GiveUp, Garbled, Expire, Restart, ctl
<1>2. \/ queue' = queue \/ queue' = HungUp(h)
      \/ \E b \in {0, boot[h]} : queue' = Append(queue, Request(h, Wants(h), b))
  BY DEF Turn, Send, Unreachable, Receive, GiveUp, Garbled, Expire, Restart, ctl
<1>3. ASSUME midway # {} PROVE queue'[1].agent = queue[1].agent
  <2>1. queue # <<>> /\ queue \in Seq(Req) /\ 1 \in DOMAIN queue
    BY <1>3, TailType DEF BInv, Between, Boots
  <2>2. CASE queue' = HungUp(h)
    <3> DEFINE r == queue[1]
    <3>1. r \in Req
      BY <2>1, TailType
    <3>2. queue'[1] = r \/ queue'[1] = [r EXCEPT !.live = FALSE]
      BY <2>1, <2>2 DEF HungUp
    <3> HIDE DEF r
    <3>3. queue'[1].agent = r.agent
      BY <3>1, <3>2 DEF Req
    <3> QED BY <3>3 DEF r
  <2>3. ASSUME NEW r, queue' = Append(queue, r) PROVE queue'[1] = queue[1]
    BY SMT, <2>1, <2>3
  <2> QED BY <1>2, <2>2, <2>3
<1> QED BY <1>1, <1>3, Steady

\* The first commit.
LEMMA StartCInv == BInv /\ CInv /\ StartRegistration => CInv'
<1> SUFFICES ASSUME BInv, CInv, StartRegistration PROVE CInv'
  OBVIOUS
<1> DEFINE r == Head(queue)
           g == r.agent
           b == r.boot
           row == [[db[g] EXCEPT !.known = TRUE] EXCEPT !.boot = b]
           old == db[g].boot
           first == IF ghost[g].first = 0 THEN b ELSE ghost[g].first
           cut == ghost[g].cut \/ (b = 0 /\ old # 0)
           link == [[ghost[g] EXCEPT !.first = first] EXCEPT !.cut = cut]
           mid == [before |-> old, after |-> b]
<1>1. queue # <<>> /\ queue' = queue /\ midway = {} /\ midway' = {mid}
  BY DEF StartRegistration, CommitInventory
<1>2. g \in Host /\ b \in Nat /\ g = queue[1].agent /\ old \in Nat
  <2>1. 1 \in DOMAIN queue /\ r = queue[1]
    BY <1>1, TailType DEF BInv, Boots
  <2> QED BY <2>1, QueueType, RowType DEF BInv, Boots
<1>3. db[g] \in Row /\ db \in [Host -> Row] /\ ghost[g] \in Link /\ ghost \in [Host -> Link]
  BY <1>2 DEF BInv, Boots, CInv
<1>4. db' = [db EXCEPT ![g] = row]
  BY <1>2, <1>3 DEF StartRegistration, CommitInventory
<1>5. row.boot = b /\ row.reboots = db[g].reboots
  BY <1>2, <1>3 DEF Row
<1>6. ghost' = [ghost EXCEPT ![g] = link]
  BY <1>2, <1>3 DEF StartRegistration
<1>7. first \in Nat /\ cut \in BOOLEAN
  BY <1>2, <1>3 DEF Link
<1>8. mid.before = old /\ mid.after = b
  OBVIOUS
<1>9. first = IF ghost[g].first = 0 THEN b ELSE ghost[g].first
  OBVIOUS
<1>10. ~cut => ~ghost[g].cut /\ (b # 0 \/ old = 0)
  OBVIOUS
<1> HIDE DEF first, cut, mid
<1>11. link \in Link /\ link.first = first /\ link.cut = cut
  BY <1>3, <1>7 DEF Link
<1> HIDE DEF r, g, b, row, link
<1>12. /\ ghost' \in [Host -> Link] /\ ghost'[g] = link /\ db'[g] = row
       /\ \A h \in Host : h # g => db'[h] = db[h] /\ ghost'[h] = ghost[h]
  BY <1>2, <1>3, <1>4, <1>6, <1>11
<1>13. ASSUME NEW h \in Host, h # g PROVE Linked(h)'
  <2>1. Linked(h)
    BY DEF CInv
  <2>2. \A m : ~Owed(h, m)'
    BY <1>1, <1>2, <1>13 DEF Owed
  <2> QED BY <1>1, <1>12, <1>13, <2>1, <2>2 DEF Linked, Traced, Latest
<1>14. ASSUME NEW h \in Host, h = g, ~cut PROVE Linked(h)'
  <2>1. Linked(h) /\ ~ghost[h].cut /\ (b # 0 \/ old = 0)
    BY <1>10, <1>14 DEF CInv
  <2>2. \A m \in midway' : m.before = old /\ (Owed(h, m)' <=> old # 0 /\ b # 0 /\ old # b)
    BY <1>1, <1>2, <1>8, <1>14 DEF Owed, Rebooted
  <2>3. /\ Traced(h) /\ (old = 0 => ghost[h].first = 0 /\ Len(db[h].reboots) = 0)
        /\ old # 0 => ghost[h].first # 0 /\ Latest(h) = old
    BY <1>1, <1>14, <2>1 DEF Linked
  <2>4. /\ db'[h].reboots = db[h].reboots /\ db'[h].boot = b /\ ghost'[h].first = first
        /\ old # 0 => first = ghost[h].first
    BY <1>5, <1>9, <1>11, <1>12, <1>14, <2>3
  <2> HIDE DEF old
  <2>5. CASE old = 0
    <3>1. Len(db'[h].reboots) = 0 /\ first = b
      BY <1>9, <1>14, <2>3, <2>4, <2>5
    <3>2. Traced(h)' /\ Latest(h)' = b
      BY SMT, <2>4, <3>1 DEF Traced, Latest
    <3> QED BY <2>2, <2>4, <2>5, <3>1, <3>2 DEF Linked
  <2>6. CASE old # 0
    <3>1. Traced(h)' /\ Latest(h)' = old
      BY <2>3, <2>4, <2>6 DEF Traced, Latest
    <3>2. midway' # {}
      BY <1>1
    <3> QED BY <2>1, <2>2, <2>3, <2>4, <2>6, <3>1, <3>2 DEF Linked
  <2> QED BY <2>5, <2>6
<1>15. ASSUME NEW h \in Host, h = g, cut PROVE Linked(h)'
  BY <1>11, <1>12, <1>15 DEF Linked
<1> QED BY <1>1, <1>12, <1>13, <1>14, <1>15 DEF CInv

\* A step that drops the registration under way: the link is lost if it had a
\* reboot to report.
LEMMA DroppedCInv ==
    ASSUME CInv, midway' = {}, db' = db, ghost' \in [Host -> Link],
           \A h \in Host : /\ ghost'[h].first = ghost[h].first
                           /\ ~ghost'[h].cut => ~ghost[h].cut /\ \A m \in midway : ~Owed(h, m)
    PROVE  CInv'
<1> SUFFICES ASSUME NEW h \in Host, ~ghost'[h].cut PROVE Linked(h)'
  BY DEF CInv, Linked
<1>1. Linked(h) /\ ~ghost[h].cut /\ \A m \in midway : ~Owed(h, m)
  BY DEF CInv
<1>2. Traced(h) /\ Traced(h)' /\ Latest(h)' = Latest(h)
  BY <1>1 DEF Linked, Traced, Latest
<1> QED BY <1>1, <1>2 DEF Linked

LEMMA RefuseCInv == BInv /\ CInv /\ Refuse => CInv'
<1> SUFFICES ASSUME BInv, CInv, Refuse PROVE CInv'
  OBVIOUS
<1> DEFINE g == Head(queue).agent
           cut == ghost[g].cut \/ \E m \in midway : Rebooted(m.before, m.after)
           link == [ghost[g] EXCEPT !.cut = cut]
<1>1. midway' = {} /\ db' = db /\ queue # <<>>
  BY DEF Refuse
<1>2. g \in Host /\ g = queue[1].agent
  <2>1. 1 \in DOMAIN queue /\ Head(queue) = queue[1]
    BY <1>1, TailType DEF BInv, Boots
  <2> QED BY <2>1, QueueType DEF BInv, Boots
<1>3. ghost \in [Host -> Link] /\ ghost[g] \in Link
  BY <1>2 DEF CInv
<1>4. ghost' = [ghost EXCEPT ![g] = link]
  BY <1>2, <1>3 DEF Refuse
<1>5. cut \in BOOLEAN /\ (~cut => ~ghost[g].cut /\ \A m \in midway : ~Rebooted(m.before, m.after))
  BY <1>3 DEF Link
<1> HIDE DEF cut
<1>6. link \in Link /\ link.first = ghost[g].first /\ link.cut = cut
  BY <1>3, <1>5 DEF Link
<1> HIDE DEF g, link
<1>7. /\ ghost' \in [Host -> Link] /\ ghost'[g] = link
      /\ \A h \in Host : h # g => ghost'[h] = ghost[h]
  BY <1>2, <1>3, <1>4, <1>6
<1>8. ASSUME NEW h \in Host
      PROVE  /\ ghost'[h].first = ghost[h].first
             /\ ~ghost'[h].cut => ~ghost[h].cut /\ \A m \in midway : ~Owed(h, m)
  BY <1>2, <1>5, <1>6, <1>7 DEF Owed
<1> QED BY <1>1, <1>7, <1>8, DroppedCInv

LEMMA CrashCInv == BInv /\ CInv /\ Crash => CInv'
<1> SUFFICES ASSUME BInv, CInv, Crash PROVE CInv'
  OBVIOUS
<1> DEFINE cut(h) == ghost[h].cut \/ \E m \in midway : h = Head(queue).agent /\ Rebooted(m.before, m.after)
           link(h) == [ghost[h] EXCEPT !.cut = cut(h)]
<1>1. midway' = {} /\ db' = db /\ ghost' = [h \in Host |-> link(h)]
  BY DEF Crash
<1>2. midway # {} => Head(queue) = queue[1]
  BY TailType DEF BInv, Between, Boots
<1>3. ASSUME NEW h \in Host
      PROVE  /\ link(h) \in Link /\ link(h).first = ghost[h].first
             /\ ~link(h).cut => ~ghost[h].cut /\ \A m \in midway : ~Owed(h, m)
  <2>1. ghost[h] \in Link
    BY DEF CInv
  <2> DEFINE c == cut(h)
  <2>2. c \in BOOLEAN /\ (~c => ~ghost[h].cut /\ \A m \in midway : ~Owed(h, m))
    BY <1>2, <2>1 DEF Link, Owed
  <2>3. link(h) = [ghost[h] EXCEPT !.cut = c]
    OBVIOUS
  <2> HIDE DEF c, link
  <2>4. link(h) \in Link /\ link(h).first = ghost[h].first /\ link(h).cut = c
    BY <2>1, <2>2, <2>3 DEF Link
  <2> QED BY <2>2, <2>4
<1> HIDE DEF link
<1>4. ghost' \in [Host -> Link] /\ \A h \in Host : ghost'[h] = link(h)
  BY <1>1, <1>3
<1> QED BY <1>1, <1>3, <1>4, DroppedCInv

\* The second commit: the reboot owed is reported.
LEMMA FinishCInv == BInv /\ CInv /\ FinishRegistration => CInv'
<1> SUFFICES ASSUME BInv, CInv, FinishRegistration PROVE CInv'
  OBVIOUS
<1> DEFINE g == Head(queue).agent
<1>1. PICK m \in midway :
         /\ db' = IF Rebooted(m.before, m.after)
                    THEN [db EXCEPT ![g].reboots = Append(@, <<m.before, m.after>>)] ELSE db
         /\ midway' = {} /\ ghost' = ghost
  BY DEF FinishRegistration
<1>2. Between(m) /\ queue # <<>> /\ midway = {m}
  BY DEF BInv, CInv, Between
<1>3. g \in Host /\ g = queue[1].agent
  <2>1. 1 \in DOMAIN queue /\ Head(queue) = queue[1]
    BY <1>2, TailType DEF BInv, Boots
  <2> QED BY <2>1, QueueType DEF BInv, Boots
<1>4. CASE ~Rebooted(m.before, m.after)
  <2>1. db' = db /\ \A h \in Host : \A n \in midway : ~Owed(h, n)
    BY <1>1, <1>2, <1>4 DEF Owed
  <2> QED BY <1>1, <2>1, DroppedCInv DEF CInv
<1>5. CASE Rebooted(m.before, m.after)
  <2> DEFINE old == db[g].reboots
             last == <<m.before, m.after>>
             new == Append(old, last)
             row == [db[g] EXCEPT !.reboots = new]
  <2>1. /\ db \in [Host -> Row] /\ db[g] \in Row /\ old \in Seq(Nat \X Nat)
        /\ Len(old) \in Nat /\ DOMAIN old = 1..Len(old)
    BY <1>3, RowType DEF BInv, Boots
  <2>2. last[1] = m.before /\ last[2] = m.after /\ db[g].boot = m.after
    BY <1>2, <1>3 DEF Between
  <2> HIDE DEF last, old
  <2>3. /\ Len(new) = Len(old) + 1 /\ new[Len(old) + 1] = last
        /\ \A k \in 1..Len(old) : new[k] = old[k]
    <3>1. old \in Seq(Nat \X Nat) /\ Len(old) \in Nat
      BY <2>1
    <3> QED BY SMTT(60), <3>1
  <2>4. db' = [db EXCEPT ![g] = row]
    BY <1>1, <1>3, <1>5, <2>1 DEF last, old
  <2> HIDE DEF new
  <2>5. row.boot = db[g].boot /\ row.reboots = new
    BY <2>1 DEF Row
  <2> HIDE DEF row, g
  <2>6. db'[g] = row /\ \A h \in Host : h # g => db'[h] = db[h]
    BY <1>3, <2>1, <2>4
  <2>7. ASSUME NEW h \in Host, h # g PROVE Linked(h)'
    <3>1. Linked(h) /\ \A n \in midway : ~Owed(h, n)
      BY <1>3, <2>7 DEF CInv, Owed
    <3> QED BY <1>1, <2>6, <2>7, <3>1 DEF Linked, Traced, Latest
  <2>8. ASSUME NEW h \in Host, h = g, ~ghost[h].cut PROVE Linked(h)'
    <3>1. Linked(h) /\ Owed(h, m)
      BY <1>3, <1>5, <2>8 DEF CInv, Owed
    <3>2. Traced(h) /\ Latest(h) = m.before /\ ghost[h].first # 0
      BY <1>2, <1>5, <2>2, <2>8, <3>1 DEF Linked, Rebooted
    <3>3. /\ \A k \in 2..Len(old) : old[k][1] = old[k - 1][2]
          /\ Len(old) > 0 => old[1][1] = ghost[h].first
          /\ m.before = IF Len(old) = 0 THEN ghost[h].first ELSE old[Len(old)][2]
      BY <2>8, <3>2 DEF Traced, Latest, old
    <3>4. ASSUME NEW k \in 2..Len(new) PROVE new[k][1] = new[k - 1][2]
      <4>1. CASE k \in 2..Len(old)
        <5>1. k \in 1..Len(old) /\ k - 1 \in 1..Len(old)
          BY SMT, <2>1, <4>1
        <5> QED BY <2>3, <3>3, <4>1, <5>1
      <4>2. CASE k = Len(old) + 1
        <5>1. k - 1 = Len(old) /\ Len(old) \in 1..Len(old) /\ Len(old) # 0
          BY SMT, <2>1, <4>2
        <5> QED BY <2>2, <2>3, <3>3, <4>2, <5>1
      <4> QED BY SMT, <2>1, <2>3, <4>1, <4>2
    <3>5. new[1][1] = ghost[h].first
      <4>1. CASE Len(old) = 0
        BY SMT, <2>2, <2>3, <3>3, <4>1
      <4>2. CASE Len(old) # 0
        <5>1. 1 \in 1..Len(old) /\ Len(old) > 0
          BY SMT, <2>1, <4>2
        <5> QED BY <2>3, <3>3, <5>1
      <4> QED BY <4>1, <4>2
    <3>6. Len(new) # 0 /\ new[Len(new)][2] = m.after /\ m.after # 0
      BY SMT, <1>5, <2>1, <2>2, <2>3 DEF Rebooted
    <3>7. db'[h].reboots = new /\ db'[h].boot = m.after /\ ghost'[h] = ghost[h]
      BY <1>1, <2>2, <2>5, <2>6, <2>8
    <3>8. Traced(h)' /\ Latest(h)' = m.after
      BY <3>4, <3>5, <3>6, <3>7 DEF Traced, Latest
    <3> QED BY <1>1, <3>2, <3>6, <3>7, <3>8 DEF Linked
  <2> QED BY <1>1, <2>7, <2>8 DEF CInv, Linked
<1> QED BY <1>4, <1>5

LEMMA StepCInv == BInv /\ CInv /\ [Next]_vars => CInv'
<1> SUFFICES ASSUME BInv, CInv, [Next]_vars PROVE CInv'
  OBVIOUS
<1>1. CASE StartController \/ UNCHANGED vars
  BY <1>1, Steady DEF StartController, vars
<1>2. CASE ServeAssignments
  <2>1. queue # <<>> /\ Head(queue).call = "assignments" /\ Head(queue) = queue[1]
    BY <1>2, TailType DEF ServeAssignments, BInv, Boots
  <2>2. midway = {}
    BY <2>1 DEF BInv, Between
  <2> QED BY <1>2, <2>2, Steady DEF ServeAssignments
<1> QED BY <1>1, <1>2, TurnCInv, StartCInv, FinishCInv, RefuseCInv, CrashCInv DEF Next, Serve

\* No reboot goes unreported, for any number of hosts and boots: between
\* registrations the reported ones lead from the first boot id stored to the one
\* stored now, unless the store or the controller failed between the two commits
\* of register_agent, or an agent registered without a boot id.
THEOREM NoRebootIsMissed == Spec => []RebootsComplete
<1>1. BInv /\ CInv => RebootsComplete
  <2> SUFFICES ASSUME BInv, CInv, NEW h \in Host, ~ghost[h].cut, midway = {}, db[h].boot # 0
               PROVE  LET chain == <<<<0, ghost[h].first>>>> \o db[h].reboots IN
                      /\ \A i \in 2..Len(chain) : chain[i][1] = chain[i - 1][2]
                      /\ chain[Len(chain)][2] = db[h].boot
    BY DEF RebootsComplete
  <2> DEFINE s == db[h].reboots
             head == <<0, ghost[h].first>>
             chain == <<head>> \o s
  <2>1. s \in Seq(Nat \X Nat) /\ Len(s) \in Nat
    BY RowType DEF BInv
  <2>2. head \in Nat \X Nat /\ head[2] = ghost[h].first
    BY DEF CInv, Link
  <2>3. Traced(h) /\ Latest(h) = db[h].boot
    BY DEF CInv, Linked
  <2>4. /\ \A k \in 2..Len(s) : s[k][1] = s[k - 1][2]
        /\ Len(s) > 0 => s[1][1] = head[2]
        /\ db[h].boot = IF Len(s) = 0 THEN head[2] ELSE s[Len(s)][2]
    BY <2>2, <2>3 DEF Traced, Latest
  <2> HIDE DEF s, head
  <2>5. /\ Len(chain) = Len(s) + 1 /\ chain[1] = head
        /\ \A i \in 2..(Len(s) + 1) : chain[i] = s[i - 1]
    BY SMT, <2>1, <2>2
  <2> HIDE DEF chain
  <2>6. ASSUME NEW i \in 2..Len(chain) PROVE chain[i][1] = chain[i - 1][2]
    <3>1. CASE i = 2
      BY SMT, <2>1, <2>4, <2>5, <3>1
    <3>2. CASE i # 2
      <4>1. i - 1 \in 2..Len(s) /\ i - 1 \in 2..(Len(s) + 1) /\ i \in 2..(Len(s) + 1)
        BY SMT, <2>1, <2>5, <3>2
      <4> QED BY <2>4, <2>5, <4>1
    <3> QED BY <3>1, <3>2
  <2>7. chain[Len(chain)][2] = db[h].boot
    <3>1. CASE Len(s) = 0
      BY SMT, <2>4, <2>5, <3>1
    <3>2. CASE Len(s) # 0
      BY SMTT(60), <2>1, <2>4, <2>5, <3>2
    <3> QED BY <3>1, <3>2
  <2> QED BY <2>6, <2>7 DEF chain, s, head
<1> QED BY <1>1, InitBInv, StepBInv, InitCInv, StepCInv, PTL DEF Spec

-----------------------------------------------------------------------------
(* Slots of the probe runner.                                              *)

Tasks ==
    /\ live \subseteq Entry \X Nat /\ IsFiniteSet(live)
    /\ awaited \subseteq live
    /\ slots \in [Probe -> Nat]

Slotted == Tasks /\ SlotsBalanced

\* Every scheduled entry has a probe, every probe a limit.
LEMMA Schedule == Key \in [Entry -> Probe] /\ Limit \in [Probe -> Nat]
  BY ScheduleAssumption

\* A finite schedule holds finitely many slots.
LEMMA HeldFinite ==
    ASSUME Tasks, NEW k PROVE IsFiniteSet(Held(k))
<1>1. Held(k) \subseteq live
  BY DEF Held
<1> QED BY <1>1, FS_Subset DEF Tasks

LEMMA RunnerInitInv == RunnerInit => Slotted
<1> SUFFICES ASSUME RunnerInit PROVE Slotted
  OBVIOUS
<1>1. Tasks
  BY FS_EmptySet DEF RunnerInit, Tasks
<1>2. ASSUME NEW k \in Probe PROVE slots[k] = Cardinality(Held(k)) /\ slots[k] <= Limit[k]
  <2>1. Held(k) = {}
    BY DEF Held, RunnerInit
  <2> QED BY SMT, <2>1, FS_EmptySet, Schedule DEF RunnerInit
<1> QED BY <1>1, <1>2 DEF Slotted, SlotsBalanced

\* A new task takes a slot of its key (OutstandingGuard::acquire).
LEMMA Taken ==
    ASSUME Slotted, NEW i \in Entry, NEW n \in Nat, <<i, n>> \notin live,
           slots[Key[i]] < Limit[Key[i]],
           slots' = [slots EXCEPT ![Key[i]] = @ + 1],
           live' = live \cup {<<i, n>>}, awaited' = {<<i, n>>}
    PROVE  Slotted'
<1>1. Key[i] \in Probe /\ Limit[Key[i]] \in Nat /\ slots[Key[i]] \in Nat
  BY Schedule DEF Slotted, Tasks
<1>2. Tasks'
  <2>1. IsFiniteSet(live')
    BY FS_AddElement DEF Slotted, Tasks
  <2>2. slots' \in [Probe -> Nat]
    BY SMT, <1>1 DEF Slotted, Tasks
  <2> QED BY SMT, <2>1, <2>2 DEF Slotted, Tasks
<1>3. ASSUME NEW k \in Probe PROVE slots'[k] = Cardinality(Held(k)') /\ slots'[k] <= Limit[k]
  <2>1. slots[k] = Cardinality(Held(k)) /\ slots[k] <= Limit[k]
    BY DEF Slotted, SlotsBalanced
  <2>2. CASE k = Key[i]
    <3>1. Held(k)' = Held(k) \cup {<<i, n>>} /\ <<i, n>> \notin Held(k)
      BY SMT, <2>2 DEF Held
    <3>2. Cardinality(Held(k)') = Cardinality(Held(k)) + 1
      BY <3>1, HeldFinite, FS_AddElement DEF Slotted
    <3>3. slots'[k] = slots[k] + 1
      BY <2>2, <1>1 DEF Slotted, Tasks
    <3> QED BY SMT, <1>1, <2>1, <2>2, <3>2, <3>3
  <2>3. CASE k # Key[i]
    <3>1. Held(k)' = Held(k)
      BY SMT, <2>3 DEF Held
    <3>2. slots'[k] = slots[k]
      BY <2>3 DEF Slotted, Tasks
    <3> QED BY <2>1, <3>1, <3>2
  <2> QED BY <2>2, <2>3
<1> QED BY <1>2, <1>3 DEF Slotted, SlotsBalanced

\* A task that ends gives its slot back (OutstandingGuard::drop).
LEMMA Released ==
    ASSUME Slotted, NEW t \in live, Release(t), awaited' = {} \/ (awaited' = awaited /\ t \notin awaited)
    PROVE  Slotted'
<1> DEFINE key == Key[t[1]]
<1>1. key \in Probe /\ live' = live \ {t} /\ slots' = [slots EXCEPT ![key] = @ - 1]
  BY Schedule DEF Slotted, Tasks, Release
<1>2. ASSUME NEW k \in Probe
      PROVE  slots'[k] \in Nat /\ slots'[k] = Cardinality(Held(k)') /\ slots'[k] <= Limit[k]
  <2>1. slots[k] = Cardinality(Held(k)) /\ slots[k] <= Limit[k] /\ slots[k] \in Nat /\ Limit[k] \in Nat
    BY Schedule DEF Slotted, Tasks, SlotsBalanced
  <2>2. CASE k = key
    <3>1. Held(k)' = Held(k) \ {t} /\ t \in Held(k)
      BY <1>1, <2>2 DEF Held
    <3>2. Cardinality(Held(k)') = Cardinality(Held(k)) - 1 /\ IsFiniteSet(Held(k)')
      BY <3>1, HeldFinite, FS_RemoveElement DEF Slotted
    <3>3. Cardinality(Held(k)') \in Nat
      BY <3>2, FS_CardinalityType
    <3>4. slots'[k] = slots[k] - 1
      BY <1>1, <2>2 DEF Slotted, Tasks
    <3> QED BY SMT, <2>1, <3>2, <3>3, <3>4
  <2>3. CASE k # key
    <3>1. Held(k)' = Held(k)
      BY <1>1, <2>3 DEF Held
    <3>2. slots'[k] = slots[k]
      BY <1>1, <2>3 DEF Slotted, Tasks
    <3> QED BY <2>1, <3>1, <3>2
  <2> QED BY <2>2, <2>3
<1>3. Tasks'
  <2>1. IsFiniteSet(live')
    BY <1>1, FS_RemoveElement DEF Slotted, Tasks
  <2>2. slots' \in [Probe -> Nat]
    BY <1>1, <1>2 DEF Slotted, Tasks
  <2> QED BY <1>1, <2>1, <2>2 DEF Slotted, Tasks
<1> QED BY <1>2, <1>3 DEF Slotted, SlotsBalanced

\* Everything else leaves tasks and slots alone, and may stop waiting.
LEMMA Untouched ==
    ASSUME Slotted, live' = live, slots' = slots, awaited' \in {{}, awaited}
    PROVE  Slotted'
  BY DEF Slotted, Tasks, SlotsBalanced, Held

LEMMA RunnerStepInv == Slotted /\ [RunnerNext]_runnerVars => Slotted'
<1> SUFFICES ASSUME Slotted, [RunnerNext]_runnerVars PROVE Slotted'
  OBVIOUS
<1>1. CASE UNCHANGED runnerVars
  BY <1>1, Untouched DEF runnerVars
<1>2. CASE StartTurn \/ Uninstall
  BY <1>2, Untouched DEF StartTurn, Uninstall
<1>3. ASSUME NEW i \in Entry, ComeDue(i) \/ Skip(i) PROVE Slotted'
  BY <1>3, Untouched DEF ComeDue, Skip, Reschedule
<1>4. ASSUME NEW i \in Entry, Spawn(i) PROVE Slotted'
  <2>1. PICK n \in 1..Limit[Key[i]] :
          /\ <<i, n>> \notin live
          /\ live' = live \cup {<<i, n>>} /\ awaited' = {<<i, n>>}
    BY <1>4 DEF Spawn
  <2>2. n \in Nat /\ slots[Key[i]] < Limit[Key[i]] /\ slots' = [slots EXCEPT ![Key[i]] = @ + 1]
    BY SMT, <1>4, Schedule DEF Spawn
  <2> QED BY <2>1, <2>2, Taken
<1>5. ASSUME NEW t \in awaited, Answer(t) \/ StatGivesUp(t) \/ Panic(t) PROVE Slotted'
  <2>1. t \in live /\ Release(t) /\ awaited' = {}
    BY <1>5 DEF Answer, StatGivesUp, Panic, Reschedule, Slotted, Tasks
  <2> QED BY <2>1, Released
<1>6. ASSUME NEW t \in awaited, TimeOut(t) PROVE Slotted'
  BY <1>6, Untouched DEF TimeOut, Reschedule
<1>7. ASSUME NEW t \in live, EndLate(t) PROVE Slotted'
  <2>1. t \notin awaited /\ Release(t) /\ awaited' = awaited
    BY <1>7 DEF EndLate
  <2> QED BY <2>1, Released
<1>8. ASSUME NEW i \in Stat, Wedge(i) \/ ThreadReturns(i) PROVE Slotted'
  BY <1>8, Untouched DEF Wedge, ThreadReturns
<1> QED BY <1>1, <1>2, <1>3, <1>4, <1>5, <1>6, <1>7, <1>8 DEF RunnerNext, Run, Return

\* Through answers, panics, timeouts and late ends, the count a key holds is the
\* number of its tasks that have not ended, and never above max_outstanding
\* (OutstandingGuard::acquire and drop, ProbeRunner::run).
THEOREM SlotsStayBalanced == RunnerSpec => []SlotsBalanced
<1>1. Slotted => SlotsBalanced
  BY DEF Slotted
<1> QED BY <1>1, RunnerInitInv, RunnerStepInv, PTL DEF RunnerSpec
=============================================================================
