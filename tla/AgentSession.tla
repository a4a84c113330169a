----------------------------- MODULE AgentSession -----------------------------
(***************************************************************************)
(* Agents registering, heartbeating and fetching their peer assignments    *)
(* from a controller that keeps sessions in memory and boot ids in the     *)
(* store.  Agent side: src/src/agent/mod.rs; controller side:              *)
(* src/src/controller/{agents,registration,api,assignments}.rs.            *)
(*                                                                         *)
(* The controller lock is a fair mutex: registrations and assignment       *)
(* requests wait in `queue' in their order of arrival, and go on being     *)
(* served when the agent that sent them has given up.  A registration is   *)
(* two commits, the inventory with the new boot id and then the reboot     *)
(* observation.  Heartbeats only take the registry's own lock.             *)
(***************************************************************************)
EXTENDS Integers, PeerAssignment

CONSTANTS
    Order,       \* the hosts, in the order of their ids
    Observer,    \* those with the observer.peer capability
    Domain,      \* what each host depends on
    Degree,      \* peer_monitoring.degree
    MaxBoot,     \* bound on the boots of each host
    MaxFaults    \* bound on crashes, restarts, failed commits, lost answers

ASSUME SessionAssumption ==
    /\ Observer \subseteq Range(Order) /\ DOMAIN Domain = Range(Order)
    /\ Degree \in Nat /\ MaxBoot \in [Range(Order) -> Nat \ {0}] /\ MaxFaults \in Nat

Host == Range(Order)

VARIABLES
    boot,        \* the boot each machine is in
    agent,       \* the agent process of each host
    answer,      \* the answer on its way to an agent, as a set of at most one
    up,          \* whether the controller process runs
    sessions,    \* AgentRegistry::sessions, 0 where there is none
    queue,       \* requests at the controller lock
    midway,      \* the registration between its two commits, as a set
    db,          \* per host: known, its stored boot id (0 = null), reboot observations
    issued,      \* sessions issued so far
    faults,      \* faults so far
    ghost        \* per host: first boot id stored, and whether a link was lost

vars == <<boot, agent, answer, up, sessions, queue, midway, db, issued, faults, ghost>>
ctl == <<up, sessions, queue, midway, db, issued, ghost>>

Process == [pc |-> "start", call |-> "none", session |-> 0, registered |-> FALSE, targets |-> {}, due |-> TRUE]
Plan ==
    LET known == SelectSeq(Order, LAMBDA h : db[h].known)
    IN  Assign(known, ObserverCandidates(known, Observer), Domain, Degree)

Fault == faults < MaxFaults /\ faults' = faults + 1

Init ==
    /\ boot = [h \in Host |-> 1]
    /\ agent = [h \in Host |-> Process]
    /\ answer = [h \in Host |-> {}]
    /\ up = TRUE /\ sessions = [h \in Host |-> 0]
    /\ queue = <<>> /\ midway = {}
    /\ db = [h \in Host |-> [known |-> FALSE, boot |-> 0, reboots |-> <<>>]]
    /\ issued = 0 /\ faults = 0
    /\ ghost = [h \in Host |-> [first |-> 0, cut |-> FALSE]]

(***************************************************************************)
(* The agent: a turn refreshes a stale assignment, then heartbeats, which  *)
(* registers when there is no session.                                     *)
(***************************************************************************)
Wants(h) ==
    CASE agent[h].pc = "start" -> "register"
      [] agent[h].pc = "tick" /\ agent[h].due /\ agent[h].session # 0 -> "assignments"
      [] agent[h].session = 0 -> "register"
      [] OTHER -> "heartbeat"

After(call) == IF call = "assignments" THEN "beat" ELSE "tick"

(* Requests that nobody waits for any more.                                *)
HungUp(h) == [i \in DOMAIN queue |-> IF queue[i].agent = h THEN [queue[i] EXCEPT !.live = FALSE] ELSE queue[i]]

(* The call fails as unreachable, or with a status of 500 and above, or,   *)
(* when `final', in a way that retrying does not mend.                     *)
Failed(h, call, final) ==
    [agent[h] EXCEPT !.pc = After(call), !.call = "none",
                     !.registered = IF call = "register" \/ (call = "heartbeat" /\ final) THEN FALSE ELSE @]

Request(h, call, b) ==
    [agent |-> h, call |-> call, boot |-> b, live |-> TRUE,
     known |-> call = "assignments" /\ sessions[h] # 0]

(* Faulty: an agent the controller does not know need not register.        *)
HeartbeatAccepting(h) == [call |-> "heartbeat", reregister |-> sessions[h] \notin {0, agent[h].session}]

(* AgentRegistry::heartbeat.                                               *)
Heartbeat(h) == [call |-> "heartbeat", reregister |-> sessions[h] # agent[h].session]

Send(h) ==
    LET call == Wants(h) IN
    /\ agent[h].pc # "wait" /\ up
    /\ agent' = [agent EXCEPT ![h].pc = "wait", ![h].call = call]
    /\ \/ /\ call = "heartbeat"
          /\ answer' = [answer EXCEPT ![h] = {Heartbeat(h)}]
          /\ UNCHANGED <<queue, faults>>
       \/ /\ call # "heartbeat"
          /\ \/ queue' = Append(queue, Request(h, call, boot[h])) /\ UNCHANGED faults
             \/ call = "register" /\ Fault /\ queue' = Append(queue, Request(h, call, 0))
          /\ UNCHANGED answer
    /\ UNCHANGED <<boot, up, sessions, midway, db, issued, ghost>>

Unreachable(h) ==
    /\ agent[h].pc # "wait" /\ ~up
    /\ agent' = [agent EXCEPT ![h] = Failed(h, Wants(h), FALSE)]
    /\ UNCHANGED <<boot, answer, faults, ctl>>

(* The connection is gone, with the controller or by the client's timeout. *)
GiveUp(h) ==
    /\ agent[h].pc = "wait"
    /\ \/ /\ answer[h] = {} /\ \A i \in DOMAIN queue : queue[i].agent # h \/ ~queue[i].live
          /\ UNCHANGED faults
       \/ Fault
    /\ agent' = [agent EXCEPT ![h] = Failed(h, agent[h].call, FALSE)]
    /\ answer' = [answer EXCEPT ![h] = {}]
    /\ queue' = HungUp(h)
    /\ UNCHANGED <<boot, up, sessions, midway, db, issued, ghost>>

Receive(h) ==
    /\ answer[h] # {}
    /\ answer' = [answer EXCEPT ![h] = {}]
    /\ \E a \in answer[h] :
         agent' = [agent EXCEPT ![h] =
            CASE a.call = "failed" -> Failed(h, agent[h].call, FALSE)
              [] a.call = "register" ->
                   [@ EXCEPT !.pc = "tick", !.call = "none", !.session = a.session, !.registered = TRUE, !.due = TRUE]
              [] a.call = "assignments" ->
                   [@ EXCEPT !.pc = "beat", !.call = "none", !.targets = a.targets, !.due = FALSE]
              [] a.call = "heartbeat" ->
                   [@ EXCEPT !.pc = IF a.reregister THEN "start" ELSE "tick", !.call = "none"]]
    /\ UNCHANGED <<boot, faults, ctl>>

(* The answer comes but its body cannot be decoded.                        *)
Garbled(h) ==
    /\ answer[h] # {} /\ Fault
    /\ answer' = [answer EXCEPT ![h] = {}]
    /\ agent' = [agent EXCEPT ![h] = Failed(h, agent[h].call, TRUE)]
    /\ UNCHANGED <<boot, ctl>>

(* ASSIGNMENT_REFRESH passes.                                              *)
Expire(h) ==
    /\ ~agent[h].due
    /\ agent' = [agent EXCEPT ![h].due = TRUE]
    /\ UNCHANGED <<boot, answer, faults, ctl>>

(* The agent process restarts, on its own or with the machine.             *)
Restart(h) ==
    /\ \/ boot[h] < MaxBoot[h] /\ boot' = [boot EXCEPT ![h] = @ + 1] /\ UNCHANGED faults
       \/ Fault /\ UNCHANGED boot
    /\ agent' = [agent EXCEPT ![h] = Process]
    /\ answer' = [answer EXCEPT ![h] = {}]
    /\ queue' = HungUp(h)
    /\ UNCHANGED <<up, sessions, midway, db, issued, ghost>>
-----------------------------------------------------------------------------
(***************************************************************************)
(* The controller.                                                         *)
(***************************************************************************)
Respond(request, a) ==
    answer' = IF request.live THEN [answer EXCEPT ![request.agent] = {a}] ELSE answer

(* Faulty: a host that had no boot id yet has rebooted.                    *)
RebootedUnlessSame(before, after) == after # 0 /\ before # after

(* A changed boot id, where both are known.                                *)
Rebooted(before, after) == before # 0 /\ after # 0 /\ before # after

(* Faulty: the boot id before is read after it was overwritten.            *)
CommitInventoryFirst(r) ==
    /\ db' = [db EXCEPT ![r.agent].known = TRUE, ![r.agent].boot = r.boot]
    /\ midway' = {[before |-> db'[r.agent].boot, after |-> r.boot]}

(* register_agent, up to the commit of the inventory.                      *)
CommitInventory(r) ==
    /\ midway' = {[before |-> db[r.agent].boot, after |-> r.boot]}
    /\ db' = [db EXCEPT ![r.agent].known = TRUE, ![r.agent].boot = r.boot]

StartRegistration ==
    /\ up /\ queue # <<>> /\ Head(queue).call = "register" /\ midway = {}
    /\ LET r == Head(queue) IN
         /\ CommitInventory(r)
         /\ ghost' = [ghost EXCEPT ![r.agent].first = IF @ = 0 THEN r.boot ELSE @,
                                   ![r.agent].cut = @ \/ (r.boot = 0 /\ db[r.agent].boot # 0)]
    /\ UNCHANGED <<boot, agent, answer, up, sessions, queue, issued, faults>>

FinishRegistration ==
    \E m \in midway :
        LET r == Head(queue) IN
        /\ up
        /\ db' = IF Rebooted(m.before, m.after)
                 THEN [db EXCEPT ![r.agent].reboots = Append(@, <<m.before, m.after>>)] ELSE db
        /\ issued' = issued + 1
        /\ sessions' = [sessions EXCEPT ![r.agent] = issued + 1]
        /\ Respond(r, [call |-> "register", session |-> issued + 1])
        /\ queue' = Tail(queue) /\ midway' = {}
        /\ UNCHANGED <<boot, agent, up, faults, ghost>>

(* The store refuses one of the two commits, or the reads before them.     *)
Refuse ==
    /\ up /\ queue # <<>> /\ Fault
    /\ LET r == Head(queue) IN
         /\ Respond(r, [call |-> "failed"])
         /\ ghost' = [ghost EXCEPT ![r.agent].cut = @ \/ \E m \in midway : Rebooted(m.before, m.after)]
    /\ queue' = Tail(queue) /\ midway' = {}
    /\ UNCHANGED <<boot, agent, up, sessions, db, issued>>

(* An agent without a session is given an empty plan.                      *)
ServeAssignments ==
    /\ up /\ queue # <<>> /\ Head(queue).call = "assignments"
    /\ LET r == Head(queue) IN
         Respond(r, [call |-> "assignments",
                     targets |-> IF r.known THEN TargetsFor(Plan, r.agent) ELSE {}])
    /\ queue' = Tail(queue)
    /\ UNCHANGED <<boot, agent, up, sessions, midway, db, issued, faults, ghost>>

Crash ==
    /\ up /\ Fault
    /\ up' = FALSE /\ sessions' = [h \in Host |-> 0] /\ queue' = <<>> /\ midway' = {}
    /\ answer' = [h \in Host |-> {}]
    /\ ghost' = [h \in Host |->
          [ghost[h] EXCEPT !.cut = @ \/ \E m \in midway : h = Head(queue).agent /\ Rebooted(m.before, m.after)]]
    /\ UNCHANGED <<boot, agent, db, issued>>

StartController ==
    /\ ~up /\ up' = TRUE
    /\ UNCHANGED <<boot, agent, answer, sessions, queue, midway, db, issued, faults, ghost>>

Turn(h) == Send(h) \/ Unreachable(h) \/ Receive(h) \/ GiveUp(h)
Serve == StartRegistration \/ FinishRegistration \/ ServeAssignments

Next ==
    \/ \E h \in Host : Turn(h) \/ Garbled(h) \/ Expire(h) \/ Restart(h)
    \/ Serve \/ Refuse \/ Crash \/ StartController

Spec == Init /\ [][Next]_vars

(* Every agent goes on with its turns and its timer, the lock is fair and  *)
(* the controller is started again.                                        *)
FairSpec ==
    /\ Spec /\ WF_vars(Serve) /\ WF_vars(StartController)
    /\ \A h \in Host : WF_vars(Turn(h)) /\ WF_vars(Expire(h))
-----------------------------------------------------------------------------
TypeOK ==
    /\ boot \in [Host -> Nat \ {0}] /\ up \in BOOLEAN /\ issued \in Nat /\ faults \in 0..MaxFaults
    /\ agent \in [Host -> [pc : {"start", "tick", "beat", "wait"},
                           call : {"none", "register", "heartbeat", "assignments"},
                           session : 0..issued, registered : BOOLEAN, targets : SUBSET Host, due : BOOLEAN]]
    /\ sessions \in [Host -> 0..issued]
    /\ \A h \in Host : db[h].known \in BOOLEAN /\ db[h].boot \in 0..boot[h] /\ boot[h] <= MaxBoot[h]
    /\ Cardinality(midway) <= 1 /\ (midway # {} => queue # <<>> /\ Head(queue).call = "register")

(* A host is reported to have rebooted only if it did, once for each time, *)
(* in order, however late an abandoned registration is served and however  *)
(* often the agent or the controller restarts (registration.rs:82).        *)
RebootsReal ==
    \A h \in Host : \A i \in DOMAIN db[h].reboots :
        LET r == db[h].reboots[i] IN
        /\ 0 < r[1] /\ r[1] < r[2] /\ r[2] <= boot[h]
        /\ i > 1 => db[h].reboots[i - 1][2] <= r[1]

(* Between registrations, the reboots reported lead from the first boot id *)
(* ever stored to the one stored now, unless a registration was cut after  *)
(* its first commit or came without a boot id (registration.rs:79).        *)
RebootsComplete ==
    \A h \in Host :
        (~ghost[h].cut /\ midway = {} /\ db[h].boot # 0) =>
            LET chain == <<<<0, ghost[h].first>>>> \o db[h].reboots IN
            /\ \A i \in 2..Len(chain) : chain[i][1] = chain[i - 1][2]
            /\ chain[Len(chain)][2] = db[h].boot

(* An agent never holds a session the controller has replaced by an older  *)
(* one: a registration served after its agent gave up leaves the           *)
(* controller ahead, which the next heartbeat mends (agents.rs:116).       *)
SessionNotAhead ==
    \A h \in Host : sessions[h] # 0 => agent[h].session <= sessions[h]

(* Once the faults stop, every agent ends up with the session that the     *)
(* controller knows it by, although a restarted controller knows none.     *)
SessionsHeal ==
    <>[](\A h \in Host : agent[h].session # 0 /\ agent[h].session = sessions[h])

(* Once the faults stop, every host is watched for good by as many         *)
(* observers as the degree asks for or as there are, although an agent     *)
(* unknown to a restarted controller is given an empty plan (api.rs:201)   *)
(* and each host's plan changes as others register.                        *)
EveryHostEventuallyWatched ==
    <>[](\A h \in Host :
            Cardinality({o \in Host : h \in agent[o].targets}) = Smaller(Degree, Cardinality(Observer \ {h})))

(* Once the faults stop, what they broke heals: every agent's session, and *)
(* the watch over every host.                                              *)
ClusterHeals == SessionsHeal /\ EveryHostEventuallyWatched
=============================================================================
