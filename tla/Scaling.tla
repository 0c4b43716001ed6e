------------------------------ MODULE Scaling -------------------------------
(***************************************************************************)
(* Scaling out: an alert reaches the webhook of one gateway node           *)
(* (internal/webhook), which starts a container through the DockerScaler   *)
(* (pkg/scaler) under a distributed lock, waits until the new node has     *)
(* registered and announces it in a scale-up event; every other node       *)
(* consumes the event (internal/event, consumeScaleUpEvent) and redirects  *)
(* a share of its links.  The rebalancing webhook redirects without a new  *)
(* node.                                                                   *)
(*                                                                         *)
(* A node is its number (gw-<number>), which stands for the name of its    *)
(* container and its port as well: the name has the same number, and the   *)
(* port comes from a maximum of its own that grows with it.                *)
(* Docker daemon, etcd and message queue are external.  A call of one of   *)
(* them may fail; a cancelled request context makes them fail, and is      *)
(* covered by that.  A consumer has one goroutine per partition, so two    *)
(* events may be handled at once.                                          *)
(***************************************************************************)
EXTENDS Integers, FiniteSetsExt

CONSTANTS Calls,        \* webhook requests
          HostOf,       \* the node that each one reaches
          Static,       \* the nodes that run from the start
          InitLinks,    \* the number of links that each of them has
          MaxDeaths,    \* bound: nodes that end
          Percent,      \* rebalancePercent, in hundredths
          NoCall        \* the lock is free

DefaultStartNodeID == 1
Nodes == 1..(Max(Static \union {DefaultStartNodeID}) + Cardinality(Calls))

ASSUME ScalingAssumption ==
    /\ IsFiniteSet(Calls) /\ NoCall \notin Calls
    /\ Static \subseteq Nat \ {0} /\ Static # {} /\ IsFiniteSet(Static)
    /\ HostOf \in [Calls -> Static]
    /\ InitLinks \in [Static -> Nat] /\ MaxDeaths \in Nat
    /\ Percent \in 0..100

VARIABLES
    pc,        \* where each request is
    lock,      \* the request whose lease holds the scaling lock
    alive,     \* requests whose etcd session is kept alive
    node,      \* the node a request has created, or 0
    listed,    \* the nodes that GetAvailableNodes returned to Rebalance
    names,     \* container names that are taken
    up,        \* nodes that run
    reg,       \* nodes in the registry
    total,     \* TotalNodeCount of the event of each request, 0 before it is sent
    job,       \* what each node does with the event of a request
    told       \* how many links it has redirected for that event

scalerVars == <<pc, lock, alive, node, listed>>
clusterVars == <<names, up, reg>>
eventVars == <<total, job, told>>
vars == <<scalerVars, clusterVars, eventVars>>

Init ==
    /\ pc = [c \in Calls |-> "idle"]
    /\ lock = NoCall /\ alive = {}
    /\ node = [c \in Calls |-> 0]
    /\ listed = [c \in Calls |-> {}]
    /\ names = Static /\ up = Static /\ reg = Static
    /\ total = [c \in Calls |-> 0]
    /\ job = [n \in Nodes |-> [c \in Calls |-> "none"]]
    /\ told = [n \in Nodes |-> [c \in Calls |-> 0]]

Goto(c, l) == pc' = [pc EXCEPT ![c] = l]
GetAvailableNodes(self) == reg \ {self}
Len(n) == IF n \in Static THEN InitLinks[n] ELSE 0

-----------------------------------------------------------------------------
(* The webhook handler and DockerScaler.ScaleUp, for one node.             *)

\* Handler.ScaleUp and Handler.Rebalance.  A DatasourceNoData alert is
\* answered without any effect.
Webhook(c) ==
    /\ pc[c] = "idle" /\ HostOf[c] \in up
    /\ pc' \in {[pc EXCEPT ![c] = l] : l \in {"lock", "list"}}
    /\ UNCHANGED <<lock, alive, node, listed, clusterVars, eventVars>>

\* acquireScalingLock.
TryLock(c) ==
    /\ pc[c] = "lock" /\ lock = NoCall
    /\ lock' = c /\ alive' = alive \union {c}
    /\ Goto(c, "image")
    /\ UNCHANGED <<node, listed, clusterVars, eventVars>>

\* The lock is held by another request, or etcd fails: the session is closed
\* and ScaleUp returns.  When the TryLock was carried out but reported as
\* failed, and the Close does not reach etcd either, the lock is left to a
\* lease that nobody keeps alive.
LockFails(c) ==
    /\ pc[c] = "lock"
    /\ lock' \in {lock} \union (IF lock = NoCall THEN {c} ELSE {})
    /\ Goto(c, "done")
    /\ UNCHANGED <<alive, node, listed, clusterVars, eventVars>>

\* findLatestImage and hostIPFunc.
FindLatestImage(c) ==
    /\ pc[c] = "image"
    /\ pc' \in {[pc EXCEPT ![c] = l] : l \in {"number", "unlock"}}
    /\ UNCHANGED <<lock, alive, node, listed, clusterVars, eventVars>>

nextNodeID == Max(reg \union {DefaultStartNodeID}) + 1

getNextAvailableNodeIDAndPort(c) ==
    /\ pc[c] = "number"
    /\ node' = [node EXCEPT ![c] = nextNodeID]
    /\ Goto(c, "create")
    /\ UNCHANGED <<lock, alive, listed, clusterVars, eventVars>>

\* The daemon refuses a name that is taken.
ContainerCreate(c) ==
    /\ pc[c] = "create" /\ node[c] \notin names
    /\ names' = names \union {node[c]}
    /\ Goto(c, "start")
    /\ UNCHANGED <<lock, alive, node, listed, up, reg, eventVars>>

ContainerStart(c) ==
    /\ pc[c] = "start"
    /\ up' = up \union {node[c]}
    /\ Goto(c, "wait")
    /\ UNCHANGED <<lock, alive, node, listed, names, reg, eventVars>>

\* Mutant: a container that exists already counts as started.
NoNewNode_Reuse(c) ==
    IF pc[c] = "create" /\ node[c] \in names
      THEN UNCHANGED node /\ Goto(c, "wait")
      ELSE node' = [node EXCEPT ![c] = 0] /\ Goto(c, "unlock")
NoNewNode(c) == node' = [node EXCEPT ![c] = 0] /\ Goto(c, "unlock")

\* createSingleNode fails, and createNewNodes returns an empty list.  A
\* container that was created and not started keeps its name.
CreateFails(c) ==
    /\ pc[c] \in {"number", "create", "start"}
    /\ NoNewNode(c)
    /\ UNCHANGED <<lock, alive, listed, clusterVars, eventVars>>

\* Mutant: the node is reported without a look at the registry.
findRegisteredNodes_All(c) == {node[c]}
findRegisteredNodes(c) == {node[c]} \intersect GetAvailableNodes(HostOf[c])

\* waitForNodesRegistration.  A tick that does not find the node, or fails
\* to list, changes nothing.
Registered(c) ==
    /\ pc[c] = "wait" /\ findRegisteredNodes(c) = {node[c]}
    /\ Goto(c, "unlock")
    /\ UNCHANGED <<lock, alive, node, listed, clusterVars, eventVars>>

\* Mutant: the wait has no limit.
WaitEnds_Never(c) == FALSE
WaitEnds(c) == pc[c] = "wait"

WaitTimeout(c) ==
    /\ WaitEnds(c)
    /\ node' = [node EXCEPT ![c] = 0]
    /\ Goto(c, "unlock")
    /\ UNCHANGED <<lock, alive, listed, clusterVars, eventVars>>

Freed(c) == IF lock = c THEN NoCall ELSE lock

\* The deferred releaseScalingLock: Unlock deletes the request's own key.
releaseScalingLock(c) ==
    /\ pc[c] = "unlock"
    /\ lock' \in {Freed(c), lock}
    /\ Goto(c, "close")
    /\ UNCHANGED <<alive, node, listed, clusterVars, eventVars>>

\* Mutant: the session is left open.
Closed_Not(c) == UNCHANGED <<lock, alive>>
\* session.Close ends the keep-alive and revokes the lease, if it can.
Closed(c) == lock' \in {Freed(c), lock} /\ alive' = alive \ {c}

CloseSession(c) ==
    /\ pc[c] = "close"
    /\ Closed(c)
    /\ Goto(c, IF node[c] = 0 THEN "done" ELSE "count")
    /\ UNCHANGED <<node, listed, clusterVars, eventVars>>

-----------------------------------------------------------------------------
(* Service.ScaleUp after the scaler has returned: count the nodes and      *)
(* announce the new one.                                                   *)

\* Count and Produce are two calls; both may fail.
Count(c) ==
    /\ pc[c] = "count"
    /\ total' = [total EXCEPT ![c] = Cardinality(GetAvailableNodes(HostOf[c])) + 1]
    /\ Goto(c, "produce")
    /\ UNCHANGED <<lock, alive, node, listed, clusterVars, job, told>>

\* Every node has a consumer group of its own.
Produce(c) ==
    /\ pc[c] = "produce"
    /\ job' = [n \in Nodes |-> [job[n] EXCEPT ![c] = IF n \in up THEN "pending" ELSE "none"]]
    /\ Goto(c, "announced")
    /\ UNCHANGED <<lock, alive, node, listed, clusterVars, total, told>>

AnnounceFails(c) ==
    /\ pc[c] \in {"count", "produce"}
    /\ Goto(c, "done")
    /\ node' = [node EXCEPT ![c] = 0] /\ total' = [total EXCEPT ![c] = 0]
    /\ UNCHANGED <<lock, alive, listed, clusterVars, job, told>>

-----------------------------------------------------------------------------
(* Service.Rebalance: redirect a percentage of the links to the others.    *)

List(c) ==
    /\ pc[c] = "list"
    /\ \/ listed' = [listed EXCEPT ![c] = GetAvailableNodes(HostOf[c])] /\ Goto(c, "redirect")
       \/ UNCHANGED listed /\ Goto(c, "done")
    /\ UNCHANGED <<lock, alive, node, clusterVars, eventVars>>

\* RandomLinksSelector and PercentLinksSelector: how many of the links are
\* selected.
RandomSelect(count, n) == Min({count, n})
PercentSelect(n) == RandomSelect((n * Percent) \div 100, n)

\* RedirectLinks refuses an empty list of nodes.
Redirect(c) ==
    /\ pc[c] = "redirect"
    /\ told' = IF listed[c] = {} THEN told
               ELSE [told EXCEPT ![HostOf[c]][c] = PercentSelect(Len(HostOf[c]))]
    /\ listed' = [listed EXCEPT ![c] = {}]
    /\ Goto(c, "done")
    /\ UNCHANGED <<lock, alive, node, clusterVars, total, job>>

Request(c) ==
    \/ Webhook(c) \/ TryLock(c) \/ LockFails(c) \/ FindLatestImage(c)
    \/ getNextAvailableNodeIDAndPort(c) \/ ContainerCreate(c) \/ ContainerStart(c)
    \/ CreateFails(c) \/ Registered(c) \/ WaitTimeout(c)
    \/ releaseScalingLock(c) \/ CloseSession(c)
    \/ Count(c) \/ Produce(c) \/ AnnounceFails(c) \/ List(c) \/ Redirect(c)

-----------------------------------------------------------------------------
(* Consumer.consume and consumeScaleUpEvent at node n.                     *)

NewNodes(c) == {node[c]}

\* Mutant: the quotient is taken first.
Share_Order(m, n, k) == m - m * ((n - k) \div n)
Share(m, n, k) == m - ((m * (n - k)) \div n)

\* The new node ignores its own event, the others redirect a share of their
\* links.  (Links that come or go between Len and the snapshot of
\* RedirectLinks are left out: the selector takes what is there.)
ConsumeScaleUp(n, c) ==
    /\ n \in up /\ job[n][c] = "pending"
    /\ LET count == Share(Len(n), total[c], Cardinality(NewNodes(c)))
       IN  told' = IF n \in NewNodes(c) THEN told
                   ELSE [told EXCEPT ![n][c] = RandomSelect(count, Len(n))]
    /\ job' = [job EXCEPT ![n][c] = "done"]
    /\ UNCHANGED <<scalerVars, clusterVars, total>>

-----------------------------------------------------------------------------
(* Containers and leases.                                                  *)

\* A started container registers itself, after its consumers have started.
\* Those may begin with the events of the past.
Boot(n) ==
    /\ n \in up \ reg
    /\ reg' = reg \union {n}
    /\ \E old \in BOOLEAN :
         job' = [job EXCEPT ![n] = [c \in Calls |->
                   IF old /\ pc[c] = "announced" /\ @[c] = "none" THEN "pending" ELSE @[c]]]
    /\ UNCHANGED <<scalerVars, names, up, total, told>>

\* A node ends.  Its container keeps the name, its record stays until the
\* lease expires, and the requests it was handling are gone.  (The bound
\* counts containers that were never started, too.)
Die(n) ==
    LET lost == {c \in Calls : HostOf[c] = n /\ pc[c] # "announced"}
    IN  /\ n \in up /\ Cardinality(names \ up) < MaxDeaths
        /\ up' = up \ {n}
        /\ pc' = [c \in Calls |-> IF c \in lost THEN "done" ELSE pc[c]]
        /\ node' = [c \in Calls |-> IF c \in lost THEN 0 ELSE node[c]]
        /\ total' = [c \in Calls |-> IF c \in lost THEN 0 ELSE total[c]]
        /\ listed' = [c \in Calls |-> IF c \in lost THEN {} ELSE listed[c]]
        /\ alive' = alive \ lost
        /\ UNCHANGED <<lock, names, reg, job, told>>

NodeExpires(n) ==
    /\ n \in reg \ up
    /\ reg' = reg \ {n}
    /\ UNCHANGED <<scalerVars, names, up, eventVars>>

\* The lease of the lock runs out: its keep-alive has ended, or the node is
\* cut off from etcd for longer than SessionTTLSeconds.
LeaseExpires(c) ==
    /\ lock = c
    /\ lock' = NoCall
    /\ UNCHANGED <<pc, alive, node, listed, clusterVars, eventVars>>

Next ==
    \/ \E c \in Calls : Request(c) \/ LeaseExpires(c)
    \/ \E n \in Nodes : \/ Boot(n) \/ Die(n) \/ NodeExpires(n)
                        \/ \E c \in Calls : ConsumeScaleUp(n, c)

\* A request goes on: every call returns, with a result or an error, and the
\* timer of the wait fires.  A lease that nobody keeps alive expires.
Fairness ==
    \A c \in Calls :
        /\ WF_vars(Request(c) /\ pc[c] # "idle" /\ pc[c] # "wait")
        /\ WF_vars(WaitTimeout(c))
        /\ WF_vars(c \notin alive /\ LeaseExpires(c))

Spec == Init /\ [][Next]_vars /\ Fairness

-----------------------------------------------------------------------------
(* Properties.                                                             *)

Announced == {c \in Calls : pc[c] = "announced"}

\* No two requests announce the same new node, although the lock may be lost
\* to an expired lease in the middle of ScaleUp and both take the same
\* maximum from the registry: the name of the container decides between them.
AnnouncedOnce ==
    \A c, d \in Announced : c # d => node[c] # node[d]

\* Together the nodes send a new node no more than its share of their links,
\* rounded up on each of them, also when nodes leave between the wait and the
\* count, or an old event is handled late.
NotFlooded ==
    \A c \in Announced :
        LET done == {n \in Nodes : job[n][c] = "done"}
        IN  total[c] * MapThenSumSet(LAMBDA n : told[n][c], done)
              <= MapThenSumSet(Len, done) + Cardinality(done) * (total[c] - 1)

\* A node that is announced, and has not ended since, is registered: no link
\* is sent to a container that is still starting.
AnnouncedIsReady ==
    \A c \in Announced : node[c] \in up => node[c] \in reg

\* Whatever fails, the scaling lock is given up, so that the next alert can
\* scale out again.
LockFreed == \A c \in Calls : lock = c ~> lock # c

\* Every alert is answered, also when the container never registers.
AlertsAnswered == \A c \in Calls : pc[c] = "lock" ~> pc[c] \in {"done", "announced"}
=============================================================================
