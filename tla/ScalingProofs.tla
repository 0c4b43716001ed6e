---------------------------- MODULE ScalingProofs ----------------------------
(***************************************************************************)
(* Scaling out, for any requests, hosts, running nodes, numbers of links   *)
(* and deaths: no two requests announce the same node, an announced node   *)
(* is registered, and the nodes together send it no more than its share.   *)
(***************************************************************************)
EXTENDS Scaling, FiniteSetTheorems, WellFoundedInduction, TLAPS

\* The webhook requests and the cluster.
ClusterTyped ==
    /\ pc \in [Calls -> {"idle", "lock", "image", "number", "create", "start", "wait", "unlock",
                         "close", "count", "produce", "announced", "list", "redirect", "done"}]
    /\ node \in [Calls -> Nat]
    /\ names \in SUBSET Nat /\ up \in SUBSET Nat
    /\ reg \in SUBSET Nat /\ IsFiniteSet(reg)

\* The request has created the container of its node, and may announce it.
Owner(c) ==
    \/ pc[c] \in {"start", "wait", "count", "produce", "announced"}
    \/ pc[c] \in {"unlock", "close"} /\ node[c] # 0

\* The name of a container belongs to the one request that created it.
OwnerShape ==
    /\ \A c \in Calls : pc[c] \in {"idle", "lock", "image"} => node[c] = 0
    /\ \A c \in Calls : Owner(c) => node[c] \in names
    /\ \A c, d \in Calls : (Owner(c) /\ Owner(d) /\ node[c] = node[d]) => c = d

\* After the wait the node is registered for as long as it runs.
ReadyShape ==
    \A c \in Calls : (Owner(c) /\ pc[c] \notin {"start", "wait"} /\ node[c] \in up) => node[c] \in reg

ClusterIInv == ClusterTyped /\ OwnerShape /\ ReadyShape

\* The scale-up events.
EventTyped ==
    /\ total \in [Calls -> Nat]
    /\ job \in [Nodes -> [Calls -> {"none", "pending", "done"}]]
    /\ told \in [Nodes -> [Calls -> Nat]]

\* Nobody has an event that was not announced, an announced event counts at
\* least the node that sends it, and a node has redirected for it what its
\* share allows, or nothing yet.
EventShape ==
    /\ \A c \in Calls : pc[c] # "announced" => \A n \in Nodes : job[n][c] = "none"
    /\ \A c \in Calls : pc[c] \in {"produce", "announced"} => total[c] >= 1
    /\ \A n \in Nodes, c \in Calls : (pc[c] # "done" /\ job[n][c] # "done") => told[n][c] = 0
    /\ \A n \in Nodes, c \in Calls :
         job[n][c] = "done" => total[c] * told[n][c] <= Len(n) + total[c] - 1

EventIInv == EventTyped /\ EventShape

-----------------------------------------------------------------------------
(* Natural numbers and finite sets.  The induction principle is about a    *)
(* set, so that the provers can instantiate it.                            *)

\* A set with 0 and the successors of its members has all natural numbers.
LEMMA NatInduct ==
  ASSUME NEW T \in SUBSET Nat, 0 \in T, \A k \in T : k + 1 \in T PROVE \A k \in Nat : k \in T
<1> DEFINE R == {ss \in Nat \X Nat : ss[1] < ss[2]}
           Rest == Nat \ T
<1>1. IsWellFoundedOn(R, Nat)
  BY NatLessThanWellFounded, Zenon DEF OpToRel
<1>2. SUFFICES ASSUME Rest # {} PROVE FALSE
  OBVIOUS
<1>3. PICK x \in Rest : \A y \in Rest : ~(<<y, x>> \in R)
  <2>1. Rest \subseteq Nat
    OBVIOUS
  <2> HIDE DEF R, Rest
  <2> QED BY <1>1, <1>2, <2>1, WFMin
<1>4. x \in Nat /\ x # 0 /\ x - 1 \in Nat
  BY <1>3
<1>5. <<x - 1, x>> \in R
  BY <1>4
<1>6. x - 1 \in T
  BY <1>3, <1>4, <1>5
<1> QED BY <1>3, <1>4, <1>6

\* Removing a member of a finite set.
LEMMA Smaller ==
  ASSUME NEW S, IsFiniteSet(S), NEW x \in S
  PROVE  /\ IsFiniteSet(S \ {x}) /\ Cardinality(S) \in Nat /\ Cardinality(S \ {x}) \in Nat
         /\ Cardinality(S \ {x}) = Cardinality(S) - 1
<1>1. IsFiniteSet(S \ {x}) /\ Cardinality(S \ {x}) = Cardinality(S) - 1
  BY FS_RemoveElement
<1> QED BY <1>1, FS_CardinalityType

\* A finite set of numbers has a maximum.
LEMMA MaxExists ==
  ASSUME NEW S \in SUBSET Nat, IsFiniteSet(S), S # {}
  PROVE  Max(S) \in S /\ \A y \in S : Max(S) >= y
<1> DEFINE Bounded(k) == \A A \in SUBSET Nat :
             (IsFiniteSet(A) /\ Cardinality(A) = k /\ A # {}) => \E m \in A : \A y \in A : m >= y
           T == {k \in Nat : Bounded(k)}
<1>1. 0 \in T
  BY FS_EmptySet
<1>2. ASSUME NEW k \in T PROVE k + 1 \in T
  <2> SUFFICES ASSUME NEW A \in SUBSET Nat, IsFiniteSet(A), Cardinality(A) = k + 1, A # {}
               PROVE  \E m \in A : \A y \in A : m >= y
    OBVIOUS
  <2>1. PICK x \in A : TRUE
    OBVIOUS
  <2>2. IsFiniteSet(A \ {x}) /\ Cardinality(A \ {x}) = k
    BY Smaller
  <2>3. CASE A \ {x} = {}
    BY <2>3
  <2>4. CASE A \ {x} # {}
    <3>1. PICK m \in A \ {x} : \A y \in A \ {x} : m >= y
      BY <2>2, <2>4
    <3> QED BY <3>1
  <2> QED BY <2>3, <2>4
<1>3. \A k \in Nat : k \in T
  <2> HIDE DEF T
  <2>1. T \in SUBSET Nat
    BY DEF T
  <2> QED BY <1>1, <1>2, <2>1, NatInduct
<1>4. Cardinality(S) \in Nat
  BY FS_CardinalityType
<1>5. \E m \in S : \A y \in S : m >= y
  BY <1>3, <1>4
<1> QED BY <1>5 DEF Max

\* The number of a new node is positive and not registered.
LEMMA NextNodeFacts ==
  ASSUME reg \in SUBSET Nat, IsFiniteSet(reg) PROVE nextNodeID \in Nat \ {0} /\ nextNodeID \notin reg
<1> DEFINE S == reg \union {DefaultStartNodeID}
<1>1. S \in SUBSET Nat /\ S # {}
  BY DEF DefaultStartNodeID
<1>2. IsFiniteSet(S)
  BY FS_AddElement
<1>3. Max(S) \in S /\ \A y \in S : Max(S) >= y
  <2> HIDE DEF S
  <2> QED BY <1>1, <1>2, MaxExists
<1> QED BY <1>1, <1>3 DEF nextNodeID

-----------------------------------------------------------------------------
(* The requests and the cluster.                                           *)

\* At the start no request has been made.
LEMMA ClusterInit == Init => ClusterIInv
<1> SUFFICES ASSUME Init PROVE ClusterIInv
  OBVIOUS
<1> QED BY ScalingAssumption DEF ScalingAssumption, Init, ClusterIInv, ClusterTyped, OwnerShape,
           ReadyShape, Owner

\* A request under the lock: it owns nothing before ContainerCreate, which
\* gives it a name that nobody has.
LEMMA ClusterCreate ==
  ASSUME ClusterIInv, NEW c \in Calls,
         \/ Webhook(c) \/ TryLock(c) \/ LockFails(c) \/ FindLatestImage(c)
         \/ getNextAvailableNodeIDAndPort(c) \/ ContainerCreate(c) \/ ContainerStart(c)
         \/ CreateFails(c)
  PROVE  ClusterIInv'
<1> USE DEF ClusterIInv, ClusterTyped, OwnerShape, ReadyShape, Owner, Goto, clusterVars
<1>1. CASE Webhook(c) \/ TryLock(c) \/ LockFails(c) \/ FindLatestImage(c)
  <2>1. PICK l \in {"lock", "list", "image", "done", "number", "unlock"} :
          /\ pc' = [pc EXCEPT ![c] = l]
          /\ l = "unlock" => pc[c] = "image"
          /\ pc[c] \in {"idle", "lock", "image"}
          /\ UNCHANGED <<node, names, up, reg>>
    BY <1>1 DEF Webhook, TryLock, LockFails, FindLatestImage
  <2>2. ClusterTyped'
    BY <2>1
  <2>3. \A d \in Calls : (Owner(d)' => Owner(d) /\ pc'[d] = pc[d])
    BY <2>1
  <2>4. OwnerShape'
    BY <2>1, <2>3
  <2>5. ReadyShape'
    BY <2>1, <2>3
  <2> QED BY <2>2, <2>4, <2>5
<1>2. CASE getNextAvailableNodeIDAndPort(c)
  <2>1. nextNodeID \in Nat
    BY NextNodeFacts
  <2> QED BY <1>2, <2>1 DEF getNextAvailableNodeIDAndPort
<1>3. CASE ContainerCreate(c)
  <2>1. /\ pc[c] = "create" /\ pc' = [pc EXCEPT ![c] = "start"] /\ node[c] \notin names
        /\ names' = names \union {node[c]} /\ UNCHANGED <<node, up, reg>>
    BY <1>3 DEF ContainerCreate
  <2>2. \A d \in Calls : IF d = c THEN pc'[d] = "start" ELSE pc'[d] = pc[d]
    BY <2>1
  <2>3. ClusterTyped'
    <3> HIDE DEF OwnerShape, ReadyShape
    <3>1. names' \in SUBSET Nat
      BY <2>1
    <3> QED BY <2>1, <3>1
  <2>4. OwnerShape'
    <3>1. \A d \in Calls : Owner(d)' => (Owner(d) \/ d = c)
      BY <2>1, <2>2
    <3>2. \A d \in Calls : Owner(d)' => node[d] \in names'
      BY <2>1, <3>1
    <3>3. \A d, e \in Calls : (Owner(d)' /\ Owner(e)' /\ node[d] = node[e]) => d = e
      BY <2>1, <3>1
    <3> QED BY <2>1, <2>2, <3>2, <3>3
  <2>5. ReadyShape'
    BY <2>1
  <2> QED BY <2>3, <2>4, <2>5
<1>4. CASE ContainerStart(c)
  <2>1. /\ pc[c] = "start" /\ pc' = [pc EXCEPT ![c] = "wait"] /\ up' = up \union {node[c]}
        /\ UNCHANGED <<node, names, reg>>
    BY <1>4 DEF ContainerStart
  <2>2. \A d \in Calls : Owner(d)' <=> Owner(d)
    BY <2>1
  <2>3. \A d \in Calls : (Owner(d) /\ d # c) => node[d] # node[c]
    BY <2>1
  <2>4. ClusterTyped' /\ OwnerShape'
    BY <2>1, <2>2
  <2>5. ReadyShape'
    BY <2>1, <2>2, <2>3
  <2> QED BY <2>4, <2>5
<1>5. CASE CreateFails(c)
  BY <1>5 DEF CreateFails, NoNewNode
<1> QED BY <1>1, <1>2, <1>3, <1>4, <1>5

\* A request after it has started its container.
LEMMA ClusterAnnounce ==
  ASSUME ClusterIInv, NEW c \in Calls,
         \/ Registered(c) \/ WaitTimeout(c) \/ releaseScalingLock(c) \/ CloseSession(c)
         \/ Count(c) \/ Produce(c) \/ AnnounceFails(c) \/ List(c) \/ Redirect(c)
  PROVE  ClusterIInv'
<1> USE DEF ClusterIInv, ClusterTyped, OwnerShape, ReadyShape, Owner, Goto, clusterVars
<1>1. CASE Registered(c)
  BY <1>1 DEF Registered, findRegisteredNodes, GetAvailableNodes
<1>2. CASE WaitTimeout(c)
  BY <1>2 DEF WaitTimeout, WaitEnds
<1>3. CASE releaseScalingLock(c)
  BY <1>3 DEF releaseScalingLock
<1>4. CASE CloseSession(c)
  BY <1>4 DEF CloseSession
<1>5. CASE Count(c) \/ Produce(c)
  BY <1>5 DEF Count, Produce
<1>6. CASE AnnounceFails(c)
  BY <1>6 DEF AnnounceFails
<1>7. CASE List(c) \/ Redirect(c)
  BY <1>7 DEF List, Redirect
<1> QED BY <1>1, <1>2, <1>3, <1>4, <1>5, <1>6, <1>7

\* The containers: one that ends keeps its name.
LEMMA ClusterNodes ==
  ASSUME ClusterIInv, NEW n \in Nodes, Boot(n) \/ Die(n) \/ NodeExpires(n) PROVE ClusterIInv'
<1> USE DEF ClusterIInv, ClusterTyped, OwnerShape, ReadyShape, Owner, scalerVars
<1>1. CASE Boot(n)
  <2>1. IsFiniteSet(reg \union {n})
    BY FS_AddElement
  <2> QED BY <1>1, <2>1 DEF Boot
<1>2. CASE Die(n)
  <2>1. /\ up' = up \ {n} /\ UNCHANGED <<names, reg>>
        /\ pc' \in [Calls -> {"idle", "lock", "image", "number", "create", "start", "wait", "unlock",
                         "close", "count", "produce", "announced", "list", "redirect", "done"}]
        /\ node' \in [Calls -> Nat]
        /\ \A c \in Calls : \/ pc'[c] = "done"
                            \/ pc'[c] = pc[c] /\ node'[c] = node[c]
    BY <1>2 DEF Die
  <2>2. \A c \in Calls : Owner(c)' => Owner(c) /\ pc'[c] = pc[c] /\ node'[c] = node[c]
    BY <2>1
  <2>3. OwnerShape'
    BY <2>1, <2>2
  <2>4. ReadyShape'
    BY <2>1, <2>2
  <2> QED BY <2>1, <2>3, <2>4
<1>3. CASE NodeExpires(n)
  <2>1. IsFiniteSet(reg \ {n})
    BY FS_Subset
  <2> QED BY <1>3, <2>1 DEF NodeExpires
<1> QED BY <1>1, <1>2, <1>3

\* Every step preserves the invariant of the cluster.
LEMMA ClusterNext == ClusterIInv /\ [Next]_vars => ClusterIInv'
<1> SUFFICES ASSUME ClusterIInv, [Next]_vars PROVE ClusterIInv'
  OBVIOUS
<1> USE DEF ClusterIInv, ClusterTyped, OwnerShape, ReadyShape, Owner
<1>1. CASE UNCHANGED vars
  BY <1>1 DEF vars, scalerVars, clusterVars
<1>2. ASSUME NEW c \in Calls, LeaseExpires(c) PROVE ClusterIInv'
  BY <1>2 DEF LeaseExpires, clusterVars
<1>3. ASSUME NEW n \in Nodes, NEW c \in Calls, ConsumeScaleUp(n, c) PROVE ClusterIInv'
  BY <1>3 DEF ConsumeScaleUp, scalerVars, clusterVars
<1> HIDE DEF ClusterIInv
<1> QED BY <1>1, <1>2, <1>3, ClusterCreate, ClusterAnnounce, ClusterNodes DEF Next, Request

\* The invariant of the cluster holds of every behaviour.
LEMMA ClusterInvariant == Spec => []ClusterIInv
  BY ClusterInit, ClusterNext, PTL DEF Spec

\* Two alerts that got the same number from the registry do not announce the
\* same node, also when the lease of the lock ran out in the middle of ScaleUp.
THEOREM ScalingAnnouncedOnce == Spec => []AnnouncedOnce
<1>1. ClusterIInv => AnnouncedOnce
  BY DEF ClusterIInv, OwnerShape, Owner, AnnouncedOnce, Announced
<1> QED BY <1>1, ClusterInvariant, PTL

\* waitForNodesRegistration has seen the node that Service.ScaleUp announces,
\* and its record stays for as long as it runs.
THEOREM ScalingAnnouncedIsReady == Spec => []AnnouncedIsReady
<1>1. ClusterIInv => AnnouncedIsReady
  BY DEF ClusterIInv, ReadyShape, Owner, AnnouncedIsReady, Announced
<1> QED BY <1>1, ClusterInvariant, PTL

-----------------------------------------------------------------------------
(* The arithmetic of the share.                                            *)

\* The quotient of two natural numbers.
LEMMA DivFacts ==
  ASSUME NEW a \in Nat, NEW t \in Nat \ {0}
  PROVE  a \div t \in Nat /\ t * (a \div t) <= a /\ a < t * (a \div t) + t
  OBVIOUS

\* The smaller of two numbers.
LEMMA MinFacts ==
  ASSUME NEW a \in Nat, NEW b \in Nat PROVE Min({a, b}) \in Nat /\ Min({a, b}) <= a
<1>1. \E x \in {a, b} : \A y \in {a, b} : x <= y
  OBVIOUS
<1> QED BY <1>1 DEF Min

\* Of m links a node that counts t nodes gives a new one at most m / t,
\* rounded up.
LEMMA ShareFacts ==
  ASSUME NEW m \in Nat, NEW t \in Nat \ {0}
  PROVE  Share(m, t, 1) \in Nat /\ t * Share(m, t, 1) <= m + t - 1
<1>1. PICK a \in Nat : a = m * (t - 1) /\ a = m * t - m
  OBVIOUS
<1>2. PICK q \in Nat : q = a \div t /\ t * q <= a /\ a < t * q + t
  BY DivFacts
<1>3. Share(m, t, 1) = m - q
  BY <1>1, <1>2 DEF Share
<1>4. t * (m - q) = t * m - t * q /\ t * m = m * t
  OBVIOUS
<1>5. q <= m
  <2> SUFFICES ASSUME q >= m + 1 PROVE FALSE
    OBVIOUS
  <2>1. t * q >= t * (m + 1) /\ t * (m + 1) = m * t + t
    OBVIOUS
  <2> QED BY <2>1, <1>1, <1>2
<1>6. m - q \in Nat
  BY <1>5
<1>7. t * (m - q) <= m + t - 1
  BY <1>1, <1>2, <1>4
<1> QED BY <1>3, <1>6, <1>7

-----------------------------------------------------------------------------
(* The scale-up events.                                                    *)

\* The number of links of a node.
LEMMA LenType == ASSUME NEW n PROVE Len(n) \in Nat
  BY ScalingAssumption DEF ScalingAssumption, Len

\* What the selector takes for one new node.
LEMMA SelectFacts ==
  ASSUME NEW n, NEW t \in Nat \ {0}, NEW x
  PROVE  /\ RandomSelect(Share(Len(n), t, Cardinality({x})), Len(n)) \in Nat
         /\ t * RandomSelect(Share(Len(n), t, Cardinality({x})), Len(n)) <= Len(n) + t - 1
<1>1. Cardinality({x}) = 1
  BY FS_Singleton
<1>2. PICK m \in Nat : m = Len(n)
  BY LenType
<1>3. PICK s \in Nat : s = Share(m, t, 1) /\ t * s <= m + t - 1
  BY ShareFacts
<1>4. PICK r \in Nat : r = RandomSelect(s, m) /\ r <= s
  BY MinFacts DEF RandomSelect
<1>5. t * r <= t * s /\ t * r \in Nat /\ t * s \in Nat
  BY <1>4
<1> QED BY <1>1, <1>2, <1>3, <1>4, <1>5

\* At the start there are no events.
LEMMA EventInit == Init => EventIInv
<1> SUFFICES ASSUME Init PROVE EventIInv
  OBVIOUS
<1>1. EventTyped
  BY DEF Init, EventTyped
<1>2. EventShape
  BY DEF Init, EventShape
<1> QED BY <1>1, <1>2 DEF EventIInv

\* A request before its event, or without one.
LEMMA EventBefore ==
  ASSUME ClusterIInv, EventIInv, NEW c \in Calls,
         \/ Webhook(c) \/ TryLock(c) \/ LockFails(c) \/ FindLatestImage(c)
         \/ getNextAvailableNodeIDAndPort(c) \/ ContainerCreate(c) \/ ContainerStart(c)
         \/ CreateFails(c) \/ Registered(c) \/ WaitTimeout(c) \/ releaseScalingLock(c)
         \/ CloseSession(c) \/ List(c)
  PROVE  EventIInv'
<1>1. \E l \in {"lock", "list", "image", "done", "number", "create", "start", "wait", "unlock",
                "close", "count", "redirect"} : pc' = [pc EXCEPT ![c] = l]
  BY DEF Webhook, TryLock, LockFails, FindLatestImage, getNextAvailableNodeIDAndPort,
         ContainerCreate, ContainerStart, CreateFails, NoNewNode, Registered, WaitTimeout,
         releaseScalingLock, CloseSession, List, Goto
<1>2. pc[c] \notin {"announced", "done"} /\ UNCHANGED <<total, job, told>>
  BY DEF Webhook, TryLock, LockFails, FindLatestImage, getNextAvailableNodeIDAndPort,
         ContainerCreate, ContainerStart, CreateFails, NoNewNode, Registered, WaitTimeout, WaitEnds,
         releaseScalingLock, CloseSession, List, eventVars
<1>3. EventTyped'
  BY <1>2 DEF EventIInv, EventTyped
<1>4. EventShape'
  BY <1>1, <1>2 DEF EventIInv, EventShape, ClusterIInv, ClusterTyped
<1> QED BY <1>3, <1>4 DEF EventIInv

\* Counting, announcing, failing to, and redirecting without an event.
LEMMA EventAnnounce ==
  ASSUME ClusterIInv, EventIInv, NEW c \in Calls,
         Count(c) \/ Produce(c) \/ AnnounceFails(c) \/ Redirect(c)
  PROVE  EventIInv'
<1> USE DEF ClusterIInv, ClusterTyped, EventIInv, EventTyped, EventShape, Goto
<1>1. CASE Count(c)
  <2>1. PICK k \in Nat : k = Cardinality(GetAvailableNodes(HostOf[c]))
    BY FS_Subset, FS_CardinalityType DEF GetAvailableNodes
  <2>2. /\ pc[c] = "count" /\ pc' = [pc EXCEPT ![c] = "produce"]
        /\ total' = [total EXCEPT ![c] = k + 1] /\ UNCHANGED <<job, told>>
    BY <1>1, <2>1 DEF Count
  <2>3. EventTyped'
    BY <2>2
  <2>4. \A n \in Nodes : job[n][c] = "none"
    BY <2>2
  <2>5. EventShape'
    BY <2>2, <2>4
  <2> QED BY <2>3, <2>5
<1>2. CASE Produce(c)
  <2>1. /\ pc[c] = "produce" /\ pc' = [pc EXCEPT ![c] = "announced"] /\ UNCHANGED <<total, told>>
        /\ job' = [n \in Nodes |-> [job[n] EXCEPT ![c] = IF n \in up THEN "pending" ELSE "none"]]
    BY <1>2 DEF Produce
  <2>2. EventTyped'
    BY <2>1
  <2>3. /\ \A n \in Nodes : job'[n][c] \in {"pending", "none"} /\ job[n][c] = "none"
        /\ \A n \in Nodes, d \in Calls : d # c => job'[n][d] = job[n][d]
    BY <2>1
  <2>4. EventShape'
    BY <2>1, <2>3
  <2> QED BY <2>2, <2>4
<1>3. CASE AnnounceFails(c)
  <2>1. /\ pc[c] \in {"count", "produce"} /\ pc' = [pc EXCEPT ![c] = "done"]
        /\ total' = [total EXCEPT ![c] = 0] /\ UNCHANGED <<job, told>>
    BY <1>3 DEF AnnounceFails
  <2>2. \A n \in Nodes : job[n][c] = "none"
    BY <2>1
  <2>3. EventTyped'
    BY <2>1
  <2>4. EventShape'
    BY <2>1, <2>2
  <2> QED BY <2>3, <2>4
<1>4. CASE Redirect(c)
  <2>1. PICK v \in Nat : v = PercentSelect(Len(HostOf[c]))
    <3>1. PICK m \in Nat : m = Len(HostOf[c])
      BY LenType
    <3>2. m * Percent \in Nat /\ (m * Percent) \div 100 \in Nat
      BY DivFacts, ScalingAssumption DEF ScalingAssumption
    <3> QED BY <3>1, <3>2, MinFacts DEF PercentSelect, RandomSelect
  <2>2. /\ pc[c] = "redirect" /\ pc' = [pc EXCEPT ![c] = "done"] /\ UNCHANGED <<total, job>>
        /\ told' \in {told, [told EXCEPT ![HostOf[c]][c] = v]}
    BY <1>4, <2>1 DEF Redirect
  <2>3. EventTyped'
    <3>1. CASE told' = told
      BY <2>2, <3>1
    <3>2. CASE told' = [told EXCEPT ![HostOf[c]][c] = v]
      BY <2>2, <3>2
    <3> QED BY <2>2, <3>1, <3>2
  <2>4. \A n \in Nodes, d \in Calls : d # c => told'[n][d] = told[n][d]
    <3>1. CASE told' = told
      BY <3>1
    <3>2. CASE told' = [told EXCEPT ![HostOf[c]][c] = v]
      BY <3>2
    <3> QED BY <2>2, <3>1, <3>2
  <2>5. \A n \in Nodes : job[n][c] = "none"
    BY <2>2
  <2>6. EventShape'
    <3>1. \A n \in Nodes, d \in Calls :
            job'[n][d] = "done" => total'[d] * told'[n][d] <= Len(n) + total'[d] - 1
      BY <2>2, <2>4, <2>5
    <3>2. \A d \in Calls : IF d = c THEN pc'[d] = "done" ELSE pc'[d] = pc[d]
      BY <2>2
    <3>3. \A n \in Nodes, d \in Calls : (pc'[d] # "done" /\ job'[n][d] # "done") => told'[n][d] = 0
      BY <2>2, <2>4, <3>2
    <3>4. \A d \in Calls : pc'[d] # "announced" => \A n \in Nodes : job'[n][d] = "none"
      BY <2>2, <2>5, <3>2
    <3>5. \A d \in Calls : pc'[d] \in {"produce", "announced"} => total'[d] >= 1
      BY <2>2, <3>2
    <3> QED BY <3>1, <3>3, <3>4, <3>5 DEF Len
  <2> QED BY <2>3, <2>6
<1> QED BY <1>1, <1>2, <1>3, <1>4

\* A node handles an event: the new node ignores it, another redirects its
\* share.
LEMMA EventConsume ==
  ASSUME ClusterIInv, EventIInv, NEW n \in Nodes, NEW c \in Calls, ConsumeScaleUp(n, c)
  PROVE  EventIInv'
<1> USE DEF ClusterIInv, ClusterTyped, EventIInv, EventTyped, EventShape
<1>1. /\ job[n][c] = "pending" /\ job' = [job EXCEPT ![n][c] = "done"] /\ UNCHANGED <<pc, total>>
  BY DEF ConsumeScaleUp, scalerVars
<1>2. /\ pc[c] = "announced" /\ total[c] \in Nat \ {0} /\ told[n][c] = 0
  BY <1>1
<1>3. PICK v \in Nat : /\ told' = [told EXCEPT ![n][c] = v]
                       /\ total[c] * v <= Len(n) + total[c] - 1
  <2>1. CASE n \in NewNodes(c)
    <3>1. told' = told
      BY <2>1 DEF ConsumeScaleUp
    <3>2. told' = [told EXCEPT ![n][c] = 0]
      BY <3>1, <1>2
    <3>3. total[c] * 0 <= Len(n) + total[c] - 1
      BY <1>2, LenType
    <3> QED BY <3>2, <3>3
  <2>2. CASE n \notin NewNodes(c)
    <3>1. told' = [told EXCEPT ![n][c] =
                     RandomSelect(Share(Len(n), total[c], Cardinality({node[c]})), Len(n))]
      BY <2>2 DEF ConsumeScaleUp, NewNodes
    <3> QED BY <3>1, <1>2, SelectFacts
  <2> QED BY <2>1, <2>2
<1>4. EventTyped'
  BY <1>1, <1>3
<1>5. \A m \in Nodes, d \in Calls :
        IF m = n /\ d = c THEN job'[m][d] = "done" /\ told'[m][d] = v
                          ELSE job'[m][d] = job[m][d] /\ told'[m][d] = told[m][d]
  BY <1>1, <1>3
<1>6. EventShape'
  <2>1. ASSUME NEW d \in Calls, pc'[d] # "announced", NEW m \in Nodes PROVE job'[m][d] = "none"
    BY <1>1, <1>2, <1>5, <2>1
  <2>2. \A d \in Calls : pc'[d] \in {"produce", "announced"} => total'[d] >= 1
    BY <1>1
  <2>3. ASSUME NEW m \in Nodes, NEW d \in Calls, pc'[d] # "done", job'[m][d] # "done"
        PROVE  told'[m][d] = 0
    BY <1>1, <1>5, <2>3
  <2>4. ASSUME NEW m \in Nodes, NEW d \in Calls, job'[m][d] = "done"
        PROVE  total'[d] * told'[m][d] <= Len(m) + total'[d] - 1
    <3>1. CASE m = n /\ d = c
      BY <3>1, <1>1, <1>3, <1>5
    <3>2. CASE ~(m = n /\ d = c)
      BY <3>2, <2>4, <1>1, <1>5
    <3> QED BY <3>1, <3>2
  <2> QED BY <2>1, <2>2, <2>3, <2>4 DEF Len
<1> QED BY <1>4, <1>6

\* A node that starts may get the events of the past; one that ends takes the
\* requests with it that have announced nothing.
LEMMA EventNodes ==
  ASSUME ClusterIInv, EventIInv, NEW n \in Nodes, Boot(n) \/ Die(n) \/ NodeExpires(n)
  PROVE  EventIInv'
<1> USE DEF ClusterIInv, ClusterTyped, EventIInv, EventTyped, EventShape
<1>1. CASE Boot(n)
  <2>1. PICK old \in BOOLEAN :
          job' = [job EXCEPT ![n] = [c \in Calls |->
                   IF old /\ pc[c] = "announced" /\ job[n][c] = "none" THEN "pending" ELSE job[n][c]]]
    BY <1>1 DEF Boot
  <2>2. UNCHANGED <<pc, total, told>>
    BY <1>1 DEF Boot, scalerVars
  <2>3. job' \in [Nodes -> [Calls -> {"none", "pending", "done"}]]
    BY <2>1
  <2>4. \A m \in Nodes, c \in Calls :
          \/ job'[m][c] = job[m][c]
          \/ pc[c] = "announced" /\ job[m][c] = "none" /\ job'[m][c] = "pending"
    BY <2>1
  <2>5. EventTyped'
    BY <2>2, <2>3
  <2>6. \A m \in Nodes, c \in Calls :
          job'[m][c] = "done" => total'[c] * told'[m][c] <= Len(m) + total'[c] - 1
    BY <2>2, <2>4
  <2>7. \A c \in Calls : pc'[c] # "announced" => \A m \in Nodes : job'[m][c] = "none"
    BY <2>2, <2>4
  <2>8. \A c \in Calls : pc'[c] \in {"produce", "announced"} => total'[c] >= 1
    BY <2>2
  <2>9. \A m \in Nodes, c \in Calls : (pc'[c] # "done" /\ job'[m][c] # "done") => told'[m][c] = 0
    BY <2>2, <2>4
  <2>10. EventShape'
    BY <2>6, <2>7, <2>8, <2>9 DEF Len
  <2> QED BY <2>5, <2>10
<1>2. CASE Die(n)
  <2>1. /\ UNCHANGED <<job, told>> /\ total' \in [Calls -> Nat]
    BY <1>2 DEF Die
  <2>2. \A c \in Calls : \/ pc'[c] = pc[c] /\ total'[c] = total[c]
                         \/ pc'[c] = "done" /\ pc[c] # "announced"
    BY <1>2 DEF Die
  <2>3. EventTyped'
    BY <2>2, <2>1
  <2>4. \A m \in Nodes, c \in Calls : job'[m][c] = "done" => pc'[c] = pc[c] /\ total'[c] = total[c]
    BY <2>2, <2>1
  <2>5. \A m \in Nodes, c \in Calls :
          job'[m][c] = "done" => total'[c] * told'[m][c] <= Len(m) + total'[c] - 1
    BY <2>2, <2>1, <2>4
  <2>6. \A c \in Calls : pc'[c] # "announced" => \A m \in Nodes : job'[m][c] = "none"
    BY <2>2, <2>1
  <2>7. \A c \in Calls : pc'[c] \in {"produce", "announced"} => total'[c] >= 1
    BY <2>2, <2>1
  <2>8. \A m \in Nodes, c \in Calls : (pc'[c] # "done" /\ job'[m][c] # "done") => told'[m][c] = 0
    BY <2>2, <2>1
  <2>9. EventShape'
    BY <2>5, <2>6, <2>7, <2>8 DEF Len
  <2> QED BY <2>3, <2>9
<1>3. CASE NodeExpires(n)
  <2>1. UNCHANGED <<pc, total, job, told>>
    BY <1>3 DEF NodeExpires, scalerVars, eventVars
  <2> QED BY <2>1 DEF Len
<1> QED BY <1>1, <1>2, <1>3

\* Every step preserves the invariant of the events.
LEMMA EventNext == ClusterIInv /\ EventIInv /\ [Next]_vars => EventIInv'
<1> SUFFICES ASSUME ClusterIInv, EventIInv, [Next]_vars PROVE EventIInv'
  OBVIOUS
<1>1. CASE UNCHANGED vars
  BY <1>1 DEF vars, scalerVars, eventVars, EventIInv, EventTyped, EventShape, Len
<1>2. ASSUME NEW c \in Calls, LeaseExpires(c) PROVE EventIInv'
  BY <1>2 DEF LeaseExpires, eventVars, EventIInv, EventTyped, EventShape, Len
<1> QED BY <1>1, <1>2, EventBefore, EventAnnounce, EventConsume, EventNodes DEF Next, Request

\* The invariant of the events holds of every behaviour.
LEMMA EventInvariant == Spec => []EventIInv
  BY EventInit, EventNext, ClusterInvariant, PTL DEF Spec

-----------------------------------------------------------------------------
(* Sums over a finite set.                                                 *)

\* Picks the next element to be added.
Next1(s) == CHOOSE x \in s : TRUE

\* f[s] is the sum of v over the subset s of D.
SumsUp(f, v, D) ==
    \A s \in SUBSET D : f[s] = IF s = {} THEN 0 ELSE v[Next1(s)] + f[s \ {Next1(s)}]

\* What the nodes in D have redirected for an event.
ToldBy(c, D) == MapThenSumSet(LAMBDA n : told[n][c], D)

\* The recursion that MapThenSumSet evaluates has a solution: by induction on
\* the size of the subsets.
LEMMA SumDefined ==
  ASSUME NEW D, IsFiniteSet(D), NEW v \in [D -> Int]
  PROVE  \E f \in [SUBSET D -> Int] : SumsUp(f, v, D)
<1> DEFINE Upto(k) == {s \in SUBSET D : Cardinality(s) <= k}
           Solves(f, k) == \A s \in Upto(k) :
                             f[s] = IF s = {} THEN 0 ELSE v[Next1(s)] + f[s \ {Next1(s)}]
           T == {k \in Nat : \E f \in [Upto(k) -> Int] : Solves(f, k)}
<1>1. \A s \in SUBSET D : s # {} =>
        /\ Next1(s) \in s /\ s \ {Next1(s)} \in SUBSET D
        /\ Cardinality(s) \in Nat /\ Cardinality(s \ {Next1(s)}) \in Nat
        /\ Cardinality(s \ {Next1(s)}) = Cardinality(s) - 1
  <2> SUFFICES ASSUME NEW s \in SUBSET D, s # {}
               PROVE  /\ Next1(s) \in s /\ s \ {Next1(s)} \in SUBSET D
                      /\ Cardinality(s) \in Nat /\ Cardinality(s \ {Next1(s)}) \in Nat
                      /\ Cardinality(s \ {Next1(s)}) = Cardinality(s) - 1
    OBVIOUS
  <2>1. Next1(s) \in s
    BY DEF Next1
  <2>2. IsFiniteSet(s)
    BY FS_Subset
  <2> QED BY <2>1, <2>2, Smaller
<1>2. Cardinality({}) = 0 /\ {} \in SUBSET D
  BY FS_EmptySet
<1>3. 0 \in T
  <2>1. \A s \in Upto(0) : s = {}
    <3> SUFFICES ASSUME NEW s \in SUBSET D, Cardinality(s) <= 0, s # {} PROVE FALSE
      OBVIOUS
    <3>1. Cardinality(s) \in Nat /\ Cardinality(s) - 1 \in Nat
      BY <1>1
    <3> QED BY <3>1
  <2>2. [s \in Upto(0) |-> 0] \in [Upto(0) -> Int] /\ Solves([s \in Upto(0) |-> 0], 0)
    BY <2>1
  <2> QED BY <2>2
<1>4. ASSUME NEW k \in T PROVE k + 1 \in T
  <2>1. PICK f \in [Upto(k) -> Int] : Solves(f, k)
    OBVIOUS
  <2> DEFINE g == [s \in Upto(k + 1) |-> IF s = {} THEN 0 ELSE v[Next1(s)] + f[s \ {Next1(s)}]]
  <2>2. \A s \in Upto(k + 1) : s # {} => s \ {Next1(s)} \in Upto(k) /\ Next1(s) \in D
    BY <1>1
  <2>3. g \in [Upto(k + 1) -> Int]
    BY <2>2
  <2>4. \A s \in Upto(k) : s \in Upto(k + 1) /\ g[s] = f[s]
    <3> SUFFICES ASSUME NEW s \in Upto(k) PROVE s \in Upto(k + 1) /\ g[s] = f[s]
      OBVIOUS
    <3>1. s \in Upto(k + 1)
      <4>1. Cardinality(s) \in Nat
        BY FS_Subset, FS_CardinalityType
      <4> QED BY <4>1
    <3>2. f[s] = IF s = {} THEN 0 ELSE v[Next1(s)] + f[s \ {Next1(s)}]
      BY <2>1
    <3> QED BY <3>1, <3>2
  <2>5. Solves(g, k + 1)
    <3> SUFFICES ASSUME NEW s \in Upto(k + 1)
                 PROVE  g[s] = IF s = {} THEN 0 ELSE v[Next1(s)] + g[s \ {Next1(s)}]
      OBVIOUS
    <3>1. g[s] = IF s = {} THEN 0 ELSE v[Next1(s)] + f[s \ {Next1(s)}]
      OBVIOUS
    <3>2. s # {} => g[s \ {Next1(s)}] = f[s \ {Next1(s)}]
      BY <2>2, <2>4
    <3> QED BY <3>1, <3>2
  <2>6. k + 1 \in Nat
    OBVIOUS
  <2> HIDE DEF g, Upto, Solves
  <2> QED BY <2>3, <2>5, <2>6
<1>5. \A k \in Nat : k \in T
  <2> HIDE DEF T
  <2>1. T \in SUBSET Nat
    BY DEF T
  <2> QED BY <1>3, <1>4, <2>1, NatInduct
<1>6. Cardinality(D) \in Nat
  BY FS_CardinalityType
<1>7. Upto(Cardinality(D)) = SUBSET D
  BY FS_Subset
<1>8. PICK f \in [Upto(Cardinality(D)) -> Int] : Solves(f, Cardinality(D))
  <2> HIDE DEF Upto, Solves
  <2> QED BY <1>5, <1>6
<1> QED BY <1>7, <1>8 DEF SumsUp

\* What MapThenSumSet adds up for the redirected links of an event ...
LEMMA ToldSum ==
  ASSUME NEW c, NEW D, IsFiniteSet(D), \A n \in D : told[n][c] \in Int
  PROVE  \E f : /\ f[D] = ToldBy(c, D)
                /\ \A v \in [D -> Int] : (\A n \in D : v[n] = told[n][c]) => SumsUp(f, v, D)
<1> DEFINE Eq(f) == f = [s \in SUBSET D |-> IF s = {} THEN 0
                                            ELSE told[Next1(s)][c] + f[s \ {Next1(s)}]]
           F == CHOOSE f : Eq(f)
<1>1. PICK v \in [D -> Int] : \A n \in D : v[n] = told[n][c]
  <2>1. [n \in D |-> told[n][c]] \in [D -> Int]
    OBVIOUS
  <2> QED BY <2>1
<1>2. PICK g \in [SUBSET D -> Int] : SumsUp(g, v, D)
  BY SumDefined
<1>3. \A s \in SUBSET D : s # {} => Next1(s) \in D
  BY DEF Next1
<1>4. \A s \in SUBSET D : g[s] = IF s = {} THEN 0 ELSE told[Next1(s)][c] + g[s \ {Next1(s)}]
  BY <1>3, <1>1, <1>2 DEF SumsUp
<1>5. Eq(g)
  BY <1>4
<1>6. Eq(F)
  <2> HIDE DEF Eq
  <2> QED BY <1>5
<1>7. ToldBy(c, D) = F[D]
  BY DEF ToldBy, MapThenSumSet, MapThenFoldSet, Next1
<1>8. \A s \in SUBSET D : F[s] = IF s = {} THEN 0 ELSE told[Next1(s)][c] + F[s \ {Next1(s)}]
  <2> HIDE DEF F
  <2> QED BY <1>6
<1> HIDE DEF F
<1>9. ASSUME NEW u \in [D -> Int], \A n \in D : u[n] = told[n][c] PROVE SumsUp(F, u, D)
  BY <1>3, <1>8, <1>9 DEF SumsUp
<1> QED BY <1>7, <1>9

\* ... and for the links the nodes have.
LEMMA LenSum ==
  ASSUME NEW D, IsFiniteSet(D)
  PROVE  \E f : /\ f[D] = MapThenSumSet(Len, D)
                /\ \A v \in [D -> Int] : (\A n \in D : v[n] = Len(n)) => SumsUp(f, v, D)
<1> DEFINE Eq(f) == f = [s \in SUBSET D |-> IF s = {} THEN 0
                                            ELSE Len(Next1(s)) + f[s \ {Next1(s)}]]
           F == CHOOSE f : Eq(f)
<1>1. PICK v \in [D -> Int] : \A n \in D : v[n] = Len(n)
  <2>1. [n \in D |-> Len(n)] \in [D -> Int]
    BY LenType
  <2> QED BY <2>1
<1>2. PICK g \in [SUBSET D -> Int] : SumsUp(g, v, D)
  BY SumDefined
<1>3. \A s \in SUBSET D : s # {} => Next1(s) \in D
  BY DEF Next1
<1>4. \A s \in SUBSET D : g[s] = IF s = {} THEN 0 ELSE Len(Next1(s)) + g[s \ {Next1(s)}]
  BY <1>3, <1>1, <1>2 DEF SumsUp
<1>5. Eq(g)
  BY <1>4
<1>6. Eq(F)
  <2> HIDE DEF Eq
  <2> QED BY <1>5
<1>7. MapThenSumSet(Len, D) = F[D]
  BY DEF MapThenSumSet, MapThenFoldSet, Next1
<1>8. \A s \in SUBSET D : F[s] = IF s = {} THEN 0 ELSE Len(Next1(s)) + F[s \ {Next1(s)}]
  <2> HIDE DEF F
  <2> QED BY <1>6
<1> HIDE DEF F
<1>9. ASSUME NEW u \in [D -> Int], \A n \in D : u[n] = Len(n) PROVE SumsUp(F, u, D)
  BY <1>3, <1>8, <1>9 DEF SumsUp
<1> QED BY <1>7, <1>9

\* Two sums over a set are compared as their summands are.
LEMMA SumsCompared ==
  ASSUME NEW D, IsFiniteSet(D), NEW v \in [D -> Int], NEW w \in [D -> Int],
         NEW t \in Nat, NEW b \in Int, \A n \in D : t * v[n] <= w[n] + b,
         NEW f, SumsUp(f, v, D), NEW g, SumsUp(g, w, D)
  PROVE  t * f[D] <= g[D] + Cardinality(D) * b
<1> DEFINE Good(s) == f[s] \in Int /\ g[s] \in Int /\ t * f[s] <= g[s] + Cardinality(s) * b
           T == {k \in Nat : \A s \in SUBSET D : Cardinality(s) = k => Good(s)}
<1>1. 0 \in T
  <2> SUFFICES ASSUME NEW s \in SUBSET D, Cardinality(s) = 0 PROVE Good(s)
    OBVIOUS
  <2>1. s = {}
    BY FS_Subset, FS_EmptySet
  <2>2. f[s] = 0 /\ g[s] = 0
    BY <2>1 DEF SumsUp
  <2> QED BY <2>2
<1>2. ASSUME NEW k \in T PROVE k + 1 \in T
  <2> SUFFICES ASSUME NEW s \in SUBSET D, Cardinality(s) = k + 1 PROVE Good(s)
    OBVIOUS
  <2>1. IsFiniteSet(s)
    BY FS_Subset
  <2>2. s # {}
    BY <2>1, FS_EmptySet
  <2>3. PICK x \in D : x = Next1(s) /\ x \in s
    BY <2>2 DEF Next1
  <2>4. PICK r \in SUBSET D : r = s \ {x} /\ Cardinality(r) = k
    <3>1. k \in Nat
      OBVIOUS
    <3> HIDE DEF T
    <3>2. Cardinality(s \ {x}) = (k + 1) - 1
      BY <2>1, <2>3, Smaller
    <3>3. s \ {x} \in SUBSET D
      OBVIOUS
    <3> QED BY <3>1, <3>2, <3>3
  <2>5. Good(r)
    BY <2>4
  <2>6. f[s] = v[x] + f[r] /\ g[s] = w[x] + g[r]
    BY <2>2, <2>3, <2>4 DEF SumsUp
  <2>7. t * (v[x] + f[r]) = t * v[x] + t * f[r] /\ (k + 1) * b = k * b + b
    BY <2>5
  <2>8. t * v[x] \in Int /\ t * f[r] \in Int /\ k * b \in Int /\ v[x] \in Int /\ w[x] \in Int
    BY <2>5
  <2> QED BY <2>4, <2>5, <2>6, <2>7, <2>8
<1>3. \A k \in Nat : k \in T
  <2> HIDE DEF T
  <2>1. T \in SUBSET Nat
    BY DEF T
  <2> QED BY <1>1, <1>2, <2>1, NatInduct
<1> QED BY <1>3, FS_CardinalityType

\* What the nodes that have handled the event of a scale-up redirect together
\* is no more than the new node's share of their links, rounded up on each.
THEOREM ScalingNotFlooded == Spec => []NotFlooded
<1>1. ASSUME EventIInv, NEW c \in Announced
      PROVE  LET done == {n \in Nodes : job[n][c] = "done"}
             IN  total[c] * MapThenSumSet(LAMBDA n : told[n][c], done)
                   <= MapThenSumSet(Len, done) + Cardinality(done) * (total[c] - 1)
  <2>1. c \in Calls /\ total[c] \in Nat
    BY <1>1 DEF Announced, EventIInv, EventTyped
  <2>2. PICK D \in SUBSET Nodes : D = {n \in Nodes : job[n][c] = "done"}
    OBVIOUS
  <2>3. IsFiniteSet(D)
    <3>1. IsFiniteSet(Nodes)
      <4>1. Max(Static \union {DefaultStartNodeID}) + Cardinality(Calls) \in Int
        <5> DEFINE S == Static \union {DefaultStartNodeID}
        <5>1. S \in SUBSET Nat /\ S # {} /\ IsFiniteSet(S)
          BY ScalingAssumption, FS_AddElement DEF ScalingAssumption, DefaultStartNodeID
        <5>2. Max(S) \in Nat
          <6> HIDE DEF S
          <6> QED BY <5>1, MaxExists
        <5>3. Cardinality(Calls) \in Nat
          BY ScalingAssumption, FS_CardinalityType DEF ScalingAssumption
        <5> QED BY <5>2, <5>3
      <4> QED BY <4>1, FS_Interval DEF Nodes
    <3> QED BY <3>1, FS_Subset
  <2>4. PICK v \in [D -> Int] : \A n \in D : v[n] = told[n][c]
    <3>1. [n \in D |-> told[n][c]] \in [D -> Int]
      BY <1>1, <2>1 DEF EventIInv, EventTyped
    <3> QED BY <3>1
  <2>5. PICK w \in [D -> Int] : \A n \in D : w[n] = Len(n)
    <3>1. [n \in D |-> Len(n)] \in [D -> Int]
      BY LenType
    <3> QED BY <3>1
  <2>6. PICK t \in Nat : t = total[c]
    BY <2>1
  <2>7. PICK b \in Int : b = t - 1
    OBVIOUS
  <2>8. \A n \in D : t * v[n] <= w[n] + b
    <3> SUFFICES ASSUME NEW n \in D PROVE t * v[n] <= w[n] + b
      OBVIOUS
    <3>1. total[c] * told[n][c] <= Len(n) + total[c] - 1
      BY <1>1, <2>1, <2>2 DEF EventIInv, EventShape
    <3>2. v[n] = told[n][c] /\ w[n] = Len(n) /\ w[n] \in Int
      BY <2>4, <2>5
    <3> QED BY <3>1, <3>2, <2>6, <2>7
  <2>9. PICK f : f[D] = ToldBy(c, D) /\ SumsUp(f, v, D)
    <3>1. \A n \in D : told[n][c] \in Int
      BY <2>4
    <3> QED BY <2>3, <2>4, <3>1, ToldSum
  <2>10. PICK g : g[D] = MapThenSumSet(Len, D) /\ SumsUp(g, w, D)
    BY <2>3, <2>5, LenSum
  <2>11. t * f[D] <= g[D] + Cardinality(D) * b
    BY <2>3, <2>8, <2>9, <2>10, SumsCompared
  <2>12. total[c] * ToldBy(c, D) <= MapThenSumSet(Len, D) + Cardinality(D) * (total[c] - 1)
    BY <2>6, <2>7, <2>9, <2>10, <2>11
  <2> QED BY <2>2, <2>12 DEF ToldBy
<1>2. EventIInv => NotFlooded
  BY <1>1 DEF NotFlooded
<1> QED BY <1>2, EventInvariant, PTL
=============================================================================
