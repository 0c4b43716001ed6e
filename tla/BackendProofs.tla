---------------------------- MODULE BackendProofs ----------------------------
(***************************************************************************)
(* The way of an upstream message to its backend.  The handler             *)
(* deduplicates messages, for any number of links, keys and retries: one   *)
(* link works on a message at a time, and what is acknowledged was         *)
(* processed.  The balancer under its calls, for any addresses, node IDs,  *)
(* calls, bounds and capacities: the picker holds the ready connections,   *)
(* and no growth of a capacity is lost or counted twice.                   *)
(***************************************************************************)
EXTENDS Upstream, Balancer, SequenceTheorems, FiniteSetTheorems, WellFoundedInduction, TLAPS

-----------------------------------------------------------------------------
(* The handler.                                                            *)

\* A handler that got past cacheMessage has a message, whose entry is in the
\* cache and is removed by nobody else.
EntryHeld ==
    \A l \in Links : /\ h[l] # "idle" => key[l] \in Keys
                     /\ h[l] \notin {"idle", "cache"} => key[l] \in cache

\* Two handlers past cacheMessage have different messages.
Apart ==
    \A l, m \in Links :
        (h[l] \notin {"idle", "cache"} /\ h[m] \notin {"idle", "cache"} /\ key[l] = key[m]) => l = m

\* An acknowledgement is sent for what the backend has processed.
AckShape == AckMeansHandled /\ \A l \in Links : h[l] = "ack" => key[l] \in handled

UpIInv == TypeOK /\ EntryHeld /\ Apart /\ AckShape

\* Where the handler goes with an error, and that the error has its type.
LEMMA FailsFacts ==
    ASSUME NEW l \in Links, TypeOK,
           NEW e \in {"cache", "duplicate", "unknownBizID", "maxRetries", "marshal",
                      "encrypt", "linkClosed"},
           Fails(l, e)
    PROVE  /\ err' \in [Links -> {NoErr, "cache", "duplicate", "unknownBizID", "maxRetries",
                                  "marshal", "encrypt", "linkClosed"}]
           /\ \E s \in {"delete", "idle"} : h' = [h EXCEPT ![l] = s]
           /\ e \in {"cache", "duplicate"} => h' = [h EXCEPT ![l] = "idle"]
BY DEF Fails, Goto, shouldDeleteCacheOnError, TypeOK

\* At the start no handler is at work.
LEMMA UpInitIInv == Init => UpIInv
<1> SUFFICES ASSUME Init PROVE UpIInv
  OBVIOUS
<1>1. TypeOK
  <2>1. tries \in [Links -> 0..MaxRetries]
    BY UpstreamAssumption DEF Init
  <2>2. loaded \in [Links -> BOOLEAN] /\ config \in BOOLEAN /\ known \in BOOLEAN
    BY Zenon DEF Init
  <2> QED BY <2>1, <2>2 DEF Init, TypeOK
<1>2. EntryHeld /\ Apart /\ AckShape
  BY DEF Init, EntryHeld, Apart, AckShape, AckMeansHandled
<1> QED BY <1>1, <1>2 DEF UpIInv

\* A new message, and SetNX: the entry of a message is made by the one
\* handler that goes on with it.
LEMMA CacheIInv ==
    ASSUME UpIInv, NEW l \in Links,
           (\E k \in Keys : Arrive(l, k)) \/ CacheMessage(l) \/ CacheFails(l)
    PROVE  UpIInv'
<1> USE DEF UpIInv, TypeOK, EntryHeld, Apart, AckShape, AckMeansHandled
<1>1. ASSUME NEW k \in Keys, Arrive(l, k) PROVE UpIInv'
  BY <1>1, UpstreamAssumption DEF Arrive, clients, NoErr
<1>2. CASE CacheMessage(l)
  <2>1. CASE key[l] \in cache
    BY <1>2, <2>1, FailsFacts DEF CacheMessage, clients
  <2>2. CASE key[l] \notin cache
    BY <1>2, <2>2 DEF CacheMessage, Goto, clients
  <2> QED BY <2>1, <2>2
<1>3. CASE CacheFails(l)
  BY <1>3, FailsFacts DEF CacheFails, clients
<1> QED BY <1>1, <1>2, <1>3

\* The clients of the backends: the handler keeps its message and its entry.
LEMMA ClientsIInv ==
    ASSUME UpIInv,
           Configure \/ \E l \in Links : LoadClient(l) \/ Reload(l) \/ StoreClients(l) \/ Reloaded(l)
    PROVE  UpIInv'
<1> USE DEF UpIInv, TypeOK, EntryHeld, Apart, AckShape, AckMeansHandled, locals, clients
<1>1. CASE Configure
  BY <1>1 DEF Configure
<1>2. ASSUME NEW l \in Links, LoadClient(l) PROVE UpIInv'
  BY <1>2 DEF LoadClient, Goto
<1>3. ASSUME NEW l \in Links, Reload(l) PROVE UpIInv'
  BY <1>3 DEF Reload, Goto
<1>4. ASSUME NEW l \in Links, StoreClients(l) PROVE UpIInv'
  BY <1>4 DEF StoreClients, Goto
<1>5. ASSUME NEW l \in Links, Reloaded(l) PROVE UpIInv'
  BY <1>5, FailsFacts DEF Reloaded, Goto
<1> QED BY <1>1, <1>2, <1>3, <1>4, <1>5

\* The backend call with its retries.
LEMMA CallIInv == ASSUME UpIInv, NEW l \in Links, CallOK(l) \/ CallFails(l) PROVE UpIInv'
<1> USE UpstreamAssumption DEF UpIInv, TypeOK, EntryHeld, Apart, AckShape, AckMeansHandled,
                               locals, clients
<1>1. CASE CallOK(l)
  BY <1>1 DEF CallOK, Goto
<1>2. CASE CallFails(l)
  <2>1. CASE CanRetry(l)
    BY <1>2, <2>1 DEF CallFails, CanRetry
  <2>2. CASE ~CanRetry(l)
    BY <1>2, <2>2, FailsFacts DEF CallFails, GiveUp
  <2> QED BY <2>1, <2>2
<1> QED BY <1>1, <1>2

\* Acknowledgement and deletion: the entry that is deleted is one's own.
LEMMA EndIInv ==
    ASSUME UpIInv, NEW l \in Links,
           AckSent(l) \/ AckFails(l) \/ DeleteCached(l) \/ DeleteFails(l)
    PROVE  UpIInv'
<1> USE DEF UpIInv, TypeOK, EntryHeld, Apart, AckShape, AckMeansHandled, locals, clients
<1>1. CASE AckSent(l)
  BY <1>1 DEF AckSent, Goto
<1>2. CASE AckFails(l)
  BY <1>2, FailsFacts DEF AckFails
<1>3. CASE DeleteCached(l)
  BY <1>3 DEF DeleteCached, Goto
<1>4. CASE DeleteFails(l)
  BY <1>4 DEF DeleteFails, Goto
<1> QED BY <1>1, <1>2, <1>3, <1>4

\* Every step preserves the inductive invariant.
LEMMA UpNextIInv == UpIInv /\ [Next]_vars => UpIInv'
<1> SUFFICES ASSUME UpIInv, [Next]_vars PROVE UpIInv'
  OBVIOUS
<1>1. CASE UNCHANGED vars
  BY <1>1 DEF UpIInv, TypeOK, EntryHeld, Apart, AckShape, AckMeansHandled,
              vars, locals, clients
<1> QED BY <1>1, CacheIInv, ClientsIInv, CallIInv, EndIInv DEF Next, Step, Satisfied

\* It holds in every reachable state.
LEMMA UpInvariant == Spec => []UpIInv
BY UpInitIInv, UpNextIInv, PTL DEF Spec

\* OnFrontendSendMessage works on a message on one link at a time, however
\* many links the client repeats it on and whatever cache and backend do.
THEOREM UpOneAtATime == Spec => []OneAtATime
<1>1. UpIInv => OneAtATime
  BY DEF UpIInv, Apart, OneAtATime, Busy
<1> QED BY <1>1, UpInvariant, PTL

\* sendUpstreamMessageAck is reached only for what the backend has processed.
THEOREM UpAckMeansHandled == Spec => []AckMeansHandled
<1>1. UpIInv => AckMeansHandled
  BY DEF UpIInv, AckShape
<1> QED BY <1>1, UpInvariant, PTL

-----------------------------------------------------------------------------
(* The balancer: its invariant.                                            *)

ConnStates == {"idle", "connecting", "ready", "failure", "shutdown"}
CallStates == {"none", "open", "failed", "load", "read", "grown"}

\* The types of what the proofs about the balancer use.
BalTyped ==
    /\ reg \in SUBSET Instances /\ ByAddress(reg)
    /\ found \in [Resolvers -> SUBSET Instances] /\ \A w \in Resolvers : ByAddress(found[w])
    /\ inst \in Seq(Instances) /\ Len(inst) <= MaxSubConns
    /\ subConns \in SUBSET (1..Len(inst))
    /\ state \in [SubConns -> ConnStates] /\ queue \in [SubConns -> Seq(ConnStates)]
    /\ mem \in [Ids -> SubConns \union {None}] /\ cap \in [SubConns -> Nat]
    /\ selected \in [Calls -> SubConns \union {None}]
    /\ call \in [Calls -> CallStates] /\ oldCap \in [Calls -> Nat]

\* One sub connection per address; what is remembered belongs to a managed sub
\* connection with that node ID; the shutdown of a sub connection is reported
\* only after the balancer has dropped it.
ConnShape ==
    /\ \A s, t \in subConns : inst[s].addr = inst[t].addr => s = t
    /\ \A i \in Ids : mem[i] # None =>
         mem[i] \in subConns /\ inst[mem[i]].id = i /\ cap[mem[i]] # 0
    /\ \A s \in subConns : \A i \in 1..Len(queue[s]) : queue[s][i] # "shutdown"

\* What can be picked, or is held by a call, has an object; none exceeds the
\* maximum of its instance.
GrowthShape ==
    /\ \A s \in SubConns : s > Len(inst) => cap[s] = 0
    /\ \A s \in picker : cap[s] # 0
    /\ \A c \in Calls : selected[c] # None => selected[c] \in 1..Len(inst) /\ cap[selected[c]] # 0
    /\ \A s \in 1..Len(inst) : cap[s] <= inst[s].max
    /\ CapacityCountsCalls

BalIInv == BalTyped /\ PickerIsReadySet /\ ConnShape /\ GrowthShape

-----------------------------------------------------------------------------
(* Capacities.  The induction principle is about a set, so that the        *)
(* provers can instantiate it.                                             *)

\* A set with 0 and the successors of its members has all natural numbers.
LEMMA NatInduct ==
  ASSUME NEW T \in SUBSET Nat, 0 \in T, \A k \in T : k + 1 \in T PROVE \A k \in Nat : k \in T
<1> DEFINE R == {ss \in Nat \X Nat : ss[1] < ss[2]}
           Rest == Nat \ T
<1>1. IsWellFoundedOn(R, Nat)
  BY NatLessThanWellFounded, Zenon DEF OpToRel
<1>2. SUFFICES ASSUME Rest # {} PROVE FALSE
  OBVIOUS
<1>3. PICK x \in Rest : \A y \in Rest : ~(<<y, x>> \in R)
  <2>1. Rest \subseteq Nat
    OBVIOUS
  <2> HIDE DEF R, Rest
  <2> QED BY <1>1, <1>2, <2>1, WFMin
<1>4. x \in Nat /\ x # 0 /\ x - 1 \in Nat
  BY <1>3
<1>5. <<x - 1, x>> \in R
  BY <1>4
<1>6. x - 1 \in T
  BY <1>3, <1>4, <1>5
<1> QED BY <1>3, <1>4, <1>6

\* Growth stays below the maximum and never lowers a capacity; a full node
\* stays full.
LEMMA NewCapFacts ==
  ASSUME NEW max \in Nat, NEW old \in 0..max
  PROVE  /\ NewCap(old, max) \in 0..max /\ NewCap(old, max) >= old
         /\ old >= max => NewCap(old, max) = old
<1>1. IncreaseStep \in Nat /\ GrowthNum \in Nat /\ GrowthDen \in Nat \ {0}
  BY BalancerAssumption DEF BalancerAssumption
<1>2. PICK p \in Nat : p = old * GrowthNum
  BY <1>1
<1>3. PICK q \in Nat : q = p \div GrowthDen
  BY <1>1
<1> QED BY <1>1, <1>2, <1>3 DEF NewCap, MinOf, MaxOf

\* A maximum is not below the initial capacity.
LEMMA MaxFacts ==
  ASSUME NEW max \in Maxima
  PROVE  max \in Nat /\ InitCapacity \in 0..max /\ InitCapacity \in Nat \ {0}
  BY BalancerAssumption DEF BalancerAssumption

\* The recursion of CapacityAfter has a solution: by induction on the number
\* of calls.
LEMMA CapacityDefined ==
  ASSUME NEW max \in Maxima, NEW N \in Nat
  PROVE  \E f \in [0..N -> 0..max] :
           \A k \in 0..N : f[k] = IF k = 0 THEN InitCapacity ELSE NewCap(f[k - 1], max)
<1> DEFINE Solves(f, m) == \A k \in 0..m : f[k] = IF k = 0 THEN InitCapacity ELSE NewCap(f[k - 1], max)
           T == {m \in Nat : \E f \in [0..m -> 0..max] : Solves(f, m)}
<1>1. InitCapacity \in 0..max /\ max \in Nat
  BY MaxFacts
<1>2. 0 \in T
  <2>1. /\ [k \in 0..0 |-> InitCapacity] \in [0..0 -> 0..max]
        /\ Solves([k \in 0..0 |-> InitCapacity], 0)
    BY <1>1
  <2> QED BY <2>1
<1>3. ASSUME NEW m \in T PROVE m + 1 \in T
  <2>1. m \in Nat /\ m + 1 \in Nat
    OBVIOUS
  <2>2. PICK f \in [0..m -> 0..max] : Solves(f, m)
    OBVIOUS
  <2> DEFINE g == [k \in 0..(m + 1) |-> IF k = 0 THEN InitCapacity ELSE NewCap(f[k - 1], max)]
  <2>3. \A k \in 0..(m + 1) : k # 0 => k - 1 \in 0..m
    BY <2>1
  <2>4. g \in [0..(m + 1) -> 0..max]
    BY <1>1, <2>3, NewCapFacts
  <2>5. \A k \in 0..m : k \in 0..(m + 1) /\ g[k] = f[k]
    BY <2>1, <2>2
  <2>6. Solves(g, m + 1)
    BY <2>3, <2>5
  <2> HIDE DEF g, Solves
  <2> QED BY <2>1, <2>4, <2>6
<1>4. \A m \in Nat : m \in T
  <2> HIDE DEF T
  <2>1. T \in SUBSET Nat
    BY DEF T
  <2> QED BY <1>2, <1>3, <2>1, NatInduct
<1> QED BY <1>4

\* CapacityAfter computes what its definition says.
LEMMA CapacityFacts ==
  ASSUME NEW max \in Maxima
  PROVE  /\ Cardinality(Calls) \in Nat
         /\ CapacityAfter(max)[0] = InitCapacity
         /\ \A k \in 0..Cardinality(Calls) :
              k # 0 => CapacityAfter(max)[k] = NewCap(CapacityAfter(max)[k - 1], max)
<1> DEFINE Eq(f) == f = [k \in 0..Cardinality(Calls) |->
                           IF k = 0 THEN InitCapacity ELSE NewCap(f[k - 1], max)]
<1>1. Cardinality(Calls) \in Nat
  BY BalancerAssumption, FS_CardinalityType DEF BalancerAssumption
<1>2. PICK f \in [0..Cardinality(Calls) -> 0..max] :
        \A k \in 0..Cardinality(Calls) : f[k] = IF k = 0 THEN InitCapacity ELSE NewCap(f[k - 1], max)
  BY <1>1, CapacityDefined
<1>3. Eq(f)
  BY <1>2
<1>4. CapacityAfter(max) = CHOOSE g : Eq(g)
  BY DEF CapacityAfter
<1>5. Eq(CapacityAfter(max))
  <2> HIDE DEF Eq
  <2> QED BY <1>3, <1>4
<1>6. PICK a : a = CapacityAfter(max)
  OBVIOUS
<1>7. Eq(a)
  BY <1>5, <1>6
<1>8. /\ a[0] = InitCapacity
      /\ \A k \in 0..Cardinality(Calls) : k # 0 => a[k] = NewCap(a[k - 1], max)
  BY <1>1, <1>7
<1> QED BY <1>1, <1>6, <1>8

\* The start of the balancer.
LEMMA BalInitIInv == BalInit => BalIInv
<1> SUFFICES ASSUME BalInit PROVE BalIInv
  OBVIOUS
<1> USE BalancerAssumption DEF BalancerAssumption, BalInit, None
<1>1. Len(inst) = 0 /\ inst \in Seq(Instances)
  OBVIOUS
<1>2. BalTyped
  BY <1>1 DEF BalTyped, ConnStates, CallStates, ByAddress
<1>3. PickerIsReadySet
  BY DEF PickerIsReadySet, ReadyOf
<1>4. ConnShape
  BY DEF ConnShape
<1>5. GrowthShape
  BY <1>1 DEF GrowthShape, CapacityCountsCalls
<1> QED BY <1>2, <1>3, <1>4, <1>5 DEF BalIInv

-----------------------------------------------------------------------------
(* The balancer: its steps.                                                *)
\* The instances of the sub connections that an update makes.
LEMMA NewConns ==
  ASSUME BalTyped, NEW made \in SUBSET Instances, ByAddress(made),
         NEW order \in [1..Cardinality(made) -> made],
         {order[i] : i \in DOMAIN order} = made
  PROVE  /\ inst \o order \in Seq(Instances)
         /\ Len(inst \o order) = Len(inst) + Cardinality(made) /\ Cardinality(made) \in Nat
         /\ \A s \in 1..Len(inst) : (inst \o order)[s] = inst[s]
         /\ \A s \in (Len(inst) + 1)..Len(inst \o order) : (inst \o order)[s] \in made
         /\ \A s, t \in (Len(inst) + 1)..Len(inst \o order) :
              (inst \o order)[s].addr = (inst \o order)[t].addr => s = t
<1>1. PICK k \in Nat : k = Cardinality(made) /\ IsFiniteSet(made)
  BY BalancerAssumption, FS_Subset, FS_CardinalityType DEF BalancerAssumption
<1>2. order \in Seq(Instances) /\ Len(order) = k
  BY <1>1
<1>3. inst \in Seq(Instances) /\ Len(inst) \in Nat
  BY DEF BalTyped
<1>4. /\ inst \o order \in Seq(Instances) /\ Len(inst \o order) = Len(inst) + k
      /\ \A s \in 1..Len(inst \o order) :
           (inst \o order)[s] = IF s <= Len(inst) THEN inst[s] ELSE order[s - Len(inst)]
  BY <1>2, <1>3, ConcatProperties
<1>5. \A i, j \in 1..k : order[i] = order[j] => i = j
  <2>1. order \in Surjection(1..k, made)
    BY <1>1 DEF Surjection
  <2>2. IsFiniteSet(1..k) /\ Cardinality(1..k) = k
    <3>1. 1 \in Int /\ k \in Int /\ (IF 1 > k THEN 0 ELSE k - 1 + 1) = k
      OBVIOUS
    <3>2. IsFiniteSet(1..k) /\ Cardinality(1..k) = IF 1 > k THEN 0 ELSE k - 1 + 1
      BY <3>1, FS_Interval
    <3> QED BY <3>1, <3>2
  <2>3. order \in Injection(1..k, made)
    BY <1>1, <2>1, <2>2, FS_SurjSameCardinalityImpliesInj
  <2> QED BY <2>3 DEF Injection, IsInjective
<1>6. \A i, j \in 1..k : order[i].addr = order[j].addr => i = j
  <2> SUFFICES ASSUME NEW i \in 1..k, NEW j \in 1..k, order[i].addr = order[j].addr PROVE i = j
    OBVIOUS
  <2>1. order[i] \in made /\ order[j] \in made
    BY <1>1
  <2>2. order[i] = order[j]
    BY <2>1 DEF ByAddress
  <2> QED BY <2>2, <1>5
<1>7. \A s \in (Len(inst) + 1)..Len(inst \o order) :
        s - Len(inst) \in 1..k /\ (inst \o order)[s] = order[s - Len(inst)]
  BY <1>3, <1>4
<1>8. \A s \in 1..Len(inst) : (inst \o order)[s] = inst[s]
  BY <1>1, <1>3, <1>4
<1>9. \A s, t \in (Len(inst) + 1)..Len(inst \o order) :
        (inst \o order)[s].addr = (inst \o order)[t].addr => s = t
  BY <1>3, <1>6, <1>7
<1>10. \A s \in (Len(inst) + 1)..Len(inst \o order) : (inst \o order)[s] \in made
  BY <1>1, <1>7
<1> QED BY <1>1, <1>4, <1>8, <1>9, <1>10

\* What a rebuilt picker does to the capacity objects: the sub connections
\* `created` get new ones, and a remembered one is kept for its sub connection
\* unless another ready one has its node ID.
Rebuilt(is, subs, ready, memo, created) ==
    /\ created \subseteq ready
    /\ cap' = [s \in SubConns |-> IF s \in created THEN InitCapacity ELSE cap[s]]
    /\ selected' = [c \in Calls |-> IF selected[c] \in created THEN None ELSE selected[c]]
    /\ \A s \in ready : s \in created \/ cap[s] # 0
    /\ mem' \in [Ids -> SubConns \union {None}]
    /\ \A i \in Ids : mem'[i] # None =>
         /\ mem'[i] \in subs /\ is[mem'[i]].id = i
         /\ mem'[i] \in created \/ cap[mem'[i]] # 0
    /\ \A s \in subs : memo[is[s].id] = s /\ (\A t \in ready : is[t].id = is[s].id => t = s)
                         => mem'[is[s].id] = s /\ s \notin created

\* pickerBuilder.Build over what is remembered of managed sub connections.
LEMMA BuildFacts ==
  ASSUME NEW is, NEW subs \in SUBSET SubConns, NEW st, NEW memo \in [Ids -> SubConns \union {None}],
         \A s \in subs : is[s] \in Instances,
         \A s, t \in subs : is[s].addr = is[t].addr => s = t,
         \A i \in Ids : memo[i] # None =>
            memo[i] \in subs /\ is[memo[i]].id = i /\ cap[memo[i]] # 0,
         cap \in [SubConns -> Nat], selected \in [Calls -> SubConns \union {None}],
         UpdatePicker(is, subs, st, memo)
  PROVE  \E created : Rebuilt(is, subs, ReadyOf(subs, st), memo, created)
<1>1. PICK ready \in SUBSET subs : ready = ReadyOf(subs, st)
  BY DEF ReadyOf
<1>2. \A s \in subs : is[s].id \in Ids
  BY DEF Instances
<1>3. CASE ready = {}
  <2>1. mem' = memo /\ UNCHANGED <<cap, selected>>
    BY <1>1, <1>3 DEF UpdatePicker, Build
  <2>2. cap' = [s \in SubConns |-> IF s \in {} THEN InitCapacity ELSE cap[s]]
    BY <2>1
  <2>3. selected' = [c \in Calls |-> IF selected[c] \in {} THEN None ELSE selected[c]]
    BY <2>1
  <2>4. Rebuilt(is, subs, ready, memo, {})
    BY <1>3, <2>1, <2>2, <2>3 DEF Rebuilt
  <2> QED BY <1>1, <2>4
<1>4. CASE ready # {}
  <2> DEFINE of(i) == {s \in ready : is[s].id = i}
  <2>1. Build(is, ready, memo)
    BY <1>1, <1>4 DEF UpdatePicker
  <2>2. PICK first, last \in [Ids -> ready] :
          /\ \A i \in Ids : of(i) # {} =>
               {first[i], last[i]} \subseteq of(i) /\ (first[i] = last[i] => of(i) = {first[i]})
          /\ LET created == {s \in ready : ~(s = first[is[s].id] /\ Reuses(is, memo, s))} IN
               /\ mem' = [i \in Ids |-> IF of(i) = {} THEN NotReady(memo, i) ELSE last[i]]
               /\ cap' = [s \in SubConns |-> IF s \in created THEN InitCapacity ELSE cap[s]]
               /\ selected' = [c \in Calls |-> IF selected[c] \in created THEN None ELSE selected[c]]
    BY <2>1 DEF Build
  <2>3. PICK created \in SUBSET ready : created = {s \in ready : ~(s = first[is[s].id] /\ Reuses(is, memo, s))}
    OBVIOUS
  <2>4. /\ mem' = [i \in Ids |-> IF of(i) = {} THEN memo[i] ELSE last[i]]
        /\ cap' = [s \in SubConns |-> IF s \in created THEN InitCapacity ELSE cap[s]]
        /\ selected' = [c \in Calls |-> IF selected[c] \in created THEN None ELSE selected[c]]
    BY <2>2, <2>3 DEF NotReady
  <2>5. \A s \in ready : s \notin created => memo[is[s].id] = s
    BY <1>2, <2>3 DEF Reuses
  <2>6. \A s \in ready : s \in created \/ cap[s] # 0
    <3> SUFFICES ASSUME NEW s \in ready, s \notin created PROVE cap[s] # 0
      OBVIOUS
    <3>1. s \in SubConns /\ is[s].id \in Ids /\ memo[is[s].id] = s
      BY <1>2, <2>5
    <3>2. s # None
      BY <3>1 DEF SubConns, None
    <3> QED BY <3>1, <3>2
  <2>7. mem' \in [Ids -> SubConns \union {None}]
    BY <2>2, <2>4
  <2>8. ASSUME NEW i \in Ids, mem'[i] # None
        PROVE  /\ mem'[i] \in subs /\ is[mem'[i]].id = i
               /\ mem'[i] \in created \/ cap[mem'[i]] # 0
    <3>1. CASE of(i) = {}
      BY <2>4, <2>8, <3>1
    <3>2. CASE of(i) # {}
      <4>1. mem'[i] = last[i] /\ last[i] \in of(i)
        BY <2>2, <2>4, <3>2
      <4> QED BY <2>6, <4>1
    <3> QED BY <3>1, <3>2
  <2>9. ASSUME NEW s \in subs, memo[is[s].id] = s, \A t \in ready : is[t].id = is[s].id => t = s
        PROVE  mem'[is[s].id] = s /\ s \notin created
    <3>1. is[s].id \in Ids /\ s # None
      BY <1>2 DEF SubConns, None
    <3>2. CASE of(is[s].id) = {}
      BY <2>3, <2>4, <2>9, <3>1, <3>2
    <3>3. CASE of(is[s].id) # {}
      <4>1. of(is[s].id) = {s} /\ first[is[s].id] = s /\ last[is[s].id] = s
        BY <2>2, <2>9, <3>1, <3>3
      <4>2. Reuses(is, memo, s)
        BY <2>9, <3>1 DEF Reuses
      <4> QED BY <2>3, <2>4, <3>1, <3>3, <4>1, <4>2
    <3> QED BY <3>2, <3>3
  <2>10. Rebuilt(is, subs, ready, memo, created)
    BY <2>4, <2>6, <2>7, <2>8, <2>9 DEF Rebuilt
  <2> QED BY <1>1, <2>10
<1> QED BY <1>3, <1>4

\* What CapacityKept says of a step.
Kept ==
    \A s \in subConns :
       LET i == inst[s].id IN
       /\ mem[i] = s /\ s \in subConns'
       /\ \A t \in (subConns \ subConns') \union picker' : inst'[t].id = i => t = s
       => mem'[i] = s /\ cap'[s] >= cap[s]

\* The capacities after a picker is rebuilt.
LEMMA RebuiltShape ==
  ASSUME BalIInv, NEW is \in Seq(Instances), is = inst', Len(is) <= MaxSubConns, Len(inst) <= Len(is),
         \A s \in 1..Len(inst) : is[s] = inst[s],
         NEW subs \in SUBSET (1..Len(is)), subs = subConns', NEW ready \in SUBSET subs, ready = picker',
         NEW memo, NEW created, Rebuilt(is, subs, ready, memo, created), UNCHANGED call
  PROVE  /\ cap' \in [SubConns -> Nat] /\ selected' \in [Calls -> SubConns \union {None}]
         /\ mem' \in [Ids -> SubConns \union {None}]
         /\ \A i \in Ids : mem'[i] # None =>
              mem'[i] \in subs /\ is[mem'[i]].id = i /\ cap'[mem'[i]] # 0
         /\ GrowthShape'
<1> USE DEF None
<1>1. PICK l \in Nat : l = Len(inst) /\ inst \in Seq(Instances)
  BY LenProperties DEF BalIInv, BalTyped
<1>2. PICK n \in Nat : n = Len(is) /\ l <= n /\ n <= MaxSubConns /\ MaxSubConns \in Nat
  BY <1>1, LenProperties, BalancerAssumption DEF BalancerAssumption
<1>3. /\ SubConns = 1..MaxSubConns /\ created \subseteq 1..n /\ 0 \notin SubConns
      /\ \A s \in 1..n : s \in SubConns /\ s # 0
      /\ \A s \in 1..l : s \in 1..n
  BY <1>2 DEF SubConns, Rebuilt
<1>4. /\ cap \in [SubConns -> Nat] /\ selected \in [Calls -> SubConns \union {0}]
      /\ InitCapacity \in Nat \ {0}
  BY BalancerAssumption DEF BalancerAssumption, BalIInv, BalTyped
<1>5. /\ \A s \in SubConns : cap'[s] = IF s \in created THEN InitCapacity ELSE cap[s]
      /\ \A c \in Calls : selected'[c] = IF selected[c] \in created THEN 0 ELSE selected[c]
  BY <1>3 DEF Rebuilt
<1>6. cap' \in [SubConns -> Nat] /\ selected' \in [Calls -> SubConns \union {0}]
  BY <1>4 DEF Rebuilt
<1>7. \A s \in ready : s \in SubConns /\ cap'[s] # 0
  BY <1>2, <1>3, <1>4, <1>5 DEF Rebuilt
<1>8. \A i \in Ids : mem'[i] # 0 => mem'[i] \in subs /\ is[mem'[i]].id = i /\ cap'[mem'[i]] # 0
  <2> SUFFICES ASSUME NEW i \in Ids, mem'[i] # 0
               PROVE  mem'[i] \in subs /\ is[mem'[i]].id = i /\ cap'[mem'[i]] # 0
    OBVIOUS
  <2>1. mem'[i] \in subs /\ is[mem'[i]].id = i /\ (mem'[i] \in created \/ cap[mem'[i]] # 0)
    BY DEF Rebuilt
  <2>2. mem'[i] \in SubConns
    BY <2>1, <1>2, <1>3
  <2> QED BY <2>1, <2>2, <1>4, <1>5
<1>9. \A s \in SubConns : s > n => cap'[s] = 0
  <2> SUFFICES ASSUME NEW s \in SubConns, s > n PROVE cap'[s] = 0
    OBVIOUS
  <2>1. s \notin created /\ s > l
    BY <1>2, <1>3
  <2> QED BY <2>1, <1>1, <1>5 DEF BalIInv, GrowthShape
<1>10. \A c \in Calls : selected'[c] # 0 => selected'[c] \in 1..n /\ cap'[selected'[c]] # 0
  <2> SUFFICES ASSUME NEW c \in Calls, selected'[c] # 0
               PROVE  selected'[c] \in 1..n /\ cap'[selected'[c]] # 0
    OBVIOUS
  <2>1. selected'[c] = selected[c] /\ selected[c] \notin created
    BY <1>5
  <2>2. selected[c] \in 1..l /\ cap[selected[c]] # 0
    BY <2>1, <1>1 DEF BalIInv, GrowthShape
  <2> QED BY <2>1, <2>2, <1>3, <1>5
<1>11. \A s \in 1..n : is[s] \in Instances /\ is[s].max \in Maxima
  <2>1. \A s \in 1..n : is[s] \in Instances
    BY <1>2
  <2> QED BY <2>1 DEF Instances
<1>12. \A s \in 1..n : cap'[s] <= is[s].max
  <2> SUFFICES ASSUME NEW s \in 1..n PROVE cap'[s] <= is[s].max
    OBVIOUS
  <2>1. PICK m \in Maxima : m = is[s].max /\ m \in Nat /\ InitCapacity \in 0..m
    BY <1>11, MaxFacts
  <2>2. CASE s \in created
    BY <2>1, <2>2, <1>3, <1>5
  <2>3. CASE s \notin created /\ s \in 1..l
    <3>1. cap[s] <= inst[s].max
      BY <2>3, <1>1 DEF BalIInv, GrowthShape
    <3>2. is[s] = inst[s]
      BY <2>3, <1>1
    <3> QED BY <2>3, <3>1, <3>2, <1>3, <1>5
  <2>4. CASE s \notin created /\ s \notin 1..l
    <3>1. s > l /\ s \in SubConns
      BY <2>4, <1>2, <1>3
    <3>2. cap[s] = 0
      BY <3>1, <1>1 DEF BalIInv, GrowthShape
    <3> QED BY <2>1, <2>4, <3>1, <3>2, <1>5
  <2> QED BY <2>2, <2>3, <2>4
<1>13. ASSUME NEW s \in 1..n, cap'[s] # 0
       PROVE  cap'[s] = CapacityAfter(is[s].max)[Cardinality(GrownBy(s)')]
  <2>1. s \in SubConns /\ s # 0
    BY <1>3
  <2>2. CASE s \in created
    <3>1. GrownBy(s)' = {}
      BY <2>1, <2>2, <1>5 DEF GrownBy
    <3>2. Cardinality(GrownBy(s)') = 0
      BY <3>1, FS_EmptySet
    <3>3. PICK m \in Maxima : m = is[s].max
      BY <1>11
    <3>4. CapacityAfter(m)[0] = InitCapacity
      BY CapacityFacts
    <3> QED BY <2>1, <2>2, <3>2, <3>3, <3>4, <1>5
  <2>3. CASE s \notin created
    <3>1. cap'[s] = cap[s]
      BY <2>1, <2>3, <1>5
    <3>2. s \in 1..l
      <4>1. ~(s > l)
        BY <2>1, <3>1, <1>1, <1>13 DEF BalIInv, GrowthShape
      <4> QED BY <4>1, <1>2
    <3>3. is[s] = inst[s]
      BY <3>2, <1>1
    <3>4. GrownBy(s)' = GrownBy(s)
      BY <2>1, <2>3, <1>5 DEF GrownBy
    <3>5. cap[s] = CapacityAfter(inst[s].max)[Cardinality(GrownBy(s))]
      BY <3>1, <3>2, <1>1, <1>13 DEF BalIInv, GrowthShape, CapacityCountsCalls
    <3> QED BY <3>1, <3>3, <3>4, <3>5
  <2> QED BY <2>2, <2>3
<1>14. CapacityCountsCalls'
  BY <1>2, <1>13 DEF CapacityCountsCalls
<1>15. GrowthShape'
  BY <1>2, <1>7, <1>9, <1>10, <1>12, <1>14 DEF GrowthShape
<1> QED BY <1>6, <1>8, <1>15 DEF Rebuilt

\* UpdateClientConnState with the connections `gone`, what is left of the
\* remembered objects and the new instances `made`.
Updates(gone, memo, made, order) ==
    /\ {order[i] : i \in DOMAIN order} = made
    /\ Len(inst) + Cardinality(made) <= MaxSubConns
    /\ inst' = inst \o order
    /\ subConns' = (subConns \ gone) \union ((Len(inst) + 1)..Len(inst'))
    /\ queue' = [s \in SubConns |->
                   IF s \in gone THEN Append(queue[s], "shutdown")
                   ELSE IF s \in (Len(inst) + 1)..Len(inst') THEN <<"connecting">> ELSE queue[s]]
    /\ UpdatePicker(inst', subConns', state, memo)

\* An address list: connections whose address is not in it go with what is
\* remembered of their node IDs, new addresses get one each.
LEMMA BalUpdate ==
  ASSUME BalIInv, NEW w \in Resolvers, UpdateState(w) PROVE BalIInv' /\ Kept
<1> USE DEF None
<1>1. PICK listed \in SUBSET Instances : listed = found[w] /\ ByAddress(listed)
  BY DEF BalIInv, BalTyped
<1>2. PICK gone \in SUBSET subConns : gone = {s \in subConns : \A x \in listed : x.addr # inst[s].addr}
  OBVIOUS
<1>3. PICK memo : memo = [i \in Ids |-> IF \E s \in gone : inst[s].id = i THEN None ELSE mem[i]]
  OBVIOUS
<1>4. PICK made \in SUBSET {x \in listed : \A s \in subConns \ gone : inst[s].addr # x.addr} :
        \E order \in [1..Cardinality(made) -> made] : Updates(gone, memo, made, order)
  <2>1. RemoveSubConn(gone) = memo
    BY <1>3 DEF RemoveSubConn
  <2>2. UpdateClientConnState(listed)
    BY <1>1 DEF UpdateState
  <2> QED BY <1>2, <2>1, <2>2, ZenonT(60) DEF UpdateClientConnState, Updates
<1>5. PICK order \in [1..Cardinality(made) -> made] : Updates(gone, memo, made, order)
  BY <1>4
<1>6. UNCHANGED <<reg, state, call, oldCap>> /\ found' = [found EXCEPT ![w] = {}]
  BY DEF UpdateState, UpdateClientConnState, regVars, callVars
<1>7. PICK l \in Nat : l = Len(inst) /\ inst \in Seq(Instances)
  BY LenProperties DEF BalIInv, BalTyped
<1>8. PICK is : is = inst'
  OBVIOUS
<1>9. /\ is \in Seq(Instances) /\ Len(is) = l + Cardinality(made) /\ Cardinality(made) \in Nat
      /\ \A s \in 1..l : is[s] = inst[s]
      /\ \A s \in (l + 1)..Len(is) : is[s] \in made
      /\ \A s, t \in (l + 1)..Len(is) : is[s].addr = is[t].addr => s = t
  <2>1. made \in SUBSET Instances /\ BalTyped /\ ByAddress(made)
    BY <1>1 DEF BalIInv, ByAddress
  <2>2. {order[i] : i \in DOMAIN order} = made /\ is = inst \o order
    BY <1>5, <1>8 DEF Updates
  <2>3. /\ inst \o order \in Seq(Instances)
        /\ Len(inst \o order) = Len(inst) + Cardinality(made) /\ Cardinality(made) \in Nat
        /\ \A s \in 1..Len(inst) : (inst \o order)[s] = inst[s]
        /\ \A s \in (Len(inst) + 1)..Len(inst \o order) : (inst \o order)[s] \in made
        /\ \A s, t \in (Len(inst) + 1)..Len(inst \o order) :
             (inst \o order)[s].addr = (inst \o order)[t].addr => s = t
    BY <2>1, <2>2, NewConns
  <2> QED BY <1>7, <2>2, <2>3
<1>10. Len(is) \in Nat /\ l <= Len(is) /\ Len(is) <= MaxSubConns /\ MaxSubConns \in Nat
  BY <1>5, <1>7, <1>9, BalancerAssumption DEF Updates, BalancerAssumption
<1>11. PICK new \in SUBSET (1..Len(is)) : new = (l + 1)..Len(is) /\ \A s \in new : s > l
  BY <1>9, <1>10
<1>12. PICK kept \in SUBSET subConns : kept = subConns \ gone
  OBVIOUS
<1>13. PICK subs : subs = subConns'
  OBVIOUS
<1>14. /\ subs = kept \union new /\ subConns \in SUBSET (1..l)
       /\ \A s \in kept : s \in 1..l /\ is[s] = inst[s]
       /\ \A s \in new : s \notin kept
  BY <1>5, <1>7, <1>8, <1>9, <1>11, <1>12, <1>13 DEF BalIInv, BalTyped, Updates
<1>15. subs \in SUBSET (1..Len(is)) /\ subs \in SUBSET SubConns
  <2>1. PICK n \in Nat : n = Len(is) /\ l <= n /\ n <= MaxSubConns /\ MaxSubConns \in Nat
    BY <1>10
  <2>2. 1..l \subseteq 1..n /\ 1..n \subseteq SubConns
    BY <2>1 DEF SubConns
  <2> QED BY <1>11, <1>14, <2>1, <2>2
<1>16. \A s \in new : \A t \in kept : is[s].addr # is[t].addr
  BY <1>9, <1>11, <1>12, <1>14
<1>17. \A s, t \in subs : is[s].addr = is[t].addr => s = t
  <2> SUFFICES ASSUME NEW s \in subs, NEW t \in subs, is[s].addr = is[t].addr PROVE s = t
    OBVIOUS
  <2>1. CASE s \in kept /\ t \in kept
    BY <2>1, <1>14 DEF BalIInv, ConnShape
  <2>2. CASE s \in new /\ t \in new
    BY <2>2, <1>9, <1>11
  <2> QED BY <2>1, <2>2, <1>14, <1>16
<1>18. memo \in [Ids -> SubConns \union {None}]
  BY <1>3 DEF BalIInv, BalTyped
<1>19. \A i \in Ids : memo[i] # None => memo[i] \in subs /\ is[memo[i]].id = i /\ cap[memo[i]] # 0
  <2> SUFFICES ASSUME NEW i \in Ids, memo[i] # None
               PROVE  memo[i] \in subs /\ is[memo[i]].id = i /\ cap[memo[i]] # 0
    OBVIOUS
  <2>1. memo[i] = mem[i] /\ \A s \in gone : inst[s].id # i
    BY <1>3
  <2>2. mem[i] \in subConns /\ inst[mem[i]].id = i /\ cap[mem[i]] # 0
    BY <2>1 DEF BalIInv, ConnShape
  <2>3. mem[i] \in kept
    BY <2>1, <2>2, <1>12
  <2> QED BY <2>1, <2>2, <2>3, <1>14
<1>20. PICK st, ready : st = state /\ ready = ReadyOf(subs, st)
  OBVIOUS
<1>21. ready \in SUBSET subs /\ ready = picker' /\ PickerIsReadySet'
  BY <1>5, <1>6, <1>8, <1>13, <1>20 DEF Updates, UpdatePicker, ReadyOf, PickerIsReadySet
<1>22. PICK created : Rebuilt(is, subs, ready, memo, created)
  <2>1. UpdatePicker(is, subs, st, memo)
    BY <1>5, <1>8, <1>13, <1>20 DEF Updates
  <2>2. cap \in [SubConns -> Nat] /\ selected \in [Calls -> SubConns \union {None}]
    BY DEF BalIInv, BalTyped
  <2>3. \A s \in subs : is[s] \in Instances
    BY <1>9, <1>15
  <2>4. \E created : Rebuilt(is, subs, ReadyOf(subs, st), memo, created)
    <3> HIDE DEF None
    <3> QED BY <1>15, <1>17, <1>18, <1>19, <2>1, <2>2, <2>3, BuildFacts
  <2> QED BY <1>20, <2>4
<1>23. /\ cap' \in [SubConns -> Nat] /\ selected' \in [Calls -> SubConns \union {None}]
       /\ mem' \in [Ids -> SubConns \union {None}]
       /\ \A i \in Ids : mem'[i] # None =>
            mem'[i] \in subs /\ is[mem'[i]].id = i /\ cap'[mem'[i]] # 0
       /\ GrowthShape'
  <2> HIDE DEF None
  <2> QED BY <1>6, <1>7, <1>8, <1>9, <1>10, <1>13, <1>15, <1>21, <1>22, RebuiltShape
<1>24. BalTyped'
  <2>1. queue' \in [SubConns -> Seq(ConnStates)]
    <3>1. \A s \in SubConns : Append(queue[s], "shutdown") \in Seq(ConnStates)
      BY AppendProperties DEF BalIInv, BalTyped, ConnStates
    <3>2. <<"connecting">> \in Seq(ConnStates)
      BY DEF ConnStates
    <3> QED BY <1>5, <3>1, <3>2 DEF Updates, BalIInv, BalTyped
  <2>2. found' \in [Resolvers -> SUBSET Instances] /\ \A v \in Resolvers : ByAddress(found'[v])
    BY <1>6 DEF BalIInv, BalTyped, ByAddress
  <2>3. inst' \in Seq(Instances) /\ Len(inst') <= MaxSubConns /\ subConns' \in SUBSET (1..Len(inst'))
    BY <1>8, <1>9, <1>10, <1>13, <1>15
  <2>4. ByAddress(reg')
    BY <1>6 DEF BalIInv, BalTyped
  <2> QED BY <1>6, <1>23, <2>1, <2>2, <2>3, <2>4 DEF BalIInv, BalTyped, ByAddress
<1>25. ConnShape'
  <2>1. ASSUME NEW s \in subs, NEW i \in 1..Len(queue'[s]) PROVE queue'[s][i] # "shutdown"
    <3>1. s \in SubConns
      BY <1>15
    <3>2. CASE s \in kept
      <4>1. queue'[s] = queue[s]
        BY <3>1, <3>2, <1>5, <1>7, <1>8, <1>11, <1>12, <1>14 DEF Updates
      <4> QED BY <2>1, <3>2, <4>1 DEF BalIInv, ConnShape
    <3>3. CASE s \in new
      <4>1. s \notin gone
        BY <3>3, <1>7, <1>11, <1>14
      <4>2. queue'[s] = <<"connecting">>
        BY <3>1, <3>3, <4>1, <1>5, <1>7, <1>8, <1>11 DEF Updates
      <4> QED BY <2>1, <4>2
    <3> QED BY <3>2, <3>3, <1>14
  <2> QED BY <1>8, <1>13, <1>17, <1>23, <2>1 DEF ConnShape
<1>26. Kept
  <2> SUFFICES ASSUME NEW s \in subConns, NEW i \in Ids, i = inst[s].id, mem[i] = s, s \in subs,
                      \A t \in (subConns \ subs) \union ready : is[t].id = i => t = s
               PROVE  mem'[i] = s /\ cap'[s] >= cap[s]
    <3>1. \A s \in subConns : inst[s].id \in Ids
      <4>1. \A t \in 1..l : inst[t] \in Instances
        BY <1>7
      <4> QED BY <1>14, <4>1 DEF Instances
    <3> QED BY <1>8, <1>13, <1>21, <3>1 DEF Kept
  <2>1. s \in kept /\ is[s] = inst[s] /\ s \in SubConns
    BY <1>7, <1>11, <1>14, <1>15
  <2>2. memo[i] = s
    <3>1. \A t \in gone : inst[t].id # i
      <4> SUFFICES ASSUME NEW t \in gone, inst[t].id = i PROVE FALSE
        OBVIOUS
      <4>1. t \in subConns \ subs /\ is[t] = inst[t]
        BY <1>7, <1>9, <1>11, <1>12, <1>14
      <4> QED BY <4>1, <2>1
    <3> QED BY <3>1, <1>3
  <2>3. mem'[i] = s /\ s \notin created
    BY <2>1, <2>2, <1>22 DEF Rebuilt
  <2>4. cap'[s] = cap[s] /\ cap[s] \in Nat
    BY <2>1, <2>3, <1>22 DEF Rebuilt, BalIInv, BalTyped
  <2> QED BY <2>3, <2>4
<1> QED BY <1>21, <1>23, <1>24, <1>25, <1>26 DEF BalIInv

\* Steps that change neither the capacities nor what the calls hold.
LEMMA SameGrowth ==
  ASSUME BalIInv, UNCHANGED <<inst, cap, picker, selected, call>> PROVE GrowthShape'
  BY DEF BalIInv, GrowthShape, CapacityCountsCalls, GrownBy

\* Nothing is lost by a step that leaves the remembered capacities alone.
LEMMA SameKept == ASSUME BalIInv, UNCHANGED <<mem, cap>> PROVE Kept
<1>1. \A s \in subConns : s \in SubConns
  <2>1. PICK l \in Nat : l = Len(inst) /\ l <= MaxSubConns /\ MaxSubConns \in Nat
    BY LenProperties, BalancerAssumption DEF BalancerAssumption, BalIInv, BalTyped
  <2>2. 1..l \subseteq SubConns
    BY <2>1 DEF SubConns
  <2> QED BY <2>1, <2>2 DEF BalIInv, BalTyped
<1>2. \A s \in subConns : cap[s] \in Nat
  BY <1>1 DEF BalIInv, BalTyped
<1> QED BY <1>2 DEF Kept

\* A state change: the balancer follows the connections it manages.  None of
\* them reports a shutdown.
LEMMA BalHandle ==
  ASSUME BalIInv, NEW s \in SubConns, HandleSubConnStateChange(s) PROVE BalIInv' /\ Kept
<1> USE DEF None
<1>1. PICK q \in Seq(ConnStates) : q = queue[s] /\ q # <<>>
  BY DEF BalIInv, BalTyped, HandleSubConnStateChange
<1>2. PICK new \in ConnStates : new = Head(q)
  BY <1>1
<1>3. /\ queue' = [queue EXCEPT ![s] = Tail(q)] /\ Tail(q) \in Seq(ConnStates)
      /\ UNCHANGED <<reg, found, inst, call, oldCap>>
  BY <1>1 DEF HandleSubConnStateChange, regVars, resolverVars, callVars
<1>4. \A i \in 1..Len(Tail(q)) : i + 1 \in 1..Len(q) /\ Tail(q)[i] = q[i + 1]
  BY <1>1
<1>5. \A t \in subConns : \A i \in 1..Len(queue'[t]) : queue'[t][i] # "shutdown"
  <2> SUFFICES ASSUME NEW t \in subConns, NEW i \in 1..Len(queue'[t]) PROVE queue'[t][i] # "shutdown"
    OBVIOUS
  <2>1. CASE t = s
    <3>1. queue'[t] = Tail(q)
      BY <2>1, <1>3 DEF BalIInv, BalTyped
    <3>2. q[i + 1] # "shutdown" /\ Tail(q)[i] = q[i + 1]
      BY <2>1, <3>1, <1>1, <1>4 DEF BalIInv, ConnShape
    <3> QED BY <3>1, <3>2
  <2>2. CASE t # s
    <3>1. queue'[t] = queue[t]
      BY <2>2, <1>3 DEF BalIInv, BalTyped
    <3> QED BY <3>1 DEF BalIInv, ConnShape
  <2> QED BY <2>1, <2>2
<1>6. queue' \in [SubConns -> Seq(ConnStates)]
  BY <1>3 DEF BalIInv, BalTyped
<1>7. CASE s \notin subConns
  <2>1. UNCHANGED <<subConns, state, mem, cap, picker, selected>>
    BY <1>7 DEF HandleSubConnStateChange, balancerVars, pickerVars
  <2>2. BalTyped'
    BY <2>1, <1>3, <1>6 DEF BalIInv, BalTyped, ByAddress
  <2>3. PickerIsReadySet' /\ ConnShape'
    BY <2>1, <1>3, <1>5 DEF BalIInv, PickerIsReadySet, ReadyOf, ConnShape
  <2>4. GrowthShape' /\ Kept
    BY <2>1, <1>3, SameGrowth, SameKept
  <2> QED BY <2>2, <2>3, <2>4 DEF BalIInv
<1>8. CASE s \in subConns
  <2>1. new # "shutdown"
    <3>1. 1 \in 1..Len(q) /\ Head(q) = q[1]
      BY <1>1
    <3> QED BY <3>1, <1>1, <1>2, <1>8 DEF BalIInv, ConnShape
  <2>2. PICK st \in [SubConns -> ConnStates] : st = state' /\ st = [state EXCEPT ![s] = new]
    BY <2>1, <1>1, <1>2, <1>8 DEF HandleSubConnStateChange, BalIInv, BalTyped
  <2>3. subConns' = subConns
    BY <2>1, <1>1, <1>2, <1>8 DEF HandleSubConnStateChange
  <2>4. \/ UpdatePicker(inst, subConns, st, mem)
        \/ UNCHANGED <<mem, cap, picker, selected>> /\ ~ShouldUpdatePicker(state[s], new)
    BY <2>2, <2>3, <1>1, <1>2, <1>8 DEF HandleSubConnStateChange, pickerVars
  <2>5. CASE UNCHANGED <<mem, cap, picker, selected>> /\ ~ShouldUpdatePicker(state[s], new)
    <3>1. st[s] = new /\ (new = "ready" <=> state[s] = "ready")
      BY <2>1, <2>2, <2>5 DEF ShouldUpdatePicker, BalIInv, BalTyped
    <3>2. \A t \in SubConns : st[t] = "ready" <=> state[t] = "ready"
      BY <3>1, <2>2 DEF BalIInv, BalTyped
    <3>3. \A t \in subConns : t \in SubConns
      <4>1. PICK l \in Nat : l = Len(inst) /\ l <= MaxSubConns /\ MaxSubConns \in Nat
        BY LenProperties, BalancerAssumption DEF BalancerAssumption, BalIInv, BalTyped
      <4>2. 1..l \subseteq SubConns
        BY <4>1 DEF SubConns
      <4> QED BY <4>1, <4>2 DEF BalIInv, BalTyped
    <3>4. PickerIsReadySet'
      BY <3>2, <3>3, <2>2, <2>3, <2>5 DEF BalIInv, PickerIsReadySet, ReadyOf
    <3>5. BalTyped'
      BY <1>3, <1>6, <2>2, <2>3, <2>5 DEF BalIInv, BalTyped, ByAddress
    <3>6. ConnShape'
      BY <1>3, <1>5, <2>3, <2>5 DEF BalIInv, ConnShape
    <3>7. GrowthShape' /\ Kept
      BY <1>3, <2>5, SameGrowth, SameKept
    <3> QED BY <3>4, <3>5, <3>6, <3>7 DEF BalIInv
  <2>6. CASE UpdatePicker(inst, subConns, st, mem)
    <3>1. PICK is, subs, memo :
            /\ is = inst /\ subs = subConns /\ memo = mem
            /\ is \in Seq(Instances) /\ subs \in SUBSET (1..Len(is))
      BY DEF BalIInv, BalTyped
    <3>2. PICK l \in Nat : l = Len(is) /\ l <= MaxSubConns /\ MaxSubConns \in Nat
      BY <3>1, LenProperties, BalancerAssumption DEF BalancerAssumption, BalIInv, BalTyped
    <3>3. subs \in SUBSET SubConns /\ \A t \in subs : is[t] \in Instances
      <4>1. 1..l \subseteq SubConns
        BY <3>2 DEF SubConns
      <4> QED BY <3>1, <3>2, <4>1
    <3>4. PICK ready \in SUBSET subs : ready = ReadyOf(subs, st)
      BY DEF ReadyOf
    <3>5. ready = picker' /\ PickerIsReadySet'
      BY <2>2, <2>3, <2>6, <3>1, <3>4 DEF UpdatePicker, PickerIsReadySet
    <3>6. PICK created : Rebuilt(is, subs, ready, memo, created)
      <4>1. /\ memo \in [Ids -> SubConns \union {None}] /\ cap \in [SubConns -> Nat]
            /\ selected \in [Calls -> SubConns \union {None}]
        BY <3>1 DEF BalIInv, BalTyped
      <4>2. \A t, u \in subs : is[t].addr = is[u].addr => t = u
        BY <3>1 DEF BalIInv, ConnShape
      <4>3. \A i \in Ids : memo[i] # None => memo[i] \in subs /\ is[memo[i]].id = i /\ cap[memo[i]] # 0
        BY <3>1 DEF BalIInv, ConnShape
      <4>4. UpdatePicker(is, subs, st, memo)
        BY <2>6, <3>1
      <4>5. \E created : Rebuilt(is, subs, ReadyOf(subs, st), memo, created)
        <5> HIDE DEF None
        <5> QED BY <3>3, <4>1, <4>2, <4>3, <4>4, BuildFacts
      <4> QED BY <3>4, <4>5
    <3>7. /\ cap' \in [SubConns -> Nat] /\ selected' \in [Calls -> SubConns \union {None}]
          /\ mem' \in [Ids -> SubConns \union {None}]
          /\ \A i \in Ids : mem'[i] # None =>
               mem'[i] \in subs /\ is[mem'[i]].id = i /\ cap'[mem'[i]] # 0
          /\ GrowthShape'
      <4>1. is = inst' /\ subs = subConns' /\ Len(is) <= MaxSubConns /\ Len(inst) <= Len(is)
        BY <1>3, <2>3, <3>1, <3>2
      <4>2. \A t \in 1..Len(inst) : is[t] = inst[t]
        BY <3>1
      <4> HIDE DEF None
      <4> QED BY <1>3, <3>1, <3>4, <3>5, <3>6, <4>1, <4>2, RebuiltShape
    <3>8. BalTyped'
      BY <1>3, <1>6, <2>2, <2>3, <3>7 DEF BalIInv, BalTyped, ByAddress
    <3>9. ConnShape'
      BY <1>3, <1>5, <2>3, <3>1, <3>7 DEF BalIInv, ConnShape
    <3>10. Kept
      <4> SUFFICES ASSUME NEW t \in subs, mem[is[t].id] = t,
                          \A u \in ready : is[u].id = is[t].id => u = t
                   PROVE  mem'[is[t].id] = t /\ cap'[t] >= cap[t]
        BY <1>3, <2>3, <3>1, <3>5 DEF Kept
      <4>1. mem'[is[t].id] = t /\ t \notin created
        BY <3>1, <3>6 DEF Rebuilt
      <4>2. cap'[t] = cap[t] /\ cap[t] \in Nat
        BY <3>3, <3>6, <4>1 DEF Rebuilt, BalIInv, BalTyped
      <4> QED BY <4>1, <4>2
    <3> QED BY <3>5, <3>7, <3>8, <3>9, <3>10 DEF BalIInv
  <2> QED BY <2>4, <2>5, <2>6
<1> QED BY <1>7, <1>8

\* A sub connection changes: gRPC queues the new state for the balancer, and
\* it shuts down none by itself.
LEMMA BalSubConn ==
  ASSUME BalIInv, NEW s \in SubConns, SubConn(s) PROVE BalIInv' /\ Kept
<1>1. PICK new \in {"ready", "failure", "idle"} : Becomes(s, new)
  BY DEF SubConn, Connected, ConnectFails, BackoffOver, Breaks
<1>2. /\ queue' = [queue EXCEPT ![s] = Append(queue[s], new)]
      /\ UNCHANGED <<reg, found, inst, subConns, state, mem, cap, picker, selected, call, oldCap>>
  BY <1>1 DEF Becomes, regVars, resolverVars, balancerVars, pickerVars, callVars
<1>3. PICK q \in Seq(ConnStates) : q = queue[s]
  BY DEF BalIInv, BalTyped
<1>4. /\ Append(q, new) \in Seq(ConnStates)
      /\ \A i \in 1..Len(Append(q, new)) : Append(q, new)[i] = new \/ (i \in 1..Len(q) /\ Append(q, new)[i] = q[i])
  <2>1. new \in ConnStates
    BY DEF ConnStates
  <2>2. Len(q) \in Nat
    BY LenProperties
  <2> QED BY <2>1, <2>2, AppendProperties
<1>5. \A t \in subConns : \A i \in 1..Len(queue'[t]) : queue'[t][i] # "shutdown"
  <2> SUFFICES ASSUME NEW t \in subConns, NEW i \in 1..Len(queue'[t]) PROVE queue'[t][i] # "shutdown"
    OBVIOUS
  <2>1. CASE t = s
    <3>1. queue'[t] = Append(q, new)
      BY <2>1, <1>2, <1>3 DEF BalIInv, BalTyped
    <3> QED BY <2>1, <3>1, <1>3, <1>4 DEF BalIInv, ConnShape
  <2>2. CASE t # s
    <3>1. queue'[t] = queue[t]
      BY <2>2, <1>2 DEF BalIInv, BalTyped
    <3> QED BY <3>1 DEF BalIInv, ConnShape
  <2> QED BY <2>1, <2>2
<1>6. BalTyped'
  <2>1. queue' \in [SubConns -> Seq(ConnStates)]
    BY <1>2, <1>3, <1>4 DEF BalIInv, BalTyped
  <2> QED BY <2>1, <1>2 DEF BalIInv, BalTyped, ByAddress
<1>7. PickerIsReadySet' /\ ConnShape'
  BY <1>2, <1>5 DEF BalIInv, PickerIsReadySet, ReadyOf, ConnShape
<1>8. GrowthShape' /\ Kept
  BY <1>2, SameGrowth, SameKept
<1> QED BY <1>6, <1>7, <1>8 DEF BalIInv

\* The steps that leave the balancer alone.
BalancerIdle ==
    /\ reg' \in SUBSET Instances /\ ByAddress(reg')
    /\ found' \in [Resolvers -> SUBSET Instances] /\ \A w \in Resolvers : ByAddress(found'[w])
    /\ UNCHANGED <<inst, subConns, state, queue, mem, cap, picker, selected, call, oldCap>>

\* They keep the invariant and every capacity.
LEMMA BalIdle == ASSUME BalIInv, BalancerIdle PROVE BalIInv' /\ Kept
<1> USE DEF BalancerIdle
<1>1. BalTyped'
  BY DEF BalIInv, BalTyped, ByAddress
<1>2. PickerIsReadySet' /\ ConnShape'
  BY DEF BalIInv, PickerIsReadySet, ReadyOf, ConnShape
<1>3. GrowthShape' /\ Kept
  BY SameGrowth, SameKept
<1> QED BY <1>1, <1>2, <1>3 DEF BalIInv

\* The registry and the lists of the resolver are such steps.
LEMMA BalRegistry ==
  ASSUME BalIInv,
         \/ \E a \in Addrs : RegistryChanges(a)
         \/ ResolveNow
         \/ \E w \in Resolvers : ListServices(w)
         \/ WatchEvent
  PROVE  BalancerIdle
<1> USE DEF BalIInv, BalTyped, BalancerIdle, regVars, resolverVars, connVars, balancerVars, pickerVars,
            callVars
<1>1. ASSUME NEW a \in Addrs, RegistryChanges(a) PROVE BalancerIdle
  <2>1. PICK new \in {{}} \union {{x} : x \in Instances} :
          reg' = {x \in reg : x.addr # a} \union {x \in new : x.addr = a}
    BY <1>1 DEF RegistryChanges
  <2>2. reg' \in SUBSET Instances /\ ByAddress(reg')
    <3>1. \A x, y \in new : x \in Instances /\ x = y
      BY <2>1
    <3> QED BY <2>1, <3>1 DEF ByAddress
  <2> QED BY <1>1, <2>2 DEF RegistryChanges, ByAddress
<1>2. CASE ResolveNow
  BY <1>2 DEF ResolveNow, ByAddress
<1>3. ASSUME NEW w \in Resolvers, ListServices(w) PROVE BalancerIdle
  <2>1. PICK r \in {reg, {}} : found' = [found EXCEPT ![w] = r]
    BY <1>3 DEF ListServices
  <2>2. ByAddress(r) /\ r \in SUBSET Instances
    BY <2>1 DEF ByAddress
  <2> QED BY <1>3, <2>1, <2>2 DEF ListServices, ByAddress
<1>4. CASE WatchEvent
  BY <1>4 DEF WatchEvent, ByAddress
<1> QED BY <1>1, <1>2, <1>3, <1>4

\* The variables that no step of a call changes.
CallLeaves == <<reg, found, inst, subConns, state, queue, mem, picker>>

\* A step of a call that lets nothing grow.
LEMMA BalCallOnly ==
  ASSUME BalIInv, NEW c \in Calls, NEW p \in CallStates, NEW s \in SubConns \union {None},
         call[c] # "grown", call' = [call EXCEPT ![c] = p],
         selected' = [selected EXCEPT ![c] = s],
         s # None => s \in 1..Len(inst) /\ cap[s] # 0,
         p = "grown" => s = None,
         oldCap' \in [Calls -> Nat], UNCHANGED CallLeaves, UNCHANGED cap
  PROVE  BalIInv' /\ Kept
<1> USE DEF CallLeaves
<1>1. call \in [Calls -> CallStates] /\ selected \in [Calls -> SubConns \union {None}]
  BY DEF BalIInv, BalTyped
<1>2. call' \in [Calls -> CallStates] /\ selected' \in [Calls -> SubConns \union {None}]
  BY <1>1
<1>3. BalTyped'
  BY <1>2 DEF BalIInv, BalTyped, ByAddress
<1>4. PickerIsReadySet' /\ ConnShape'
  BY DEF BalIInv, PickerIsReadySet, ReadyOf, ConnShape
<1>5. \A d \in Calls : selected'[d] # None => selected'[d] \in 1..Len(inst) /\ cap[selected'[d]] # 0
  <2> SUFFICES ASSUME NEW d \in Calls, selected'[d] # None
               PROVE  selected'[d] \in 1..Len(inst) /\ cap[selected'[d]] # 0
    OBVIOUS
  <2>1. CASE d = c
    BY <2>1, <1>1
  <2>2. CASE d # c
    <3>1. selected'[d] = selected[d]
      BY <2>2, <1>1
    <3> QED BY <3>1 DEF BalIInv, GrowthShape
  <2> QED BY <2>1, <2>2
<1>6. ASSUME NEW t \in 1..Len(inst) PROVE GrownBy(t)' = GrownBy(t)
  <2>1. t # None
    BY DEF None
  <2>2. \A d \in Calls : d # c => call'[d] = call[d] /\ selected'[d] = selected[d]
    BY <1>1
  <2>3. call'[c] = p /\ selected'[c] = s
    BY <1>1
  <2> QED BY <2>1, <2>2, <2>3 DEF GrownBy
<1>7. CapacityCountsCalls'
  <2> SUFFICES ASSUME NEW t \in 1..Len(inst), cap[t] # 0
               PROVE  cap[t] = CapacityAfter(inst[t].max)[Cardinality(GrownBy(t)')]
    BY DEF CapacityCountsCalls
  <2>1. cap[t] = CapacityAfter(inst[t].max)[Cardinality(GrownBy(t))]
    BY DEF BalIInv, GrowthShape, CapacityCountsCalls
  <2> QED BY <2>1, <1>6
<1>8. GrowthShape'
  BY <1>5, <1>7 DEF BalIInv, GrowthShape
<1> QED BY <1>3, <1>4, <1>8, SameKept DEF BalIInv

\* A successful call is over: the object it holds has grown by one call.
LEMMA BalGrows ==
  ASSUME BalIInv, NEW c \in Calls, NEW s \in SubConns, s = selected[c],
         call[c] # "grown", call' = [call EXCEPT ![c] = "grown"], UNCHANGED selected,
         cap' = [cap EXCEPT ![s] = NewCap(cap[s], inst[s].max)],
         oldCap' \in [Calls -> Nat], UNCHANGED CallLeaves
  PROVE  BalIInv' /\ Kept
<1> USE DEF CallLeaves
<1>1. s \in 1..Len(inst) /\ cap[s] # 0 /\ cap[s] <= inst[s].max
  <2>1. s # None
    BY DEF SubConns, None
  <2> QED BY <2>1 DEF BalIInv, GrowthShape
<1>2. PICK max \in Maxima : max = inst[s].max /\ max \in Nat
  <2>1. inst[s] \in Instances
    BY <1>1 DEF BalIInv, BalTyped
  <2> QED BY <2>1, MaxFacts DEF Instances
<1>3. PICK old \in 0..max : old = cap[s] /\ old # 0
  BY <1>1, <1>2 DEF BalIInv, BalTyped
<1>4. PICK new \in 0..max : new = NewCap(old, max) /\ new >= old
  BY <1>2, NewCapFacts
<1>5. call \in [Calls -> CallStates] /\ cap \in [SubConns -> Nat]
  BY DEF BalIInv, BalTyped
<1>6. /\ call' \in [Calls -> CallStates] /\ cap' \in [SubConns -> Nat]
      /\ cap'[s] = new /\ \A t \in SubConns : t # s => cap'[t] = cap[t]
      /\ call'[c] = "grown" /\ \A d \in Calls : d # c => call'[d] = call[d]
  BY <1>2, <1>3, <1>4, <1>5 DEF CallStates
<1>7. \A t \in SubConns : cap'[t] >= cap[t] /\ (cap'[t] = 0 <=> cap[t] = 0)
  BY <1>3, <1>4, <1>5, <1>6
<1>8. PICK l \in Nat : l = Len(inst) /\ l <= MaxSubConns /\ MaxSubConns \in Nat
  BY LenProperties, BalancerAssumption DEF BalancerAssumption, BalIInv, BalTyped
<1>9. \A t \in 1..l : t \in SubConns /\ t # None
  BY <1>8 DEF SubConns, None
<1>10. BalTyped'
  BY <1>6 DEF BalIInv, BalTyped, ByAddress
<1>11. \A t \in subConns : t \in SubConns
  BY <1>8, <1>9 DEF BalIInv, BalTyped
<1>12. ConnShape'
  BY <1>7, <1>11 DEF BalIInv, ConnShape
<1>13. PickerIsReadySet'
  BY DEF BalIInv, PickerIsReadySet, ReadyOf
<1>14. Kept
  BY <1>7, <1>11 DEF Kept
<1>15. cap'[s] = CapacityAfter(max)[Cardinality(GrownBy(s)')]
  <2>1. PICK k \in Nat : k = Cardinality(GrownBy(s)) /\ IsFiniteSet(GrownBy(s))
    <3>1. GrownBy(s) \in SUBSET Calls
      BY DEF GrownBy
    <3> QED BY <3>1, BalancerAssumption, FS_Subset, FS_CardinalityType DEF BalancerAssumption
  <2>2. GrownBy(s)' = GrownBy(s) \union {c} /\ c \notin GrownBy(s)
    BY <1>6 DEF GrownBy
  <2>3. Cardinality(GrownBy(s)') = k + 1
    <3>1. Cardinality(GrownBy(s) \union {c}) = k + 1
      BY <2>1, <2>2, FS_AddElement
    <3> QED BY <2>2, <3>1
  <2>4. k + 1 <= Cardinality(Calls)
    <3>1. PICK G \in SUBSET Calls : G = GrownBy(s)'
      BY DEF GrownBy
    <3>2. Cardinality(G) <= Cardinality(Calls)
      BY BalancerAssumption, FS_Subset DEF BalancerAssumption
    <3> QED BY <2>3, <3>1, <3>2
  <2>5. k + 1 \in 0..Cardinality(Calls) /\ k + 1 # 0 /\ (k + 1) - 1 = k
    <3>1. Cardinality(Calls) \in Nat
      BY CapacityFacts
    <3> QED BY <2>1, <2>4, <3>1
  <2>6. CapacityAfter(max)[k + 1] = NewCap(CapacityAfter(max)[(k + 1) - 1], max)
    BY <2>5, CapacityFacts
  <2>7. old = CapacityAfter(max)[k]
    BY <1>1, <1>2, <1>3, <2>1 DEF BalIInv, GrowthShape, CapacityCountsCalls
  <2> QED BY <1>4, <1>6, <2>3, <2>5, <2>6, <2>7
<1>16. CapacityCountsCalls'
  <2> SUFFICES ASSUME NEW t \in 1..Len(inst), cap'[t] # 0
               PROVE  cap'[t] = CapacityAfter(inst[t].max)[Cardinality(GrownBy(t)')]
    BY DEF CapacityCountsCalls
  <2>1. CASE t = s
    BY <2>1, <1>2, <1>15
  <2>2. CASE t # s
    <3>1. GrownBy(t)' = GrownBy(t)
      BY <2>2, <1>6 DEF GrownBy
    <3>2. cap'[t] = cap[t]
      BY <2>2, <1>6, <1>8, <1>9
    <3>3. cap[t] = CapacityAfter(inst[t].max)[Cardinality(GrownBy(t))]
      BY <3>2 DEF BalIInv, GrowthShape, CapacityCountsCalls
    <3> QED BY <3>1, <3>2, <3>3
  <2> QED BY <2>1, <2>2
<1>17. \A t \in 1..l : cap'[t] <= inst[t].max
  BY <1>2, <1>4, <1>6, <1>8, <1>9 DEF BalIInv, GrowthShape
<1>18. /\ \A t \in SubConns : t > l => cap'[t] = 0
       /\ \A t \in picker : cap'[t] # 0
       /\ \A d \in Calls : selected[d] # None => selected[d] \in 1..l /\ cap'[selected[d]] # 0
  <2>1. \A t \in picker : t \in subConns
    BY DEF BalIInv, PickerIsReadySet, ReadyOf
  <2> QED BY <2>1, <1>7, <1>8, <1>9, <1>11 DEF BalIInv, GrowthShape
<1>19. GrowthShape'
  BY <1>8, <1>16, <1>17, <1>18 DEF GrowthShape
<1> QED BY <1>10, <1>12, <1>13, <1>14, <1>19 DEF BalIInv

\* The steps of a call: Pick, and Done with its increaseCapacity.
LEMMA BalCall ==
  ASSUME BalIInv, NEW c \in Calls, Call(c) PROVE BalIInv' /\ Kept
<1> USE DEF regVars, resolverVars, connVars, balancerVars, pickerVars, CallLeaves
<1>0. /\ oldCap \in [Calls -> Nat] /\ selected \in [Calls -> SubConns \union {None}]
      /\ cap \in [SubConns -> Nat]
  BY DEF BalIInv, BalTyped
<1>1. PICK s \in SubConns \union {None} : s = selected[c] /\ selected = [selected EXCEPT ![c] = s]
  BY <1>0
<1>2. /\ s # None => s \in SubConns /\ s \in 1..Len(inst) /\ cap[s] # 0 /\ cap[s] \in Nat
      /\ s # None => cap[s] <= inst[s].max
  BY <1>0, <1>1 DEF BalIInv, GrowthShape
<1>3. {"open", "failed", "load", "read", "grown"} \subseteq CallStates
  BY DEF CallStates
<1>4. CASE Pick(c)
  <2>1. PICK t \in picker : selected' = [selected EXCEPT ![c] = t]
    BY <1>4 DEF Pick
  <2>2. call[c] # "grown" /\ call' = [call EXCEPT ![c] = "open"] /\ UNCHANGED <<CallLeaves, cap, oldCap>>
    BY <1>4 DEF Pick
  <2>3. t \in 1..Len(inst) /\ t \in SubConns /\ cap[t] # 0
    <3>1. PICK l \in Nat : l = Len(inst) /\ l <= MaxSubConns /\ MaxSubConns \in Nat
      BY LenProperties, BalancerAssumption DEF BalancerAssumption, BalIInv, BalTyped
    <3>2. t \in subConns /\ cap[t] # 0
      BY DEF BalIInv, PickerIsReadySet, ReadyOf, GrowthShape
    <3>3. 1..l \subseteq SubConns
      BY <3>1 DEF SubConns
    <3> QED BY <3>1, <3>2, <3>3 DEF BalIInv, BalTyped
  <2> QED BY <1>0, <1>3, <2>1, <2>2, <2>3, BalCallOnly
<1>5. CASE DoneFailed(c)
  <2>1. /\ call[c] # "grown" /\ call' = [call EXCEPT ![c] = "failed"]
        /\ selected' = [selected EXCEPT ![c] = None] /\ UNCHANGED <<CallLeaves, cap, oldCap>>
    BY <1>5 DEF DoneFailed
  <2> QED BY <1>0, <1>3, <2>1, BalCallOnly
<1>6. CASE LoadCapacity(c) /\ ~Full(c)
  <2>1. /\ call[c] # "grown" /\ call' = [call EXCEPT ![c] = "read"]
        /\ UNCHANGED <<CallLeaves, cap, selected>>
    BY <1>6 DEF LoadCapacity
  <2>2. oldCap' \in [Calls -> Nat]
    BY <1>0, <1>1, <1>2, <1>6 DEF LoadCapacity, Replaced
  <2>3. selected' = [selected EXCEPT ![c] = s]
    BY <1>1, <2>1
  <2> QED BY <1>2, <1>3, <2>1, <2>2, <2>3, BalCallOnly
<1>7. CASE LoadCapacity(c) /\ Full(c)
  <2>1. /\ call[c] # "grown" /\ call' = [call EXCEPT ![c] = "grown"]
        /\ UNCHANGED <<CallLeaves, cap, selected>> /\ oldCap' \in [Calls -> Nat]
    BY <1>0, <1>7 DEF LoadCapacity
  <2>2. s # None /\ cap[s] >= inst[s].max
    BY <1>1, <1>7 DEF Full, Replaced
  <2>3. PICK max \in Nat : max = inst[s].max
    <3>1. inst[s] \in Instances
      BY <1>2, <2>2 DEF BalIInv, BalTyped
    <3>2. PICK m \in Maxima : m = inst[s].max
      BY <3>1 DEF Instances
    <3> QED BY <3>2, MaxFacts
  <2>4. PICK old \in 0..max : old = cap[s] /\ old >= max
    BY <1>2, <2>2, <2>3
  <2>5. NewCap(cap[s], inst[s].max) = cap[s]
    BY <2>3, <2>4, NewCapFacts
  <2>6. cap' = [cap EXCEPT ![s] = NewCap(cap[s], inst[s].max)]
    BY <1>0, <1>2, <2>1, <2>2, <2>5
  <2> QED BY <1>1, <1>2, <2>1, <2>2, <2>6, BalGrows
<1>8. CASE CompareAndSwap(c)
  <2>1. call[c] # "grown" /\ oldCap' \in [Calls -> Nat] /\ UNCHANGED <<CallLeaves, selected>>
    BY <1>0, <1>8 DEF CompareAndSwap
  <2>2. selected' = [selected EXCEPT ![c] = s]
    BY <1>1, <2>1
  <2>3. CASE s = None
    <3>1. call' = [call EXCEPT ![c] = "grown"] /\ UNCHANGED cap
      BY <1>1, <1>8, <2>3 DEF CompareAndSwap, Replaced
    <3> QED BY <1>3, <2>1, <2>2, <2>3, <3>1, BalCallOnly
  <2>4. CASE s # None /\ Swaps(c)
    <3>1. call' = [call EXCEPT ![c] = "grown"] /\ cap' = [cap EXCEPT ![s] = NewCap(cap[s], inst[s].max)]
      BY <1>1, <1>8, <2>4 DEF CompareAndSwap, Replaced, Swaps
    <3> QED BY <1>1, <1>2, <2>1, <2>4, <3>1, BalGrows
  <2>5. CASE s # None /\ ~Swaps(c)
    <3>1. call' = [call EXCEPT ![c] = "load"] /\ UNCHANGED cap
      BY <1>1, <1>8, <2>5 DEF CompareAndSwap, Replaced
    <3> QED BY <1>2, <1>3, <2>1, <2>2, <2>5, <3>1, BalCallOnly
  <2> QED BY <2>3, <2>4, <2>5
<1> QED BY <1>4, <1>5, <1>6, <1>7, <1>8 DEF Call

\* Every step keeps the invariant, and the remembered capacities as
\* CapacityKept says.
LEMMA BalNextIInv == BalIInv /\ [BalNext]_balVars => BalIInv' /\ [Kept]_balVars
<1> SUFFICES ASSUME BalIInv, [BalNext]_balVars PROVE BalIInv' /\ [Kept]_balVars
  OBVIOUS
<1>1. CASE UNCHANGED balVars
  <2>1. BalancerIdle
    BY <1>1 DEF balVars, regVars, resolverVars, connVars, balancerVars, pickerVars, callVars,
                BalancerIdle, BalIInv, BalTyped, ByAddress
  <2> QED BY <2>1, BalIdle
<1>2. CASE \/ \E a \in Addrs : RegistryChanges(a)
           \/ ResolveNow
           \/ \E w \in Resolvers : ListServices(w)
           \/ WatchEvent
  BY <1>2, BalRegistry, BalIdle
<1>3. ASSUME NEW w \in Resolvers, UpdateState(w) PROVE BalIInv' /\ Kept
  BY <1>3, BalUpdate
<1>4. ASSUME NEW s \in SubConns, SubConn(s) \/ HandleSubConnStateChange(s) PROVE BalIInv' /\ Kept
  BY <1>4, BalSubConn, BalHandle
<1>5. ASSUME NEW c \in Calls, Call(c) PROVE BalIInv' /\ Kept
  BY <1>5, BalCall
<1> QED BY <1>1, <1>2, <1>3, <1>4, <1>5 DEF BalNext, Resolver

\* It holds in every reachable state, and so do its steps.
LEMMA BalInvariant == BalSpec => []BalIInv /\ [][Kept]_balVars
BY BalInitIInv, BalNextIInv, PTL DEF BalSpec

\* updatePicker runs in every place it must: whatever the order of address
\* lists, state changes and shutdowns, gRPC picks from exactly the managed
\* connections that were last reported ready.
THEOREM BalPickerIsReadySet == BalSpec => []PickerIsReadySet
<1>1. BalIInv => PickerIsReadySet
  BY DEF BalIInv
<1> QED BY <1>1, BalInvariant, PTL

\* increaseCapacity loses no growth and counts none twice: the capacity of
\* every object is the initial one grown by NewCap once for each call on it
\* that ended successfully, for any number of calls that end at the same time.
THEOREM BalCapacityCountsCalls == BalSpec => []CapacityCountsCalls
<1>1. BalIInv => CapacityCountsCalls
  BY DEF BalIInv, GrowthShape
<1> QED BY <1>1, BalInvariant, PTL

\* pickerBuilder remembers: breaks, state changes and address lists lower or
\* delete a managed connection's remembered capacity only on account of
\* another connection with the same node ID.
THEOREM BalCapacityKept == BalSpec => CapacityKept
<1>1. [Kept]_balVars =>
        [\A s \in subConns :
           LET i == inst[s].id IN
           /\ mem[i] = s /\ s \in subConns'
           /\ \A t \in (subConns \ subConns') \union picker' : inst'[t].id = i => t = s
           => mem'[i] = s /\ cap'[s] >= cap[s]]_balVars
  BY DEF Kept
<1> QED BY <1>1, BalInvariant, PTL DEF CapacityKept
=============================================================================
