------------------------------ MODULE Balancer ------------------------------
(***************************************************************************)
(* pkg/grpc: the client side of one backend service.  backendResolver      *)
(* lists the instances in the registry and watches it, capacityBalancer    *)
(* (v2) keeps one sub connection per address, pickerBuilder remembers one  *)
(* capacity object per node ID, and the Done callback of a picked          *)
(* connection lets its object grow.                                        *)
(*                                                                         *)
(* The registry has at most one instance per address, but one node ID may  *)
(* be at several.  A sub connection is numbered and keeps the instance, ID *)
(* and attributes included, that it was made with.  gRPC calls the         *)
(* balancer for one event at a time and delivers the states of a sub       *)
(* connection in order.  The round-robin index and the random number of    *)
(* Pick are left to chance: any connection of the picker may be selected.  *)
(***************************************************************************)
EXTENDS Integers, Sequences, FiniteSets

CONSTANTS Addrs,             \* addresses of instances of the service
          Ids,               \* node IDs, "name-id": never empty
          Maxima,            \* maxCapacity, the attribute that may be reconfigured
          Calls,             \* RPCs
          InitCapacity, IncreaseStep,
          GrowthNum, GrowthDen,  \* growthRate as a fraction
          MaxChanges,        \* bound: changes of the registry
          MaxSubConns,       \* bound: sub connections ever made
          MaxDrops           \* bound: connections that break

Instances == [addr : Addrs, id : Ids, max : Maxima]
SubConns == 1..MaxSubConns
None == 0
Resolvers == {"watch", "now"}   \* who runs resolve: Build and then watch, ResolveNow

ASSUME BalancerAssumption ==
    /\ {InitCapacity, GrowthDen} \subseteq Nat \ {0}
    /\ {IncreaseStep, GrowthNum, MaxChanges, MaxSubConns, MaxDrops} \subseteq Nat
    /\ Maxima \subseteq Nat /\ \A m \in Maxima : InitCapacity <= m
    /\ IsFiniteSet(Instances) /\ IsFiniteSet(Calls)

VARIABLES
    reg,       \* the instances in the registry
    changes,   \* changes of it so far
    events,    \* watch events on their way to the resolver
    watching,  \* the watch has been set up
    res,       \* resolve of each caller: idle, list, update
    found,     \* the instances ListServices has returned to it
    inst,      \* the instance each sub connection was made with
    subConns,  \* capacityBalancer.subConns: the sub connections it manages
    state,     \* subConnInfo.state
    actual,    \* the state of the sub connection in gRPC
    queue,     \* states that the balancer has not been told of
    drops,     \* connections broken so far
    mem,       \* pickerBuilder.subConnStates: the sub connection whose newest
               \* capacity object is remembered for each node ID
    cap,       \* curCapacity of the newest object of each sub connection, 0 for none
    picker,    \* the sub connections of the current picker, empty for an error picker
    selected,  \* the sub connection whose newest object an RPC holds, None before
               \* it holds one and once that object is replaced for good
    call,      \* RPC: none, open, failed, load (again), read (between Load and
               \* CompareAndSwap), grown
    oldCap     \* oldCap of increaseCapacity

regVars == <<reg, changes>>
resolverVars == <<watching, res, found>>
connVars == <<inst, actual, queue, drops>>
pickerVars == <<mem, cap, picker, selected>>
balancerVars == <<subConns, state, pickerVars>>
callVars == <<call, oldCap>>
balVars == <<regVars, events, resolverVars, connVars, balancerVars, callVars>>

\* The key of an instance in etcd is its address.
ByAddress(r) == \A x, y \in r : x.addr = y.addr => x = y

BalInit ==
    /\ reg \in SUBSET Instances /\ ByAddress(reg) /\ changes = 0 /\ events = 0
    /\ watching = FALSE
    /\ res = [w \in Resolvers |-> IF w = "watch" THEN "list" ELSE "idle"]
    /\ found = [w \in Resolvers |-> {}]
    /\ inst = <<>> /\ subConns = {}
    /\ state = [s \in SubConns |-> "idle"] /\ actual = [s \in SubConns |-> "idle"]
    /\ queue = [s \in SubConns |-> <<>>] /\ drops = 0
    /\ mem = [i \in Ids |-> None] /\ cap = [s \in SubConns |-> 0] /\ picker = {}
    /\ call = [c \in Calls |-> "none"] /\ selected = [c \in Calls |-> None]
    /\ oldCap = [c \in Calls |-> 0]

-----------------------------------------------------------------------------
(* pickerBuilder.Build and updatePicker.                                   *)
ReadyOf(subs, st) == {s \in subs : st[s] = "ready"}

\* Mutant: the remembered objects are replaced by those of the ready nodes.
NotReady_Dropped(memo, i) == None
\* A node without a ready connection keeps what is remembered of it.
NotReady(memo, i) == memo[i]

\* Case 1 of Build: the remembered object has the address of s.
Reuses(is, memo, s) ==
    LET old == memo[is[s].id] IN old # None /\ is[old].addr = is[s].addr

\* The ready connections are visited in the random order of a Go map.  Of
\* those with one node ID only the first can find its own object remembered;
\* the others find that of the one before, at another address, and make a
\* new object (case 2).  The last one's is remembered.  updateAttributes
\* writes the attributes that the sub connection was made with.
Build(is, ready, memo) ==
    LET of(i) == {s \in ready : is[s].id = i} IN
    \E first, last \in [Ids -> ready] :
      /\ \A i \in Ids : of(i) # {} =>
           {first[i], last[i]} \subseteq of(i) /\ (first[i] = last[i] => of(i) = {first[i]})
      /\ LET created == {s \in ready : ~(s = first[is[s].id] /\ Reuses(is, memo, s))} IN
           /\ mem' = [i \in Ids |-> IF of(i) = {} THEN NotReady(memo, i) ELSE last[i]]
           /\ cap' = [s \in SubConns |-> IF s \in created THEN InitCapacity ELSE cap[s]]
           /\ selected' = [c \in Calls |-> IF selected[c] \in created THEN None ELSE selected[c]]

\* The balancer now manages subs, with the instances is and the states st, and
\* remembers memo.
UpdatePicker(is, subs, st, memo) ==
    LET ready == ReadyOf(subs, st)
    IN /\ picker' = ready
       /\ \/ ready = {} /\ mem' = memo /\ UNCHANGED <<cap, selected>>
          \/ ready # {} /\ Build(is, ready, memo)

-----------------------------------------------------------------------------
(* capacityBalancer.                                                       *)

\* RemoveSubConn: what is remembered for the node IDs of gone is deleted.
RemoveSubConn(gone) ==
    [i \in Ids |-> IF \E s \in gone : inst[s].id = i THEN None ELSE mem[i]]

\* Sub connections whose address is no longer listed are shut down and their
\* node IDs forgotten; each new address gets one, unless NewSubConn fails.  A
\* listed address that has one is skipped, whatever the list says of it.
UpdateClientConnState(listed) ==
    LET gone  == {s \in subConns : \A x \in listed : x.addr # inst[s].addr}
        fresh == {x \in listed : \A s \in subConns \ gone : inst[s].addr # x.addr}
    IN \E made \in SUBSET fresh : \E order \in [1..Cardinality(made) -> made] :
         /\ {order[i] : i \in DOMAIN order} = made
         /\ Len(inst) + Cardinality(made) <= MaxSubConns
         /\ inst' = inst \o order
         /\ LET new == (Len(inst) + 1)..Len(inst') IN
              /\ subConns' = (subConns \ gone) \union new
              /\ actual' = [s \in SubConns |-> IF s \in gone THEN "shutdown"
                                               ELSE IF s \in new THEN "connecting" ELSE actual[s]]
              /\ queue' = [s \in SubConns |-> IF s \in gone THEN Append(queue[s], "shutdown")
                                              ELSE IF s \in new THEN <<"connecting">> ELSE queue[s]]
              /\ UNCHANGED <<state, drops>>
              /\ UpdatePicker(inst', subConns', state, RemoveSubConn(gone))

\* Mutant: a connection that was lost stays in the picker.
ShouldUpdatePicker_Gained(old, new) == old # new /\ new = "ready"
ShouldUpdatePicker(old, new) ==
    old # new /\ (old = "ready" \/ new = "ready" \/ new = "shutdown")

\* handleSubConnStateChange.  Its Connect in TransientFailure has no effect:
\* gRPC connects only what is idle.
HandleSubConnStateChange(s) ==
    /\ queue[s] # <<>>
    /\ queue' = [queue EXCEPT ![s] = Tail(@)]
    /\ LET new == Head(queue[s]) IN
         IF s \notin subConns
           THEN UNCHANGED balancerVars
           ELSE /\ state' = [state EXCEPT ![s] = new]
                /\ subConns' = IF new = "shutdown" THEN subConns \ {s} ELSE subConns
                /\ IF ShouldUpdatePicker(state[s], new)
                     THEN UpdatePicker(inst, subConns', state', mem)
                     ELSE UNCHANGED pickerVars
    /\ UNCHANGED <<regVars, events, resolverVars, inst, actual, drops, callVars>>

-----------------------------------------------------------------------------
(* The sub connections in gRPC: a connection that breaks, and one whose    *)
(* back-off is over, is idle until somebody calls Connect.                 *)
Becomes(s, new) ==
    /\ actual' = [actual EXCEPT ![s] = new]
    /\ queue' = [queue EXCEPT ![s] = Append(@, new)]
    /\ UNCHANGED <<regVars, events, resolverVars, inst, balancerVars, callVars>>

Connected(s) == actual[s] = "connecting" /\ Becomes(s, "ready") /\ UNCHANGED drops
ConnectFails(s) ==
    /\ actual[s] = "connecting" /\ drops < MaxDrops
    /\ Becomes(s, "failure") /\ drops' = drops + 1
BackoffOver(s) == actual[s] = "failure" /\ Becomes(s, "idle") /\ UNCHANGED drops
Breaks(s) ==
    /\ actual[s] = "ready" /\ drops < MaxDrops
    /\ Becomes(s, "idle") /\ drops' = drops + 1

-----------------------------------------------------------------------------
(* The registry and backendResolver.                                       *)

\* An instance registers at an address, over what is there, unregisters or
\* loses its lease.
RegistryChanges(a) ==
    /\ changes < MaxChanges
    /\ changes' = changes + 1
    /\ \E new \in {{}} \union {{x} : x \in Instances} :
         reg' = {x \in reg : x.addr # a} \union {x \in new : x.addr = a}
    /\ reg' # reg
    /\ events' = IF watching THEN events + 1 ELSE events
    /\ UNCHANGED <<resolverVars, connVars, balancerVars, callVars>>

\* gRPC asks for a new resolution when a connection fails.
ResolveNow ==
    /\ res["now"] = "idle" /\ \E s \in subConns : actual[s] \in {"failure", "idle"}
    /\ res' = [res EXCEPT !["now"] = "list"]
    /\ UNCHANGED <<regVars, events, watching, found, connVars, balancerVars, callVars>>

\* ListServices; after an error resolve goes on with no instances.
ListServices(w) ==
    /\ res[w] = "list"
    /\ res' = [res EXCEPT ![w] = "update"]
    /\ \E r \in {reg, {}} : found' = [found EXCEPT ![w] = r]
    /\ UNCHANGED <<regVars, events, watching, connVars, balancerVars, callVars>>

\* cc.UpdateState hands the list to the balancer.  After the resolution of
\* Build the watch is set up.
UpdateState(w) ==
    /\ res[w] = "update"
    /\ res' = [res EXCEPT ![w] = "idle"]
    /\ found' = [found EXCEPT ![w] = {}]
    /\ watching' = (watching \/ w = "watch")
    /\ UpdateClientConnState(found[w])
    /\ UNCHANGED <<regVars, events, callVars>>

WatchEvent ==
    /\ events > 0 /\ watching /\ res["watch"] = "idle"
    /\ events' = events - 1
    /\ res' = [res EXCEPT !["watch"] = "list"]
    /\ UNCHANGED <<regVars, watching, found, connVars, balancerVars, callVars>>

-----------------------------------------------------------------------------
(* RPCs: Pick, Done, increaseCapacity.                                     *)
Pick(c) ==
    /\ call[c] = "none"
    /\ \E s \in picker : selected' = [selected EXCEPT ![c] = s]
    /\ call' = [call EXCEPT ![c] = "open"]
    /\ UNCHANGED <<regVars, events, resolverVars, connVars, subConns, state, mem, cap, picker, oldCap>>

\* Done with an error: the call lets go of its object.
DoneFailed(c) ==
    /\ call[c] = "open"
    /\ call' = [call EXCEPT ![c] = "failed"]
    /\ selected' = [selected EXCEPT ![c] = None]
    /\ UNCHANGED <<regVars, events, resolverVars, connVars, subConns, state, mem, cap, picker, oldCap>>

Replaced(c) == selected[c] = None
Full(c) == ~Replaced(c) /\ cap[selected[c]] >= inst[selected[c]].max

\* Done without one, or the loop again: curCapacity.Load; a full node returns.
LoadCapacity(c) ==
    /\ call[c] \in {"open", "load"}
    /\ call' = [call EXCEPT ![c] = IF Full(c) THEN "grown" ELSE "read"]
    /\ oldCap' = [oldCap EXCEPT ![c] = IF Full(c) \/ Replaced(c) THEN 0 ELSE cap[selected[c]]]
    /\ UNCHANGED <<regVars, events, resolverVars, connVars, balancerVars>>

MaxOf(a, b) == IF a > b THEN a ELSE b
MinOf(a, b) == IF a < b THEN a ELSE b
NewCap(old, max) == MinOf(old + MaxOf(IncreaseStep, (old * GrowthNum) \div GrowthDen), max)

\* Mutant: the new capacity is stored without a comparison.
Swaps_Always(c) == TRUE
Swaps(c) == cap[selected[c]] = oldCap[c]

\* Back to Load if another call was faster.
CompareAndSwap(c) ==
    /\ call[c] = "read"
    /\ oldCap' = [oldCap EXCEPT ![c] = 0]
    /\ \/ /\ Replaced(c)
          /\ call' = [call EXCEPT ![c] = "grown"]
          /\ UNCHANGED cap
       \/ /\ ~Replaced(c) /\ Swaps(c)
          /\ call' = [call EXCEPT ![c] = "grown"]
          /\ cap' = [cap EXCEPT ![selected[c]] = NewCap(oldCap[c], inst[selected[c]].max)]
       \/ /\ ~Replaced(c) /\ ~Swaps(c)
          /\ call' = [call EXCEPT ![c] = "load"]
          /\ UNCHANGED cap
    /\ UNCHANGED <<regVars, events, resolverVars, connVars, subConns, state, mem, picker, selected>>

Call(c) == Pick(c) \/ DoneFailed(c) \/ LoadCapacity(c) \/ CompareAndSwap(c)

-----------------------------------------------------------------------------
Resolver == (\E w \in Resolvers : ListServices(w) \/ UpdateState(w)) \/ WatchEvent
SubConn(s) == Connected(s) \/ ConnectFails(s) \/ BackoffOver(s) \/ Breaks(s)

BalNext ==
    \/ \E a \in Addrs : RegistryChanges(a)
    \/ ResolveNow \/ Resolver
    \/ \E s \in SubConns : s <= Len(inst) /\ (SubConn(s) \/ HandleSubConnStateChange(s))
    \/ \E c \in Calls : Call(c)

BalSpec == BalInit /\ [][BalNext]_balVars

-----------------------------------------------------------------------------
\* The picker that gRPC uses holds exactly the connections that the balancer
\* manages and was last told to be ready, whatever the order of address
\* lists, state changes and shutdowns.
PickerIsReadySet == picker = ReadyOf(subConns, state)

\* What k successful calls make of the initial capacity.
CapacityAfter(max) ==
    LET after[k \in 0..Cardinality(Calls)] ==
          IF k = 0 THEN InitCapacity ELSE NewCap(after[k - 1], max)
    IN after

\* The successful calls whose increaseCapacity has returned, on the newest
\* object of s.
GrownBy(s) == {c \in Calls : call[c] = "grown" /\ selected[c] = s}

\* No growth is lost or counted twice: the capacity of an object is what the
\* successful calls on it make of the initial capacity, also when calls end at
\* the same time, when the connection breaks in between and when the picker is
\* rebuilt.
CapacityCountsCalls ==
    \A s \in 1..Len(inst) :
       cap[s] # 0 => cap[s] = CapacityAfter(inst[s].max)[Cardinality(GrownBy(s))]

\* The capacity remembered of a sub connection outlives every break of the
\* connection and every list: it is forgotten or lowered only together with
\* the sub connection, or because another one with the same node ID is
\* delisted or ready.
CapacityKept ==
    [][\A s \in subConns :
          LET i == inst[s].id IN
          /\ mem[i] = s /\ s \in subConns'
          /\ \A t \in (subConns \ subConns') \union picker' : inst'[t].id = i => t = s
          => mem'[i] = s /\ cap'[s] >= cap[s]]_balVars
=============================================================================
