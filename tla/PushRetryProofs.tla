-------------------------- MODULE PushRetryProofs ---------------------------
(***************************************************************************)
(* The retransmission manager, for any pushes, keys, links and retry       *)
(* limit: the counter of tasks is exact, and a task ends for a reason.     *)
(***************************************************************************)
EXTENDS PushRetry, FiniteSetTheorems, TLAPS

\* A task counts its retries, with one timer at a time: it is armed once by
\* Start and then only by the retry that used it up.
CountShape ==
    \A p \in Pushes :
        /\ pc[p] \in {"idle", "check", "store", "arm"} =>
             timer[p] = "off" /\ rt[p] = "idle" /\ count[p] = 0
        /\ timer[p] = "on" => rt[p] \in {"idle", "publish"}
        /\ (timer[p] = "on" \/ rt[p] \notin {"idle", "delete", "finish"}) => count[p] < MaxRetries

\* A goroutine holds a task to be stopped between LoadAndDelete and the
\* counter, and knows the key it is about to delete.
VictimShape ==
    /\ \A t \in Pushes : victim[t] # None <=> rt[t] = "finish"
    /\ \A l \in Links : victim[l] # None <=> h[l] \in {"finish", "rangeFinish"}
    /\ \A l \in Links : h[l] \in {"delete", "rangeDelete"} => hKey[l] \in Keys
    /\ victim[Closer] # None <=> cl = "finish"

\* Why a goroutine is about to delete.
ReasonShape ==
    /\ \A t \in Pushes : rt[t] = "delete" => count[t] = MaxRetries \/ lk[LinkOf[t]] = "closed"
    /\ \A l \in Links : h[l] \in {"range", "rangeDelete", "rangeFinish"} => Over(l)
    /\ \A l \in Links : h[l] = "rangeDelete" => \E t \in Pushes : KeyOf[t] = hKey[l] /\ SameLink(t, l)
    /\ cl # "idle" => closed
    /\ \A k \in Keys : tasks[k] # None => KeyOf[tasks[k]] = k

RetryIInv == TypeOK /\ CountShape /\ VictimShape /\ ReasonShape
-----------------------------------------------------------------------------
(* The inductive invariant.                                                *)

\* Who deletes: a push's own timer goroutine, a link's handler, Closer.
LEMMA DeleterFacts ==
    /\ \A p \in Pushes : p \in Deleters /\ p # Closer /\ p \notin Links
    /\ \A l \in Links : l \in Deleters /\ l # Closer /\ l \notin Pushes
    /\ Closer \in Deleters
  BY RetryAssumption DEF RetryAssumption, Deleters

\* A new manager.
LEMMA RetryInit == Init => RetryIInv
<1> SUFFICES ASSUME Init PROVE RetryIInv
  OBVIOUS
<1> USE RetryAssumption, DeleterFacts DEF RetryAssumption, Init
<1>1. TypeOK
  <2>1. 0 \in 0..MaxRetries /\ 0 \in Int
    OBVIOUS
  <2> QED BY <2>1 DEF TypeOK
<1>2. CountShape
  BY DEF CountShape
<1>3. VictimShape
  BY DEF VictimShape
<1>4. ReasonShape
  BY DEF ReasonShape
<1> QED BY <1>1, <1>2, <1>3, <1>4 DEF RetryIInv

\* OnBackendPushMessage and Start.
LEMMA PushIInv ==
  ASSUME RetryIInv, NEW p \in Pushes, PushBegin(p) \/ PushCall(p) PROVE RetryIInv'
<1> USE RetryAssumption, DeleterFacts
    DEF RetryAssumption, RetryIInv, TypeOK, CountShape, VictimShape, ReasonShape, SameLink, Over,
        mapVars, tmrVars, hVars
<1>1. CASE PushBegin(p)
  BY <1>1 DEF PushBegin, Outcomes, Pushed
<1>2. CASE StartCheck(p)
  BY <1>2 DEF StartCheck
<1>3. CASE StartStore(p)
  <2>1. CASE tasks[KeyOf[p]] # None
    BY <1>3, <2>1 DEF StartStore
  <2>2. CASE tasks[KeyOf[p]] = None
    <3>1. /\ pc[p] = "store" /\ pc' = [pc EXCEPT ![p] = "arm"]
          /\ tasks' = [tasks EXCEPT ![KeyOf[p]] = p]
          /\ UNCHANGED <<total, closed, tmrVars, rt, count, dlv, lk, hVars, todo, victim, cl>>
      BY <1>3, <2>2 DEF StartStore
    <3>2. TypeOK'
      BY <3>1
    <3>3. CountShape'
      BY <3>1
    <3>4. VictimShape' /\ ReasonShape'
      BY <3>1
    <3> QED BY <3>2, <3>3, <3>4
  <2> QED BY <2>1, <2>2
<1>4. CASE StartArm(p)
  BY <1>4 DEF StartArm
<1>5. CASE StartPublish(p)
  BY <1>5 DEF StartPublish
<1> QED BY <1>1, <1>2, <1>3, <1>4, <1>5 DEF PushCall

\* Task.retry.
LEMMA TimerIInv ==
  ASSUME RetryIInv, NEW t \in Pushes, Retry(t) PROVE RetryIInv'
<1> USE RetryAssumption, DeleterFacts
    DEF RetryAssumption, RetryIInv, TypeOK, CountShape, VictimShape, ReasonShape, SameLink, Over,
        mapVars, tmrVars, hVars
<1>1. CASE Fire(t)
  BY <1>1 DEF Fire
<1>2. CASE RetryCheck(t)
  BY <1>2 DEF RetryCheck
<1>3. CASE RetryCount(t)
  <2>1. PICK r \in {"delete", "push"} :
          /\ rt' = [rt EXCEPT ![t] = r]
          /\ r = "delete" <=> count[t] + 1 >= MaxRetries
    BY <1>3 DEF RetryCount, Exhausted
  <2>2. /\ rt[t] = "count" /\ count' = [count EXCEPT ![t] = @ + 1]
        /\ UNCHANGED <<pc, mapVars, tmrVars, dlv, lk, hVars, todo, victim, cl>>
    BY <1>3 DEF RetryCount
  <2>3. count[t] < MaxRetries /\ count[t] \in Nat /\ count'[t] = count[t] + 1
    BY <2>2
  <2>4. TypeOK'
    BY <2>1, <2>2, <2>3
  <2>5. CountShape'
    BY <2>1, <2>2, <2>3
  <2>6. VictimShape'
    BY <2>1, <2>2
  <2>7. ReasonShape'
    <3>1. \A u \in Pushes : u # t => rt'[u] = rt[u] /\ count'[u] = count[u]
      BY <2>1, <2>2
    <3> QED BY <2>1, <2>2, <2>3, <3>1
  <2> QED BY <2>4, <2>5, <2>6, <2>7
<1>4. CASE RetryPush(t)
  <2>1. PICK o \in Outcomes(t) :
          /\ Pushed(t, o)
          /\ rt' = [rt EXCEPT ![t] = CASE o = "sent" -> "rearm" [] o = "failed" -> "failed"
                                          [] OTHER -> "delete"]
    BY <1>4 DEF RetryPush
  <2>2. /\ rt[t] = "push"
        /\ UNCHANGED <<pc, mapVars, tmrVars, count, lk, hVars, todo, victim, cl>>
    BY <1>4 DEF RetryPush
  <2>3. rt'[t] \in {"rearm", "failed", "delete"} /\ (rt'[t] = "delete" => lk[LinkOf[t]] = "closed")
    BY <2>1, <2>2 DEF Outcomes
  <2>4. dlv' \in [Links -> SUBSET Keys]
    BY <2>1 DEF Pushed
  <2>5. PICK r \in {"rearm", "failed", "delete"} : rt' = [rt EXCEPT ![t] = r]
    BY <2>1 DEF Outcomes
  <2>6. TypeOK'
    BY <2>2, <2>3, <2>4, <2>5
  <2>7. CountShape'
    BY <2>2, <2>3, <2>5
  <2>8. VictimShape'
    BY <2>2, <2>3, <2>5
  <2>9. ReasonShape'
    <3>1. \A u \in Pushes : u # t => rt'[u] = rt[u]
      BY <2>5
    <3>2. SameLink(t, LinkOf[t])
      OBVIOUS
    <3> QED BY <2>2, <2>3, <3>1, <3>2
  <2> QED BY <2>6, <2>7, <2>8, <2>9
<1>5. CASE RetryRearm(t)
  BY <1>5 DEF RetryRearm
<1>6. CASE RetryPublish(t)
  BY <1>6 DEF RetryPublish
<1>7. CASE RetryDelete(t)
  BY <1>7 DEF RetryDelete, LoadAndDelete
<1>8. CASE RetryFinish(t)
  BY <1>8 DEF RetryFinish, FinishDelete, Stopped, Uncounted
<1> QED BY <1>1, <1>2, <1>3, <1>4, <1>5, <1>6, <1>7, <1>8 DEF Retry

\* The handleConn goroutine of a link: acknowledgements, then OnDisconnect.
LEMMA HandlerIInv ==
  ASSUME RetryIInv, NEW l \in Links,
         Handler(l) \/ ReceiveEnds(l) \/ LinkCloses(l) \/ \E k \in Keys : AckArrives(l, k) \/ AckDropped(l, k)
  PROVE  RetryIInv'
<1> USE RetryAssumption, DeleterFacts
    DEF RetryAssumption, RetryIInv, TypeOK, CountShape, VictimShape, ReasonShape, SameLink, Over,
        mapVars, tmrVars, hVars
<1>1. CASE ReceiveEnds(l) \/ LinkCloses(l)
  BY <1>1 DEF ReceiveEnds, LinkCloses
<1>2. ASSUME NEW k \in Keys, AckArrives(l, k) \/ AckDropped(l, k) PROVE RetryIInv'
  <2>1. CASE AckArrives(l, k)
    BY <2>1 DEF AckArrives
  <2>2. CASE AckDropped(l, k)
    BY <2>2 DEF AckDropped
  <2> QED BY <1>2, <2>1, <2>2
<1>3. CASE AckDelete(l)
  BY <1>3 DEF AckDelete, LoadAndDelete
<1>4. CASE AckFinish(l)
  BY <1>4 DEF AckFinish, FinishDelete, Stopped, Uncounted
<1>5. CASE Disconnect(l)
  BY <1>5 DEF Disconnect
<1>6. ASSUME NEW k \in Keys, RangeVisit(l, k) PROVE RetryIInv'
  <2>1. /\ h[l] = "range" /\ todo' = [todo EXCEPT ![l] = @ \ {k}]
        /\ UNCHANGED <<pc, mapVars, tmrVars, rt, count, dlv, lk, seen, victim, cl>>
    BY <1>6 DEF RangeVisit
  <2>2. CASE tasks[k] # None /\ SameLink(tasks[k], l)
    <3>1. /\ h' = [h EXCEPT ![l] = "rangeDelete"] /\ hKey' = [hKey EXCEPT ![l] = k]
          /\ tasks[k] \in Pushes /\ KeyOf[tasks[k]] = k /\ lk[l] # "open"
      BY <1>6, <2>1, <2>2 DEF RangeVisit
    <3>2. TypeOK'
      BY <2>1, <3>1
    <3>3. CountShape' /\ VictimShape'
      BY <2>1, <3>1
    <3>4. ReasonShape'
      BY <2>1, <2>2, <3>1
    <3> QED BY <3>2, <3>3, <3>4
  <2>3. CASE ~(tasks[k] # None /\ SameLink(tasks[k], l))
    <3>1. UNCHANGED <<h, hKey>>
      BY <1>6, <2>3 DEF RangeVisit
    <3>2. TypeOK'
      BY <2>1, <3>1
    <3>3. CountShape' /\ VictimShape' /\ ReasonShape'
      BY <2>1, <3>1
    <3> QED BY <3>2, <3>3
  <2> QED BY <2>2, <2>3
<1>7. CASE RangeDelete(l)
  BY <1>7 DEF RangeDelete, LoadAndDelete
<1>8. CASE RangeFinish(l)
  BY <1>8 DEF RangeFinish, FinishDelete, Stopped, Uncounted
<1>9. CASE RangeDone(l)
  BY <1>9 DEF RangeDone
<1> QED BY <1>1, <1>2, <1>3, <1>4, <1>5, <1>6, <1>7, <1>8, <1>9 DEF Handler

\* Manager.Close.
LEMMA CloseIInv == ASSUME RetryIInv, CloseBegin \/ CloseRun PROVE RetryIInv'
<1> USE RetryAssumption, DeleterFacts
    DEF RetryAssumption, RetryIInv, TypeOK, CountShape, VictimShape, ReasonShape, SameLink, Over,
        mapVars, tmrVars, hVars
<1>1. CASE CloseBegin
  BY <1>1 DEF CloseBegin
<1>2. ASSUME NEW k \in Keys, CloseVisit(k) PROVE RetryIInv'
  BY <1>2 DEF CloseVisit, LoadAndDelete
<1>3. CASE CloseFinish
  BY <1>3 DEF CloseFinish, FinishDelete, Stopped, Uncounted
<1>4. CASE CloseEnd
  BY <1>4 DEF CloseEnd
<1> QED BY <1>1, <1>2, <1>3, <1>4 DEF CloseRun

\* Every step preserves the invariant.
LEMMA RetryNext == RetryIInv /\ [Next]_vars => RetryIInv'
<1>1. ASSUME RetryIInv, UNCHANGED vars PROVE RetryIInv'
  BY <1>1 DEF RetryIInv, TypeOK, CountShape, VictimShape, ReasonShape, SameLink, Over, vars, mapVars,
              tmrVars, hVars
<1> QED BY <1>1, PushIInv, TimerIInv, HandlerIInv, CloseIInv DEF Next, Finished

\* The invariant holds of every behaviour.
LEMMA RetryInvariant == Spec => []RetryIInv
  BY RetryInit, RetryNext, PTL DEF Spec
-----------------------------------------------------------------------------
(* The counter.                                                            *)

Entries == {k \in Keys : tasks[k] # None}
Starting == {p \in Pushes : pc[p] \in {"arm", "publish"}}
Stopping == {d \in Deleters : victim[d] # None}

\* Finite sets, one element at a time.
LEMMA Counting ==
  ASSUME NEW S, S \in SUBSET Keys \/ S \in SUBSET Pushes \/ S \in SUBSET Deleters
  PROVE  /\ IsFiniteSet(S) /\ Cardinality(S) \in Nat
         /\ Cardinality({}) = 0
         /\ \A x : x \notin S => Cardinality(S \union {x}) = Cardinality(S) + 1
         /\ \A x \in S : Cardinality(S \ {x}) = Cardinality(S) - 1
<1>1. IsFiniteSet(Deleters)
  <2>1. IsFiniteSet(Pushes \union Links)
    BY FS_Union, RetryAssumption DEF RetryAssumption
  <2>2. IsFiniteSet({Closer})
    BY FS_Singleton
  <2> QED BY <2>1, <2>2, FS_Union DEF Deleters
<1>2. IsFiniteSet(S)
  BY <1>1, FS_Subset, RetryAssumption DEF RetryAssumption
<1> QED BY <1>2, FS_CardinalityType, FS_EmptySet, FS_AddElement, FS_RemoveElement

\* The counter and the three sets.
LEMMA CountTypes ==
    /\ Cardinality(Entries) \in Nat /\ Cardinality(Starting) \in Nat
    /\ Cardinality(Stopping) \in Nat
<1>1. Entries \in SUBSET Keys /\ Starting \in SUBSET Pushes /\ Stopping \in SUBSET Deleters
  BY DEF Entries, Starting, Stopping
<1> QED BY <1>1, Counting

\* LoadAndDelete moves a task from the map to the goroutine, if there is one.
LEMMA DeleteCount ==
  ASSUME RetryIInv, TotalCountsTasks, NEW d \in Deleters, NEW k \in Keys, LoadAndDelete(d, k),
         victim[d] = None, UNCHANGED <<total, pc>>
  PROVE  TotalCountsTasks'
<1> USE RetryAssumption DEF RetryAssumption, RetryIInv, TypeOK, LoadAndDelete
<1>0. Starting' = Starting
  BY DEF Starting
<1>1. CASE tasks[k] = None
  <2>1. tasks' = tasks /\ victim' = victim
    BY <1>1
  <2>2. Entries' = Entries /\ Stopping' = Stopping
    BY <2>1 DEF Entries, Stopping
  <2> QED BY <1>0, <2>2 DEF TotalCountsTasks, Entries, Starting, Stopping
<1>2. CASE tasks[k] # None
  <2>1. Entries' = Entries \ {k} /\ k \in Entries /\ Entries \in SUBSET Keys
    BY <1>2 DEF Entries
  <2>2. Stopping' = Stopping \union {d} /\ d \notin Stopping /\ Stopping \in SUBSET Deleters
    BY <1>2 DEF Stopping
  <2>3. Cardinality(Entries') = Cardinality(Entries) - 1
    BY <2>1, Counting
  <2>4. Cardinality(Stopping') = Cardinality(Stopping) + 1
    BY <2>2, Counting
  <2>5. TotalCountsTasks <=>
          total = Cardinality(Entries) - Cardinality(Starting) + Cardinality(Stopping)
    BY DEF TotalCountsTasks, Entries, Starting, Stopping
  <2>6. TotalCountsTasks' <=>
          total' = Cardinality(Entries') - Cardinality(Starting') + Cardinality(Stopping')
    BY DEF TotalCountsTasks, Entries, Starting, Stopping
  <2> QED BY <1>0, <2>3, <2>4, <2>5, <2>6, CountTypes
<1> QED BY <1>1, <1>2

\* The rest of stopAndDeleteTask counts it.
LEMMA FinishCount ==
  ASSUME RetryIInv, TotalCountsTasks, NEW d \in Deleters, FinishDelete(d), UNCHANGED <<tasks, pc>>
  PROVE  TotalCountsTasks'
<1> USE DEF RetryIInv, TypeOK, FinishDelete, Uncounted
<1>1. Entries' = Entries /\ Starting' = Starting
  BY DEF Entries, Starting
<1>2. Stopping' = Stopping \ {d} /\ d \in Stopping /\ Stopping \in SUBSET Deleters
  BY DEF Stopping
<1>3. Cardinality(Stopping') = Cardinality(Stopping) - 1
  BY <1>2, Counting
<1>4. TotalCountsTasks <=>
        total = Cardinality(Entries) - Cardinality(Starting) + Cardinality(Stopping)
  BY DEF TotalCountsTasks, Entries, Starting, Stopping
<1>5. TotalCountsTasks' <=>
        total' = Cardinality(Entries') - Cardinality(Starting') + Cardinality(Stopping')
  BY DEF TotalCountsTasks, Entries, Starting, Stopping
<1> QED BY <1>1, <1>3, <1>4, <1>5, CountTypes

\* Start: the entry first, the counter last.
LEMMA StartCount ==
  ASSUME RetryIInv, TotalCountsTasks, NEW p \in Pushes, PushBegin(p) \/ PushCall(p)
  PROVE  TotalCountsTasks'
<1> USE RetryAssumption DEF RetryAssumption, RetryIInv, TypeOK, mapVars
<1>0. Stopping' = Stopping
  BY DEF Stopping, PushBegin, PushCall, StartCheck, StartStore, StartArm, StartPublish
<1>1. TotalCountsTasks <=>
        total = Cardinality(Entries) - Cardinality(Starting) + Cardinality(Stopping)
  BY DEF TotalCountsTasks, Entries, Starting, Stopping
<1>2. TotalCountsTasks' <=>
        total' = Cardinality(Entries') - Cardinality(Starting') + Cardinality(Stopping')
  BY DEF TotalCountsTasks, Entries, Starting, Stopping
<1>3. Entries \in SUBSET Keys /\ Starting \in SUBSET Pushes
  BY DEF Entries, Starting
<1>4. CASE PushBegin(p) \/ StartCheck(p) \/ StartArm(p) \/ (StartStore(p) /\ tasks[KeyOf[p]] # None)
  <2>1. Entries' = Entries /\ Starting' = Starting /\ total' = total
    BY <1>4 DEF Entries, Starting, PushBegin, StartCheck, StartArm, StartStore
  <2> QED BY <1>0, <1>1, <1>2, <2>1
<1>5. CASE StartStore(p) /\ tasks[KeyOf[p]] = None
  <2>1. Entries' = Entries \union {KeyOf[p]} /\ KeyOf[p] \notin Entries
    BY <1>5 DEF Entries, StartStore
  <2>2. Starting' = Starting \union {p} /\ p \notin Starting /\ total' = total
    BY <1>5 DEF Starting, StartStore
  <2>3. /\ Cardinality(Entries') = Cardinality(Entries) + 1
        /\ Cardinality(Starting') = Cardinality(Starting) + 1
    BY <1>3, <2>1, <2>2, Counting
  <2> QED BY <1>0, <1>1, <1>2, <2>2, <2>3, CountTypes
<1>6. CASE StartPublish(p)
  <2>1. Entries' = Entries /\ total' = total + 1
    BY <1>6 DEF Entries, StartPublish
  <2>2. Starting' = Starting \ {p} /\ p \in Starting
    BY <1>6 DEF Starting, StartPublish
  <2>3. Cardinality(Starting') = Cardinality(Starting) - 1
    BY <1>3, <2>2, Counting
  <2> QED BY <1>0, <1>1, <1>2, <2>1, <2>3, CountTypes
<1> QED BY <1>4, <1>5, <1>6 DEF PushCall

\* Steps that touch neither the counter nor what it counts.
LEMMA FrameCount ==
  ASSUME TotalCountsTasks, UNCHANGED <<total, tasks, pc, victim>> PROVE TotalCountsTasks'
  BY DEF TotalCountsTasks

\* Every step keeps the counter exact.
LEMMA NextCount == RetryIInv /\ TotalCountsTasks /\ [Next]_vars => TotalCountsTasks'
<1> SUFFICES ASSUME RetryIInv, TotalCountsTasks, [Next]_vars PROVE TotalCountsTasks'
  OBVIOUS
<1> USE DeleterFacts DEF mapVars
<1>1. ASSUME NEW t \in Pushes, Retry(t) PROVE TotalCountsTasks'
  <2>1. CASE Fire(t) \/ RetryCheck(t) \/ RetryCount(t) \/ RetryPush(t) \/ RetryRearm(t)
             \/ RetryPublish(t)
    BY <2>1, FrameCount DEF Fire, RetryCheck, RetryCount, RetryPush, RetryRearm, RetryPublish
  <2>2. CASE RetryDelete(t)
    <3>1. victim[t] = None /\ KeyOf[t] \in Keys
      BY <2>2, RetryAssumption DEF RetryDelete, RetryIInv, VictimShape, RetryAssumption
    <3> QED BY <2>2, <3>1, DeleteCount DEF RetryDelete
  <2>3. CASE RetryFinish(t)
    BY <2>3, FinishCount DEF RetryFinish
  <2> QED BY <1>1, <2>1, <2>2, <2>3 DEF Retry
<1>2. ASSUME NEW l \in Links, Handler(l) PROVE TotalCountsTasks'
  <2>1. CASE Disconnect(l) \/ (\E k \in Keys : RangeVisit(l, k)) \/ RangeDone(l)
    BY <2>1, FrameCount DEF Disconnect, RangeVisit, RangeDone
  <2>2. CASE AckDelete(l) \/ RangeDelete(l)
    <3>1. victim[l] = None /\ hKey[l] \in Keys
      BY <2>2 DEF AckDelete, RangeDelete, RetryIInv, VictimShape
    <3> QED BY <2>2, <3>1, DeleteCount DEF AckDelete, RangeDelete
  <2>3. CASE AckFinish(l) \/ RangeFinish(l)
    BY <2>3, FinishCount DEF AckFinish, RangeFinish
  <2> QED BY <1>2, <2>1, <2>2, <2>3 DEF Handler
<1>3. CASE CloseRun
  <2>1. ASSUME NEW k \in Keys, CloseVisit(k) PROVE TotalCountsTasks'
    <3>1. victim[Closer] = None
      BY <2>1 DEF CloseVisit, RetryIInv, VictimShape
    <3> QED BY <2>1, <3>1, DeleteCount DEF CloseVisit
  <2>2. CASE CloseFinish
    BY <2>2, FinishCount DEF CloseFinish
  <2>3. CASE CloseEnd
    BY <2>3, FrameCount DEF CloseEnd
  <2> QED BY <1>3, <2>1, <2>2, <2>3 DEF CloseRun
<1>4. CASE CloseBegin \/ Finished \/ UNCHANGED vars
  BY <1>4, FrameCount DEF CloseBegin, Finished, vars
<1>5. CASE \E l \in Links : ReceiveEnds(l) \/ LinkCloses(l) \/ \E k \in Keys : AckArrives(l, k) \/ AckDropped(l, k)
  BY <1>5, FrameCount DEF ReceiveEnds, LinkCloses, AckArrives, AckDropped
<1> QED BY <1>1, <1>2, <1>3, <1>4, <1>5, StartCount DEF Next

\* totalTasks, which GetStats reports, is the number of entries of the map up
\* to the starts and deletions that are halfway: no interleaving of Start,
\* retry, Stop, StopByLinkID and Close makes it drift.
THEOREM RetryTotalCountsTasks == Spec => []TotalCountsTasks
<1>1. Init => TotalCountsTasks
  <2> SUFFICES ASSUME Init PROVE TotalCountsTasks
    OBVIOUS
  <2>1. Entries = {} /\ Starting = {} /\ Stopping = {}
    BY DEF Init, Entries, Starting, Stopping
  <2>2. Cardinality({}) = 0
    BY FS_EmptySet
  <2>3. total = 0
    BY DEF Init
  <2>4. TotalCountsTasks <=>
          total = Cardinality(Entries) - Cardinality(Starting) + Cardinality(Stopping)
    BY DEF TotalCountsTasks, Entries, Starting, Stopping
  <2> QED BY <2>1, <2>2, <2>3, <2>4
<1> QED BY <1>1, NextCount, RetryInvariant, PTL DEF Spec

-----------------------------------------------------------------------------
(* Why a task ends.                                                        *)

Reason(k) ==
    \/ GivenUp(k)
    \/ \E t \in Pushes, l \in Links : KeyOf[t] = k /\ SameLink(t, l) /\ Over(l)

\* Each of the four deleters has its reason.
LEMMA EndHasReason ==
  ASSUME RetryIInv, [Next]_vars, NEW k \in Keys, Ends(k) PROVE Reason(k)
<1> USE RetryAssumption DEF RetryAssumption, RetryIInv, TypeOK, Ends, mapVars
<1>1. ASSUME NEW d \in Deleters, NEW i \in Keys, LoadAndDelete(d, i) PROVE i = k
  BY <1>1 DEF LoadAndDelete
<1>2. ASSUME NEW t \in Pushes, RetryDelete(t) PROVE Reason(k)
  <2>1. KeyOf[t] = k
    BY <1>1, <1>2, DeleterFacts DEF RetryDelete
  <2>2. LinkOf[t] \in Links /\ SameLink(t, LinkOf[t])
    BY DEF SameLink
  <2> QED BY <1>2, <2>1, <2>2 DEF RetryDelete, ReasonShape, Reason, GivenUp, Over
<1>3. ASSUME NEW l \in Links, AckDelete(l) \/ RangeDelete(l) PROVE Reason(k)
  <2>1. hKey[l] = k
    BY <1>1, <1>3, DeleterFacts DEF AckDelete, RangeDelete, VictimShape
  <2> QED BY <1>3, <2>1 DEF AckDelete, RangeDelete, ReasonShape, Reason, GivenUp, Over
<1>4. ASSUME NEW i \in Keys, CloseVisit(i) PROVE Reason(k)
  BY <1>4 DEF CloseVisit, ReasonShape, Reason, GivenUp, Over
<1>5. ASSUME NEW p \in Pushes, PushBegin(p) \/ PushCall(p) PROVE FALSE
  BY <1>5 DEF PushBegin, PushCall, StartCheck, StartStore, StartArm, StartPublish
<1>6. ASSUME UNCHANGED tasks PROVE FALSE
  BY <1>6
<1> QED BY <1>2, <1>3, <1>4, <1>5, <1>6 DEF Next, Retry, Fire, RetryCheck, RetryCount, RetryPush,
           RetryRearm, RetryPublish, RetryFinish, Handler, ReceiveEnds, LinkCloses, AckFinish, Disconnect,
           RangeVisit, RangeFinish, RangeDone, AckArrives, AckDropped, CloseBegin, CloseRun,
           CloseFinish, CloseEnd, Finished, vars

\* The manager gives up a delivery only for a reason: acknowledged, retries
\* used up, not encodable, the manager closed, or a link of this key or ID over.
THEOREM RetryTaskEndsForAReason == Spec => TaskEndsForAReason
<1>1. RetryIInv /\ [Next]_vars =>
        [\A k \in Keys : Ends(k) =>
          \/ GivenUp(k)
          \/ \E t \in Pushes, l \in Links : KeyOf[t] = k /\ SameLink(t, l) /\ Over(l)]_vars
  BY EndHasReason DEF Reason
<1> QED BY <1>1, RetryInvariant, PTL DEF Spec, TaskEndsForAReason

\* As long as the pushes of a key go to one link and links have different IDs
\* (no reconnect), a task that was not given up ends with its own link.
THEOREM RetryOwnLink ==
  ASSUME \A t, u \in Pushes : KeyOf[t] = KeyOf[u] => LinkOf[t] = LinkOf[u],
         \A l, m \in Links : IdOf[l] = IdOf[m] => l = m
  PROVE  Spec => TaskEndsWithOwnLink
<1>1. RetryIInv /\ [Next]_vars =>
        [\A k \in Keys : Ends(k) => GivenUp(k) \/ Over(LinkOf[tasks[k]])]_vars
  <2> SUFFICES ASSUME RetryIInv, [Next]_vars, NEW k \in Keys, Ends(k)
               PROVE  GivenUp(k) \/ Over(LinkOf[tasks[k]])
    OBVIOUS
  <2>1. tasks[k] \in Pushes /\ KeyOf[tasks[k]] = k
    BY RetryAssumption DEF Ends, RetryIInv, TypeOK, ReasonShape
  <2>2. ASSUME NEW t \in Pushes, NEW l \in Links, KeyOf[t] = k, SameLink(t, l)
        PROVE  l = LinkOf[tasks[k]]
    BY <2>1, <2>2, RetryAssumption DEF SameLink, RetryAssumption
  <2> QED BY <2>2, EndHasReason DEF Reason
<1> QED BY <1>1, RetryInvariant, PTL DEF Spec, TaskEndsWithOwnLink
=============================================================================
