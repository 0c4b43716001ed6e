----------------------------- MODULE PushRetry ------------------------------
(***************************************************************************)
(* pkg/pushretry/manager.go with its callers in internal/linkevent:        *)
(* OnBackendPushMessage pushes a downstream message and then starts a      *)
(* retransmission task for it, the client's acknowledgement stops the      *)
(* task, a disconnect stops the tasks of the link.                         *)
(*                                                                         *)
(* Goroutines: one per push call p (the task it may create is named p      *)
(* too), one per firing timer of a task, the handleConn goroutine of each  *)
(* link, and a caller of Manager.Close.  Steps are the operations on the   *)
(* sync.Map, on the timers and on timerPtr.                                *)
(***************************************************************************)
EXTENDS Integers, FiniteSets

CONSTANTS Pushes,      \* calls of OnBackendPushMessage, and their tasks
          Keys,        \* retry keys "biz-key"
          Links,       \* links; a reconnect is a second link with the same ID
          KeyOf,       \* retry key of each push
          LinkOf,      \* link each push goes to
          IdOf,        \* Link.ID() of each link
          MaxRetries,  \* maxRetries
          None

Closer == "closer"
Deleters == Pushes \union Links \union {Closer}   \* who runs stopAndDeleteTask

\* A deleter is one goroutine: pushes, links and Closer have different names.
ASSUME RetryAssumption ==
    /\ KeyOf \in [Pushes -> Keys] /\ LinkOf \in [Pushes -> Links]
    /\ MaxRetries \in Nat \ {0}
    /\ None \notin Pushes \union Keys
    /\ IsFiniteSet(Pushes) /\ IsFiniteSet(Keys) /\ IsFiniteSet(Links)
    /\ Pushes \intersect Links = {} /\ Closer \notin Pushes \union Links

VARIABLES
    pc,      \* push call: idle, check, store, arm, publish, done
    tasks,   \* Manager.tasks
    total,   \* Manager.totalTasks
    closed,  \* Manager.closed
    timer,   \* the task's newest timer is pending: "on" or "off"
    ptr,     \* timerPtr: "nil", "live" (the newest timer), "stale" (an older one)
    rt,      \* Task.retry: idle, check, count, push, rearm, publish, delete,
             \* failed (the push did), finish
    count,   \* Task.retryCount
    lk,      \* links: "open", "ended" (receiveCh is closed, or the server's context
             \* cancelled, the link's own context not yet) or "closed"
    h,       \* handleConn of each link: idle, delete, finish, range, rangeDelete,
             \* rangeFinish, done
    hKey,    \* key it is working on
    todo,    \* keys left of the Range of StopByLinkID, or of Close
    dlv,     \* keys delivered on a link and not yet acknowledged
    seen,    \* keys in the idempotency cache, whose entries (10 minutes) outlive
             \* the tasks (6 retries, one every 10 seconds)
    victim,  \* task taken out of the map by LoadAndDelete, stop still to run
    cl       \* Manager.Close: idle, range, finish, done

mapVars  == <<tasks, total, closed>>
tmrVars  == <<timer, ptr>>
hVars    == <<h, hKey, seen>>
vars == <<pc, mapVars, tmrVars, rt, count, dlv, lk, hVars, todo, victim, cl>>

Init ==
    /\ pc = [p \in Pushes |-> "idle"]
    /\ tasks = [k \in Keys |-> None] /\ total = 0 /\ closed = FALSE
    /\ timer = [p \in Pushes |-> "off"] /\ ptr = [p \in Pushes |-> "nil"]
    /\ rt = [p \in Pushes |-> "idle"] /\ count = [p \in Pushes |-> 0]
    /\ lk = [l \in Links |-> "open"]
    /\ h = [l \in Links |-> "idle"] /\ hKey = [l \in Links |-> None]
    /\ todo = [d \in Deleters |-> {}]
    /\ dlv = [l \in Links |-> {}]
    /\ seen = {}
    /\ victim = [d \in Deleters |-> None]
    /\ cl = "idle"

-----------------------------------------------------------------------------
(* The handler's push: the body is encrypted and the message marshalled,   *)
(* either of which may fail, and the frame is handed to the link.          *)
Outcomes(p) == {"failed", IF lk[LinkOf[p]] = "closed" THEN "refused" ELSE "sent"}

Pushed(p, o) ==
    dlv' = IF o = "sent" THEN [dlv EXCEPT ![LinkOf[p]] = @ \union {KeyOf[p]}] ELSE dlv

-----------------------------------------------------------------------------
(* stopAndDeleteTask, by deleter d: LoadAndDelete, then stop and the       *)
(* counter.                                                                *)
LoadAndDelete(d, k) ==
    /\ tasks' = [tasks EXCEPT ![k] = None]
    /\ victim' = [victim EXCEPT ![d] = tasks[k]]

\* Task.stop stops the timer that timerPtr refers to; a newer one goes on.
Stopped(d) == IF ptr[victim[d]] = "live" THEN [timer EXCEPT ![victim[d]] = "off"] ELSE timer

\* Mutant: the counter is not decremented.
Uncounted_Not == total
Uncounted == total - 1

FinishDelete(d) ==
    /\ victim[d] # None
    /\ timer' = Stopped(d)
    /\ total' = Uncounted
    /\ victim' = [victim EXCEPT ![d] = None]

-----------------------------------------------------------------------------
(* OnBackendPushMessage: push, then the deferred Start whatever push gave. *)
PushBegin(p) ==
    /\ pc[p] = "idle"
    /\ pc' = [pc EXCEPT ![p] = "check"]
    /\ \E o \in Outcomes(p) : Pushed(p, o)
    /\ UNCHANGED <<mapVars, tmrVars, rt, count, lk, hVars, todo, victim, cl>>

StartCheck(p) ==
    /\ pc[p] = "check"
    /\ pc' = [pc EXCEPT ![p] = IF closed THEN "done" ELSE "store"]
    /\ UNCHANGED <<mapVars, tmrVars, rt, count, dlv, lk, hVars, todo, victim, cl>>

\* LoadOrStore: an existing task with the key makes Start return.
StartStore(p) ==
    /\ pc[p] = "store"
    /\ IF tasks[KeyOf[p]] # None
         THEN pc' = [pc EXCEPT ![p] = "done"] /\ UNCHANGED tasks
         ELSE /\ pc' = [pc EXCEPT ![p] = "arm"]
              /\ tasks' = [tasks EXCEPT ![KeyOf[p]] = p]
    /\ UNCHANGED <<total, closed, tmrVars, rt, count, dlv, lk, hVars, todo, victim, cl>>

StartArm(p) ==
    /\ pc[p] = "arm"
    /\ pc' = [pc EXCEPT ![p] = "publish"]
    /\ timer' = [timer EXCEPT ![p] = "on"]
    /\ UNCHANGED <<mapVars, ptr, rt, count, dlv, lk, hVars, todo, victim, cl>>

\* timerPtr.Store and totalTasks.Add(1).  If the timer has already fired and
\* been re-armed, this Store puts the older timer back.
StartPublish(p) ==
    /\ pc[p] = "publish"
    /\ pc' = [pc EXCEPT ![p] = "done"]
    /\ ptr' = [ptr EXCEPT ![p] = IF count[p] = 0 THEN "live" ELSE "stale"]
    /\ total' = total + 1
    /\ UNCHANGED <<tasks, closed, timer, rt, count, dlv, lk, hVars, todo, victim, cl>>

PushCall(p) == StartCheck(p) \/ StartStore(p) \/ StartArm(p) \/ StartPublish(p)

-----------------------------------------------------------------------------
(* Task.retry, run by the timer.                                           *)
Fire(t) ==
    /\ timer[t] = "on" /\ rt[t] = "idle"
    /\ timer' = [timer EXCEPT ![t] = "off"]
    /\ rt' = [rt EXCEPT ![t] = "check"]
    /\ UNCHANGED <<pc, mapVars, ptr, count, dlv, lk, hVars, todo, victim, cl>>

\* The task is looked up by its key: any task with that key will do.
RetryCheck(t) ==
    /\ rt[t] = "check"
    /\ rt' = [rt EXCEPT ![t] = IF tasks[KeyOf[t]] = None THEN "idle" ELSE "count"]
    /\ UNCHANGED <<pc, mapVars, tmrVars, count, dlv, lk, hVars, todo, victim, cl>>

\* Mutant: off by one, the last retry is not made.
Exhausted_Early(t) == count[t] + 2 >= MaxRetries
Exhausted(t) == count[t] + 1 >= MaxRetries

RetryCount(t) ==
    /\ rt[t] = "count"
    /\ count' = [count EXCEPT ![t] = @ + 1]
    /\ rt' = [rt EXCEPT ![t] = IF Exhausted(t) THEN "delete" ELSE "push"]
    /\ UNCHANGED <<pc, mapVars, tmrVars, dlv, lk, hVars, todo, victim, cl>>

RetryPush(t) ==
    /\ rt[t] = "push"
    /\ \E o \in Outcomes(t) :
         /\ Pushed(t, o)
         /\ rt' = [rt EXCEPT ![t] = CASE o = "sent" -> "rearm" [] o = "failed" -> "failed"
                                         [] OTHER -> "delete"]
    /\ UNCHANGED <<pc, mapVars, tmrVars, count, lk, hVars, todo, victim, cl>>

RetryRearm(t) ==
    /\ rt[t] = "rearm"
    /\ timer' = [timer EXCEPT ![t] = "on"]
    /\ ptr' = [ptr EXCEPT ![t] = IF @ = "live" THEN "stale" ELSE @]
    /\ rt' = [rt EXCEPT ![t] = "publish"]
    /\ UNCHANGED <<pc, mapVars, count, dlv, lk, hVars, todo, victim, cl>>

RetryPublish(t) ==
    /\ rt[t] = "publish"
    /\ ptr' = [ptr EXCEPT ![t] = "live"]
    /\ rt' = [rt EXCEPT ![t] = "idle"]
    /\ UNCHANGED <<pc, mapVars, timer, count, dlv, lk, hVars, todo, victim, cl>>

\* stopAndDeleteTask(t.key), whichever task the key has now.
RetryDelete(t) ==
    /\ rt[t] \in {"delete", "failed"}
    /\ LoadAndDelete(t, KeyOf[t])
    /\ rt' = [rt EXCEPT ![t] = IF tasks[KeyOf[t]] = None THEN "idle" ELSE "finish"]
    /\ UNCHANGED <<pc, total, closed, tmrVars, count, dlv, lk, hVars, todo, cl>>

RetryFinish(t) ==
    /\ rt[t] = "finish"
    /\ FinishDelete(t)
    /\ rt' = [rt EXCEPT ![t] = "idle"]
    /\ UNCHANGED <<pc, tasks, closed, ptr, count, dlv, lk, hVars, todo, cl>>

Retry(t) ==
    \/ Fire(t) \/ RetryCheck(t) \/ RetryCount(t) \/ RetryPush(t) \/ RetryRearm(t)
    \/ RetryPublish(t) \/ RetryDelete(t) \/ RetryFinish(t)

-----------------------------------------------------------------------------
(* The handleConn goroutine of link l.                                     *)

\* The client acknowledges a delivered key; cacheMessage records the key.
AckArrives(l, k) ==
    /\ h[l] = "idle"
    /\ k \in dlv[l] \ seen
    /\ dlv' = [dlv EXCEPT ![l] = @ \ {k}]
    /\ seen' = seen \union {k}
    /\ h' = [h EXCEPT ![l] = "delete"]
    /\ hKey' = [hKey EXCEPT ![l] = k]
    /\ UNCHANGED <<pc, mapVars, tmrVars, rt, count, lk, todo, victim, cl>>

\* The acknowledgement is lost, or OnFrontendSendMessage returns early: the
\* cache fails, or it knows the key and the message is "a duplicate".
AckDropped(l, k) ==
    /\ h[l] = "idle"
    /\ k \in dlv[l]
    /\ dlv' = [dlv EXCEPT ![l] = @ \ {k}]
    /\ UNCHANGED <<pc, mapVars, tmrVars, rt, count, lk, hVars, todo, victim, cl>>

\* Manager.Stop of the acknowledged key: nothing to do without a task.
AckDelete(l) ==
    /\ h[l] = "delete"
    /\ LoadAndDelete(l, hKey[l])
    /\ h' = [h EXCEPT ![l] = IF tasks[hKey[l]] = None THEN "idle" ELSE "finish"]
    /\ UNCHANGED <<pc, total, closed, tmrVars, rt, count, dlv, lk, hKey, seen, todo, cl>>

AckFinish(l) ==
    /\ h[l] = "finish"
    /\ FinishDelete(l)
    /\ h' = [h EXCEPT ![l] = "idle"]
    /\ UNCHANGED <<pc, tasks, closed, ptr, rt, count, dlv, lk, hKey, seen, todo, cl>>

\* receiveLoop ends and closes receiveCh before its deferred Close cancels the
\* link's context; a Stop of the server cancels the server's context before
\* that of the link.  Send still accepts payloads.
ReceiveEnds(l) ==
    /\ lk[l] = "open"
    /\ lk' = [lk EXCEPT ![l] = "ended"]
    /\ UNCHANGED <<pc, mapVars, tmrVars, rt, count, dlv, hVars, todo, victim, cl>>

\* Close cancels the context, called by receiveLoop, sendLoop or another.
LinkCloses(l) ==
    /\ lk[l] # "closed"
    /\ lk' = [lk EXCEPT ![l] = "closed"]
    /\ UNCHANGED <<pc, mapVars, tmrVars, rt, count, dlv, hVars, todo, victim, cl>>

\* handleConn leaves its loop and calls OnDisconnect: StopByLinkID ranges over
\* the map.  sync.Map.Range visits a key at most once and sees what the map
\* holds at some point of the call.
Disconnect(l) ==
    /\ h[l] = "idle" /\ lk[l] # "open"
    /\ h' = [h EXCEPT ![l] = "range"]
    /\ todo' = [todo EXCEPT ![l] = Keys]
    /\ UNCHANGED <<pc, mapVars, tmrVars, rt, count, dlv, lk, hKey, seen, victim, cl>>

\* task.link.ID() == linkID.
SameLink(t, l) == IdOf[LinkOf[t]] = IdOf[l]

RangeVisit(l, k) ==
    /\ h[l] = "range" /\ k \in todo[l]
    /\ todo' = [todo EXCEPT ![l] = @ \ {k}]
    /\ IF tasks[k] # None /\ SameLink(tasks[k], l)
         THEN h' = [h EXCEPT ![l] = "rangeDelete"] /\ hKey' = [hKey EXCEPT ![l] = k]
         ELSE UNCHANGED <<h, hKey>>
    /\ UNCHANGED <<pc, mapVars, tmrVars, rt, count, dlv, lk, seen, victim, cl>>

\* stopAndDeleteTask(key), whichever task the key has by now.
RangeDelete(l) ==
    /\ h[l] = "rangeDelete"
    /\ LoadAndDelete(l, hKey[l])
    /\ h' = [h EXCEPT ![l] = IF tasks[hKey[l]] = None THEN "range" ELSE "rangeFinish"]
    /\ UNCHANGED <<pc, total, closed, tmrVars, rt, count, dlv, lk, hKey, seen, todo, cl>>

RangeFinish(l) ==
    /\ h[l] = "rangeFinish"
    /\ FinishDelete(l)
    /\ h' = [h EXCEPT ![l] = "range"]
    /\ UNCHANGED <<pc, tasks, closed, ptr, rt, count, dlv, lk, hKey, seen, todo, cl>>

\* OnDisconnect then closes the link.
RangeDone(l) ==
    /\ h[l] = "range" /\ todo[l] = {}
    /\ h' = [h EXCEPT ![l] = "done"]
    /\ lk' = [lk EXCEPT ![l] = "closed"]
    /\ UNCHANGED <<pc, mapVars, tmrVars, rt, count, dlv, hKey, seen, todo, victim, cl>>

Handler(l) ==
    \/ AckDelete(l) \/ AckFinish(l) \/ Disconnect(l)
    \/ (\E k \in Keys : RangeVisit(l, k)) \/ RangeDelete(l) \/ RangeFinish(l) \/ RangeDone(l)

-----------------------------------------------------------------------------
(* Manager.Close.                                                          *)
CloseBegin ==
    /\ cl = "idle"
    /\ closed' = TRUE
    /\ cl' = "range"
    /\ todo' = [todo EXCEPT ![Closer] = Keys]
    /\ UNCHANGED <<pc, tasks, total, tmrVars, rt, count, dlv, lk, hVars, victim>>

CloseVisit(k) ==
    /\ cl = "range" /\ k \in todo[Closer]
    /\ todo' = [todo EXCEPT ![Closer] = @ \ {k}]
    /\ LoadAndDelete(Closer, k)
    /\ cl' = IF tasks[k] = None THEN "range" ELSE "finish"
    /\ UNCHANGED <<pc, total, closed, tmrVars, rt, count, dlv, lk, hVars>>

CloseFinish ==
    /\ cl = "finish"
    /\ FinishDelete(Closer)
    /\ cl' = "range"
    /\ UNCHANGED <<pc, tasks, closed, ptr, rt, count, dlv, lk, hVars, todo>>

CloseEnd ==
    /\ cl = "range" /\ todo[Closer] = {}
    /\ cl' = "done"
    /\ UNCHANGED <<pc, mapVars, tmrVars, rt, count, dlv, lk, hVars, todo, victim>>

CloseRun == (\E k \in Keys : CloseVisit(k)) \/ CloseFinish \/ CloseEnd

-----------------------------------------------------------------------------
\* Nothing is left to do.
Quiet ==
    /\ \A p \in Pushes : pc[p] \in {"idle", "done"} /\ rt[p] = "idle" /\ timer[p] = "off"
    /\ \A d \in Deleters : victim[d] = None /\ todo[d] = {}
Finished == Quiet /\ UNCHANGED vars

Next ==
    \/ \E p \in Pushes : PushBegin(p) \/ PushCall(p) \/ Retry(p)
    \/ \E l \in Links : Handler(l) \/ ReceiveEnds(l) \/ LinkCloses(l)
    \/ \E l \in Links, k \in Keys : AckArrives(l, k) \/ AckDropped(l, k)
    \/ CloseBegin \/ CloseRun
    \/ Finished

\* Some runnable goroutine runs or some pending timer fires; pushes,
\* acknowledgements, link failures and the call of Close may never happen.
Progress ==
    \/ \E p \in Pushes : PushCall(p) \/ Retry(p)
    \/ \E l \in Links : Handler(l)
    \/ CloseRun
Fairness == WF_vars(Progress)

Spec == Init /\ [][Next]_vars /\ Fairness

-----------------------------------------------------------------------------
TypeOK ==
    /\ pc \in [Pushes -> {"idle", "check", "store", "arm", "publish", "done"}]
    /\ tasks \in [Keys -> Pushes \union {None}] /\ total \in Int /\ closed \in BOOLEAN
    /\ timer \in [Pushes -> {"on", "off"}] /\ ptr \in [Pushes -> {"nil", "live", "stale"}]
    /\ rt \in [Pushes -> {"idle", "check", "count", "push", "rearm", "publish", "delete", "failed",
                        "finish"}]
    /\ count \in [Pushes -> 0..MaxRetries]
    /\ lk \in [Links -> {"open", "ended", "closed"}]
    /\ h \in [Links -> {"idle", "delete", "finish", "range", "rangeDelete", "rangeFinish", "done"}]
    /\ hKey \in [Links -> Keys \union {None}]
    /\ todo \in [Deleters -> SUBSET Keys] /\ victim \in [Deleters -> Pushes \union {None}]
    /\ dlv \in [Links -> SUBSET Keys] /\ seen \in SUBSET Keys
    /\ cl \in {"idle", "range", "finish", "done"}

\* totalTasks counts the entries of the map, up to the starts and the
\* deletions that are halfway, however they interleave.
TotalCountsTasks ==
    total = Cardinality({k \in Keys : tasks[k] # None})
            - Cardinality({p \in Pushes : pc[p] \in {"arm", "publish"}})
            + Cardinality({d \in Deleters : victim[d] # None})

\* Every task ends: no interleaving of Start, Stop, timers, disconnects and
\* Close leaves an entry or a pending timer behind.
TasksEnd == <>[](total = 0 /\ \A p \in Pushes : timer[p] = "off" /\ rt[p] = "idle")

Over(l) == lk[l] # "open"

\* A step takes the task of key k out of the map.
Ends(k) == tasks[k] # None /\ tasks'[k] = None

\* The reasons that are not a link: the key was acknowledged, the retries of a
\* push with the key are used up or its message could not be encoded again, or
\* the manager is closed.
GivenUp(k) ==
    \/ \E l \in Links : h[l] = "delete" /\ hKey[l] = k
    \/ \E t \in Pushes : KeyOf[t] = k /\ (count[t] = MaxRetries \/ rt[t] = "failed")
    \/ closed

\* No delivery is given up silently: a task leaves the map only because it was
\* given up, or because the link of a push with its key is over (or one with
\* the same ID is).  As the code deletes by key and matches links by their ID,
\* the link need not be the task's own.
TaskEndsForAReason ==
    [][\A k \in Keys : Ends(k) =>
          \/ GivenUp(k)
          \/ \E t \in Pushes, l \in Links : KeyOf[t] = k /\ SameLink(t, l) /\ Over(l)]_vars

\* What the comment of StopByLinkID says, that it stops the retransmissions of
\* the given connection: a task that was not given up ends with its own link.
\* It is true only while no two links have one ID.
TaskEndsWithOwnLink ==
    [][\A k \in Keys : Ends(k) => GivenUp(k) \/ Over(LinkOf[tasks[k]])]_vars
=============================================================================
