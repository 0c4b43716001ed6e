---------------------------- MODULE Coordinator -----------------------------
(***************************************************************************)
(* internal/linkevent/coordinator.go: upstream messages of one biz are     *)
(* collected into a batch that a goroutine hands to the backend when the   *)
(* batch is full, when its timer fires, or when the coordinator stops.     *)
(*                                                                         *)
(* A call of OnReceive is named by its request r, a batch by the request   *)
(* that created it.  Sections under c.mu are one step each.  batch.mu      *)
(* guards a batch that its goroutine has already deleted from the map, so  *)
(* nobody competes for it (GetStats aside).  Module BatchUpstream adds the  *)
(* callers and the next-state relation.                                    *)
(***************************************************************************)
EXTENDS Integers, FiniteSets, Sequences

CONSTANTS Reqs,       \* calls of OnReceive
          Bizs,       \* business IDs
          BizOf,      \* biz of each request
          BatchSize,  \* batchSize
          MaxTries,   \* calls of the backend: maxRetries + 1
          None

\* ErrCoordinatorStopped, and the errors of Process: ErrUnknownBizID,
\* ErrMaxRetriesExceeded, ErrBatchResponseMismatch.
Errors == {"stopped", "unknownBizID", "maxRetries", "mismatch"}

\* The response to a request, which has its name, is not an error.
ASSUME CoordinatorAssumption ==
    /\ BizOf \in [Reqs -> Bizs]
    /\ BatchSize \in Nat \ {0} /\ MaxTries \in Nat \ {0}
    /\ None \notin Reqs \union Errors
    /\ Reqs \intersect Errors = {}

\* The goroutines that run triggerBatch: go triggerBatch of the request that
\* filled a batch, the timer of a batch, and those of Stop.
Triggers == ({"size", "timer"} \X Reqs) \union ({"stop"} \X Bizs)
TriggerBiz(g) == IF g[1] = "stop" THEN g[2] ELSE BizOf[g[2]]

VARIABLES
    pc,         \* OnReceive: "idle", "add", "wait", "done"
    ret,        \* what it returned: an error, or the response to a request
    resultChan, \* Request.ResultChan, capacity 1
    batches,    \* Coordinator.batches
    requests,   \* Batch.requests
    timer,      \* Batch.timer: "off", "on"
    tg,         \* triggerBatch: "none", "take", "call", "distribute", "done"
    batch,      \* the batch it took out of the map
    tries,      \* calls of the backend that failed
    outcome,    \* what Process returned
    stopped,    \* Coordinator.stopped
    stop,       \* Stop: "idle", "wait", "done" (stopCh is closed)
    pending     \* pendingBizIDs

callVars  == <<pc, ret>>
batchVars == <<batches, requests>>
trigVars  == <<tg, batch, tries, outcome>>
stopVars  == <<stopped, stop, pending>>
vars == <<callVars, resultChan, batchVars, timer, trigVars, stopVars>>

Init ==
    /\ pc = [r \in Reqs |-> "idle"] /\ ret = [r \in Reqs |-> None]
    /\ resultChan = [r \in Reqs |-> None]
    /\ batches = [z \in Bizs |-> None] /\ requests = [r \in Reqs |-> <<>>]
    /\ timer = [r \in Reqs |-> "off"]
    /\ tg = [g \in Triggers |-> "none"] /\ batch = [g \in Triggers |-> None]
    /\ tries = [g \in Triggers |-> 0]
    /\ outcome = [g \in Triggers |-> None]
    /\ stopped = FALSE /\ stop = "idle" /\ pending = {}

Return(r, v) == pc' = [pc EXCEPT ![r] = "done"] /\ ret' = [ret EXCEPT ![r] = v]

-----------------------------------------------------------------------------
(* OnReceive and addToBatch.                                               *)

\* The first look at stopped, under the read lock.
OnReceive(r) ==
    /\ pc[r] = "idle"
    /\ IF stopped
         THEN Return(r, "stopped")
         ELSE pc' = [pc EXCEPT ![r] = "add"] /\ UNCHANGED ret
    /\ UNCHANGED <<resultChan, batchVars, timer, trigVars, stopVars>>

\* Mutant: addToBatch does not look at stopped again.
Refuses_Not == FALSE
Refuses == stopped

AddRefused(r) ==
    /\ pc[r] = "add" /\ Refuses
    /\ resultChan' = [resultChan EXCEPT ![r] = "stopped"]
    /\ pc' = [pc EXCEPT ![r] = "wait"]
    /\ UNCHANGED <<ret, batchVars, timer, trigVars, stopVars>>

\* Mutant: a new batch gets no timer.
TimerOf_Off(b, r) == timer
TimerOf(b, r) == IF b = r THEN [timer EXCEPT ![r] = "on"] ELSE timer

\* addToBatch: a new batch if the biz has none, the request appended, and a
\* goroutine for a batch that has reached the threshold.
AddToBatch(r) ==
    LET b == IF batches[BizOf[r]] = None THEN r ELSE batches[BizOf[r]]
    IN /\ pc[r] = "add" /\ ~Refuses
       /\ pc' = [pc EXCEPT ![r] = "wait"]
       /\ batches' = [batches EXCEPT ![BizOf[r]] = b]
       /\ requests' = [requests EXCEPT ![b] = Append(@, r)]
       /\ timer' = TimerOf(b, r)
       /\ tg' = IF Len(requests'[b]) >= BatchSize
                  THEN [tg EXCEPT ![<<"size", r>>] = "take"] ELSE tg
       /\ UNCHANGED <<ret, resultChan, batch, tries, outcome, stopVars>>

\* The two cases of the select; with both ready either may be taken.
ReceiveResult(r) ==
    /\ pc[r] = "wait" /\ resultChan[r] # None
    /\ Return(r, resultChan[r])
    /\ UNCHANGED <<resultChan, batchVars, timer, trigVars, stopVars>>

\* stopCh is closed.
ReceiveStop(r) ==
    /\ pc[r] = "wait" /\ stop = "done"
    /\ Return(r, "stopped")
    /\ UNCHANGED <<resultChan, batchVars, timer, trigVars, stopVars>>

Call(r) == AddRefused(r) \/ AddToBatch(r) \/ ReceiveResult(r) \/ ReceiveStop(r)

-----------------------------------------------------------------------------
(* triggerBatch.                                                           *)

\* The batch's AfterFunc starts.
TimerFires(b) ==
    /\ timer[b] = "on"
    /\ timer' = [timer EXCEPT ![b] = "off"]
    /\ tg' = [tg EXCEPT ![<<"timer", b>>] = "take"]
    /\ UNCHANGED <<callVars, resultChan, batchVars, batch, tries, outcome, stopVars>>

Taken(z) == [batches EXCEPT ![z] = None]

\* Whatever batch the biz has now is deleted from the map, its timer is
\* stopped and Process starts: it needs a client for the biz.
Take(g) ==
    /\ tg[g] = "take"
    /\ LET b == batches[TriggerBiz(g)] IN
         IF b = None
           THEN tg' = [tg EXCEPT ![g] = "done"] /\ UNCHANGED <<batches, batch, timer, outcome>>
           ELSE /\ batches' = Taken(TriggerBiz(g))
                /\ batch' = [batch EXCEPT ![g] = b]
                /\ timer' = [timer EXCEPT ![b] = "off"]
                /\ \/ tg' = [tg EXCEPT ![g] = "call"] /\ UNCHANGED outcome
                   \/ /\ tg' = [tg EXCEPT ![g] = "distribute"]
                      /\ outcome' = [outcome EXCEPT ![g] = "unknownBizID"]
    /\ UNCHANGED <<callVars, resultChan, requests, tries, stopVars>>

Outcome(g, o) ==
    /\ outcome' = [outcome EXCEPT ![g] = o]
    /\ tg' = [tg EXCEPT ![g] = "distribute"]
    /\ tries' = [tries EXCEPT ![g] = 0]

TriesLeft(g) == tries[g] + 1 < MaxTries

\* One BatchOnReceive of callBatchServiceWithRetry.  The responses are as
\* many as the requests, or Process refuses them ...
CallAnswered(g) ==
    /\ tg[g] = "call"
    /\ \E o \in {"ok", "mismatch"} : Outcome(g, o)
    /\ UNCHANGED <<callVars, resultChan, batchVars, timer, batch, stopVars>>

\* ... or the call fails and is retried until the retries are used up.
CallFailed(g) ==
    /\ tg[g] = "call"
    /\ IF TriesLeft(g)
         THEN tries' = [tries EXCEPT ![g] = @ + 1] /\ UNCHANGED <<tg, outcome>>
         ELSE Outcome(g, "maxRetries")
    /\ UNCHANGED <<callVars, resultChan, batchVars, timer, batch, stopVars>>

\* responses[i] answers the i-th request of the batch, as message.proto demands
\* of the backend; an error goes to all.
ResponseFor(g, i) == IF outcome[g] = "ok" THEN requests[batch[g]][i] ELSE outcome[g]

\* distributeResults, distributeError: a non-blocking send to each request.
\* The sends are one step: each has its own receiver, which only waits.
Distribute(g) ==
    /\ tg[g] = "distribute"
    /\ tg' = [tg EXCEPT ![g] = "done"]
    /\ outcome' = [outcome EXCEPT ![g] = None]
    /\ LET rs == requests[batch[g]] IN
         resultChan' = [r \in Reqs |->
             IF resultChan[r] = None /\ \E i \in 1..Len(rs) : rs[i] = r
               THEN ResponseFor(g, CHOOSE i \in 1..Len(rs) : rs[i] = r)
               ELSE resultChan[r]]
    /\ UNCHANGED <<callVars, batchVars, timer, batch, tries, stopVars>>

-----------------------------------------------------------------------------
(* Stop.                                                                   *)
StopBegin ==
    /\ stop = "idle"
    /\ stopped' = TRUE
    /\ stop' = "wait"
    /\ pending' = {z \in Bizs : batches[z] # None}
    /\ tg' = [g \in Triggers |-> IF g[1] = "stop" /\ g[2] \in pending' THEN "take" ELSE tg[g]]
    /\ UNCHANGED <<callVars, resultChan, batchVars, timer, batch, tries, outcome>>

\* wg.Wait, close(stopCh), an empty map.
StopEnd ==
    /\ stop = "wait"
    /\ \A z \in pending : tg[<<"stop", z>>] = "done"
    /\ stop' = "done"
    /\ batches' = [z \in Bizs |-> None]
    /\ UNCHANGED <<callVars, resultChan, requests, timer, trigVars, stopped, pending>>

-----------------------------------------------------------------------------
\* Nothing is under way.
Quiet == (\A r \in Reqs : pc[r] \in {"idle", "done"} /\ timer[r] = "off")
         /\ \A g \in Triggers : tg[g] \in {"none", "done"}

-----------------------------------------------------------------------------
TypeOK ==
    /\ pc \in [Reqs -> {"idle", "add", "wait", "done"}]
    /\ ret \in [Reqs -> Reqs \union Errors \union {None}]
    /\ resultChan \in [Reqs -> Reqs \union Errors \union {None}]
    /\ batches \in [Bizs -> Reqs \union {None}]
    /\ requests \in [Reqs -> Seq(Reqs)]
    /\ timer \in [Reqs -> {"on", "off"}]
    /\ tg \in [Triggers -> {"none", "take", "call", "distribute", "done"}]
    /\ batch \in [Triggers -> Reqs \union {None}]
    /\ tries \in [Triggers -> 0..(MaxTries - 1)]
    /\ outcome \in [Triggers -> Errors \union {"ok", None}]
    /\ stopped \in BOOLEAN /\ stop \in {"idle", "wait", "done"} /\ pending \in SUBSET Bizs

InBatch(r, b) == \E i \in 1..Len(requests[b]) : requests[b][i] = r
Owners(b) == {z \in Bizs : batches[z] = b} \union {g \in Triggers : batch[g] = b}

\* Every request accepted into a batch is owned by exactly one place, the
\* map or one goroutine, whichever of the three kinds of trigger race for it
\* and whenever Stop empties the map: none is lost, none is sent twice.
OwnedOnce ==
    \A r \in Reqs :
        /\ Cardinality({b \in Reqs : InBatch(r, b)}) <= 1
        /\ \A b \in Reqs : InBatch(r, b) => Cardinality(Owners(b)) = 1
=============================================================================
