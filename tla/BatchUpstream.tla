--------------------------- MODULE BatchUpstream ----------------------------
(***************************************************************************)
(* internal/linkevent/batch_handler.go on top of the coordinator: the      *)
(* upstream path of the batching deployment.  An invocation of             *)
(* OnFrontendSendMessage is named by the request r that it hands to        *)
(* Coordinator.OnReceive; several invocations carry the same message when  *)
(* the client repeats it.  The downstream path of this handler is that of  *)
(* handler.go (module PushRetry).                                          *)
(*                                                                         *)
(* Cache and backend are external: a call of theirs may fail although it   *)
(* was carried out.  No cache entry expires within the modelled time.      *)
(***************************************************************************)
EXTENDS Coordinator

CONSTANTS Keys,   \* message keys
          KeyOf   \* the message of each invocation

ASSUME BatchUpstreamAssumption == KeyOf \in [Reqs -> Keys]

VARIABLES
    h,        \* OnFrontendSendMessage: idle, forward, delete, done
    cache,    \* keys in the idempotency cache
    handled,  \* keys the backend has processed
    acked,    \* keys whose acknowledgement was sent
    spoilt    \* keys for which a call of the cache failed and left its entry

handlerVars == <<h, cache, handled, acked, spoilt>>
allVars == <<vars, handlerVars>>

BatchInit ==
    /\ Init
    /\ h = [r \in Reqs |-> "idle"]
    /\ cache = {} /\ handled = {} /\ acked = {} /\ spoilt = {}

Goto(r, s) == h' = [h EXCEPT ![r] = s]

\* Mutant: a message whose retries are used up keeps its entry.
shouldDeleteCacheOnError_Forget(e) == e \in {"unknownBizID", "encrypt", "marshal"}
shouldDeleteCacheOnError(e) == e \in {"unknownBizID", "encrypt", "marshal", "maxRetries"}

\* The command's handler function returns the error e.
Fails(r, e) == Goto(r, IF shouldDeleteCacheOnError(e) THEN "delete" ELSE "done")

-----------------------------------------------------------------------------
(* OnFrontendSendMessage.                                                  *)

\* A payload that getMessage cannot decode or decrypt changes nothing.
Unacknowledged(r) == h[r] = "idle" /\ KeyOf[r] \notin acked

\* SetNX: a message that is there already is dropped.
CacheMessage(r) ==
    /\ Unacknowledged(r)
    /\ Goto(r, IF KeyOf[r] \in cache THEN "done" ELSE "forward")
    /\ cache' = cache \union {KeyOf[r]}
    /\ UNCHANGED <<vars, handled, acked, spoilt>>

\* SetNX reports an error, carried out or not.
CacheFails(r) ==
    /\ Unacknowledged(r)
    /\ Goto(r, "done")
    /\ \/ UNCHANGED <<cache, spoilt>>
       \/ /\ KeyOf[r] \notin cache
          /\ cache' = cache \union {KeyOf[r]}
          /\ spoilt' = spoilt \union {KeyOf[r]}
    /\ UNCHANGED <<vars, handled, acked>>

\* handleOnUpstreamMessageCmd calls the coordinator.
Forward(r) == h[r] = "forward" /\ OnReceive(r) /\ UNCHANGED handlerVars

\* The errors of push: the body cannot be encrypted, the message cannot be
\* marshalled, the link is closed.
PushErrors == {"encrypt", "marshal", "linkClosed"}

SendUpstreamMessageAck(r) ==
    \/ Goto(r, "done") /\ acked' = acked \union {KeyOf[r]}
    \/ (\E e \in PushErrors : Fails(r, e)) /\ UNCHANGED acked

\* Mutant: the error of the coordinator is logged and the client told that
\* all is well.
Forwarded_Ack(r) == SendUpstreamMessageAck(r)
Forwarded(r) ==
    IF ret[r] \in Errors THEN Fails(r, ret[r]) /\ UNCHANGED acked ELSE SendUpstreamMessageAck(r)

\* It goes on with what the coordinator returned.
ForwardReturns(r) ==
    /\ h[r] = "forward" /\ pc[r] = "done"
    /\ Forwarded(r)
    /\ UNCHANGED <<vars, cache, handled, spoilt>>

\* The error of Delete is logged.
DeleteCacheMessage(r) ==
    /\ h[r] = "delete"
    /\ Goto(r, "done")
    /\ \/ cache' = cache \ {KeyOf[r]} /\ UNCHANGED spoilt
       \/ spoilt' = spoilt \union {KeyOf[r]} /\ UNCHANGED cache
    /\ UNCHANGED <<vars, handled, acked>>

Handler(r) == Forward(r) \/ ForwardReturns(r) \/ DeleteCacheMessage(r)

-----------------------------------------------------------------------------
(* The coordinator's goroutines, with what the backend does of a batch.    *)
KeysOf(g) == {KeyOf[requests[batch[g]][i]] : i \in 1..Len(requests[batch[g]])}

\* A backend that answers every request has processed the batch; one that
\* fails, or answers too few or too many, may have.
Answered(g) ==
    /\ CallAnswered(g)
    /\ handled' \in {handled \union KeysOf(g)}
                     \union (IF outcome'[g] = "ok" THEN {} ELSE {handled})
    /\ UNCHANGED <<h, cache, acked, spoilt>>

Failed(g) ==
    /\ CallFailed(g)
    /\ handled' \in {handled, handled \union KeysOf(g)}
    /\ UNCHANGED <<h, cache, acked, spoilt>>

Goroutines ==
    \/ \E r \in Reqs : (Call(r) \/ TimerFires(r)) /\ UNCHANGED handlerVars
    \/ \E g \in Triggers : ((Take(g) \/ Distribute(g)) /\ UNCHANGED handlerVars)
                           \/ Answered(g) \/ Failed(g)
    \/ StopEnd /\ UNCHANGED handlerVars

-----------------------------------------------------------------------------
BatchFinished ==
    /\ Quiet /\ \A r \in Reqs : h[r] \in {"idle", "done"}
    /\ UNCHANGED allVars

BatchNext ==
    \/ \E r \in Reqs : CacheMessage(r) \/ CacheFails(r) \/ Handler(r)
    \/ Goroutines
    \/ StopBegin /\ UNCHANGED handlerVars
    \/ BatchFinished

\* Some runnable goroutine runs, timers fire, and the calls of cache and
\* backend, which have timeouts, return.  Nobody need send, and nobody need
\* stop the coordinator.
BatchFairness == WF_allVars((\E r \in Reqs : Handler(r)) \/ Goroutines)

BatchSpec == BatchInit /\ [][BatchNext]_allVars /\ BatchFairness

-----------------------------------------------------------------------------
BatchTypeOK ==
    /\ TypeOK
    /\ h \in [Reqs -> {"idle", "forward", "delete", "done"}]
    /\ cache \in SUBSET Keys /\ handled \in SUBSET Keys
    /\ acked \in SUBSET Keys /\ spoilt \in SUBSET Keys

\* An acknowledged message was in a batch that the backend processed.
AckMeansHandled == acked \subseteq handled

Working(k) == \E r \in Reqs : KeyOf[r] = k /\ h[r] \in {"forward", "delete"}

\* The repetition of a message that never reached the backend is dropped as
\* a duplicate only if the cache failed, or if the coordinator was stopped
\* or the backend answered with the wrong number of responses: for these two
\* errors of the coordinator the entry is not deleted.
ShutOutByStopOrMismatch ==
    \A k \in cache : Working(k) \/ k \in handled \/ k \in spoilt
                     \/ \E r \in Reqs : KeyOf[r] = k /\ ret[r] \in {"stopped", "mismatch"}

\* Every message that is taken in is done with: the handler's goroutine,
\* which also reads the link, is never left waiting in the coordinator.
HandlersReturn == []<>(\A r \in Reqs : h[r] \in {"idle", "done"})
=============================================================================
