------------------------------ MODULE Upstream ------------------------------
(***************************************************************************)
(* internal/linkevent/handler.go, the upstream path:                       *)
(* OnFrontendSendMessage of the links over which one client sends its      *)
(* messages (two links: a reconnect while the old connection is still      *)
(* being served).  Each link handles one payload at a time; the            *)
(* idempotency cache and the backend clients are shared.                   *)
(*                                                                         *)
(* The client repeats a message, with the same key, until it is            *)
(* acknowledged.  Cache and backend are external: a call may fail although *)
(* it was carried out.  The model covers the time in which a cache entry   *)
(* lives (10 minutes): no entry expires.                                   *)
(***************************************************************************)
EXTENDS Naturals

CONSTANTS Links,       \* links of the client
          Keys,        \* message keys, unique per message and biz
          MaxRetries   \* retries of the backend call

ASSUME UpstreamAssumption == MaxRetries \in Nat

VARIABLES
    h,        \* OnFrontendSendMessage of each link: idle, cache, load, reload, store,
              \* reloaded, call, ack, delete
    key,      \* the key of the message it handles
    tries,    \* retries of the backend call used up
    err,      \* the error it is about to return
    cache,    \* keys in the idempotency cache
    config,   \* the watched service list names the biz
    loaded,   \* the map a link's call of the loader has built names it
    known,    \* bizToClient, shared by the links, names it
    handled,  \* keys the backend has processed
    acked,    \* keys whose acknowledgement was sent to the client
    spoilt    \* keys for which a call of the cache failed and left its entry

locals == <<key, tries, err>>
clients == <<config, loaded, known>>
vars == <<h, locals, cache, clients, handled, acked, spoilt>>

NoKey == "none"
NoErr == "nil"

Init ==
    /\ h = [l \in Links |-> "idle"]
    /\ key = [l \in Links |-> NoKey]
    /\ tries = [l \in Links |-> 0]
    /\ err = [l \in Links |-> NoErr]
    /\ cache = {}
    /\ config = FALSE /\ loaded = [l \in Links |-> FALSE] /\ known = FALSE
    /\ handled = {} /\ acked = {} /\ spoilt = {}

Goto(l, s) == h' = [h EXCEPT ![l] = s]

\* Mutant: a failed forward keeps the cache entry.
shouldDeleteCacheOnError_Forget(e) == e \in {"unknownBizID", "encrypt", "marshal"}
\* Mutant: the entry is removed for duplicates too.
shouldDeleteCacheOnError_Duplicate(e) ==
    e \in {"unknownBizID", "encrypt", "marshal", "maxRetries", "duplicate"}
shouldDeleteCacheOnError(e) == e \in {"unknownBizID", "encrypt", "marshal", "maxRetries"}

\* The handler function of link l returns e.
Fails(l, e) ==
    /\ err' = [err EXCEPT ![l] = e]
    /\ Goto(l, IF shouldDeleteCacheOnError(e) THEN "delete" ELSE "idle")

-----------------------------------------------------------------------------
(* getMessage and cacheMessage.                                            *)

\* The client sends a message that is not acknowledged.  A payload that is
\* cut off by the rate limit, or cannot be decoded or decrypted, changes
\* nothing.  After a closed link l stands for the client's next connection.
Arrive(l, k) ==
    /\ h[l] = "idle" /\ k \notin acked
    /\ h' = [h EXCEPT ![l] = "cache"]
    /\ key' = [key EXCEPT ![l] = k]
    /\ tries' = [tries EXCEPT ![l] = 0]
    /\ err' = [err EXCEPT ![l] = NoErr]
    /\ UNCHANGED <<cache, clients, handled, acked, spoilt>>

\* SetNX: the first one goes on, the others are duplicates.
CacheMessage(l) ==
    /\ h[l] = "cache"
    /\ IF key[l] \in cache
         THEN Fails(l, "duplicate") /\ UNCHANGED cache
         ELSE /\ cache' = cache \union {key[l]}
              /\ Goto(l, "load")
              /\ UNCHANGED err
    /\ UNCHANGED <<key, tries, clients, handled, acked, spoilt>>

\* SetNX returns an error, carried out or not.
CacheFails(l) ==
    /\ h[l] = "cache"
    /\ Fails(l, "cache")
    /\ \/ UNCHANGED <<cache, spoilt>>
       \/ /\ key[l] \notin cache
          /\ cache' = cache \union {key[l]}
          /\ spoilt' = spoilt \union {key[l]}
    /\ UNCHANGED <<key, tries, clients, handled, acked>>

-----------------------------------------------------------------------------
(* getBackendServiceClient: a link that does not find the biz calls the    *)
(* loader and replaces the shared map, without a lock.                     *)

\* The service list of etcd comes to name the biz.
Configure ==
    /\ ~config /\ config' = TRUE
    /\ UNCHANGED <<h, locals, cache, loaded, known, handled, acked, spoilt>>

LoadClient(l) ==
    /\ h[l] = "load"
    /\ Goto(l, IF known THEN "call" ELSE "reload")
    /\ UNCHANGED <<locals, cache, clients, handled, acked, spoilt>>

\* backendClientLoader() builds a map of the services known by now ...
Reload(l) ==
    /\ h[l] = "reload"
    /\ loaded' = [loaded EXCEPT ![l] = config]
    /\ Goto(l, "store")
    /\ UNCHANGED <<locals, cache, config, known, handled, acked, spoilt>>

\* ... which may replace a newer one that another link has stored meanwhile.
StoreClients(l) ==
    /\ h[l] = "store"
    /\ known' = loaded[l]
    /\ Goto(l, "reloaded")
    /\ UNCHANGED <<locals, cache, config, loaded, handled, acked, spoilt>>

Reloaded(l) ==
    /\ h[l] = "reloaded"
    /\ IF known THEN Goto(l, "call") /\ UNCHANGED err ELSE Fails(l, "unknownBizID")
    /\ UNCHANGED <<key, tries, cache, clients, handled, acked, spoilt>>

-----------------------------------------------------------------------------
(* forwardToBusinessBackend.                                               *)
CallOK(l) ==
    /\ h[l] = "call"
    /\ handled' = handled \union {key[l]}
    /\ Goto(l, "ack")
    /\ UNCHANGED <<locals, cache, clients, acked, spoilt>>

CanRetry(l) == tries[l] < MaxRetries

\* Mutant: the client is told that all is well.
GiveUp_Ack(l) == Goto(l, "ack") /\ UNCHANGED err
GiveUp(l) == Fails(l, "maxRetries")

\* An error, of a call that the backend may have processed all the same.
CallFails(l) ==
    /\ h[l] = "call"
    /\ handled' \in {handled, handled \union {key[l]}}
    /\ IF CanRetry(l)
         THEN tries' = [tries EXCEPT ![l] = @ + 1] /\ UNCHANGED <<h, err>>
         ELSE GiveUp(l) /\ UNCHANGED tries
    /\ UNCHANGED <<key, cache, clients, acked, spoilt>>

-----------------------------------------------------------------------------
(* sendUpstreamMessageAck, deleteCacheMessage.                             *)
AckSent(l) ==
    /\ h[l] = "ack"
    /\ acked' = acked \union {key[l]}
    /\ Goto(l, "idle")
    /\ UNCHANGED <<locals, cache, clients, handled, spoilt>>

\* The response cannot be marshalled or encrypted, or the link is closed.
AckFails(l) ==
    /\ h[l] = "ack"
    /\ \E e \in {"marshal", "encrypt", "linkClosed"} : Fails(l, e)
    /\ UNCHANGED <<key, tries, cache, clients, handled, acked, spoilt>>

DeleteCached(l) ==
    /\ h[l] = "delete"
    /\ cache' = cache \ {key[l]}
    /\ Goto(l, "idle")
    /\ UNCHANGED <<locals, clients, handled, acked, spoilt>>

\* The error of Delete is logged.
DeleteFails(l) ==
    /\ h[l] = "delete"
    /\ spoilt' = spoilt \union {key[l]}
    /\ Goto(l, "idle")
    /\ UNCHANGED <<locals, cache, clients, handled, acked>>

Step(l) ==
    \/ CacheMessage(l) \/ CacheFails(l)
    \/ LoadClient(l) \/ Reload(l) \/ StoreClients(l) \/ Reloaded(l)
    \/ CallOK(l) \/ CallFails(l)
    \/ AckSent(l) \/ AckFails(l)
    \/ DeleteCached(l) \/ DeleteFails(l)

\* The client has got what it waits for.
Satisfied == acked = Keys /\ (\A l \in Links : h[l] = "idle") /\ UNCHANGED vars

Next ==
    \/ \E l \in Links : Step(l) \/ \E k \in Keys : Arrive(l, k)
    \/ Configure
    \/ Satisfied

\* Handlers run and calls return.  The client goes on sending what is not
\* acknowledged, the biz is configured in the end, and neither the cache nor
\* the backend fails on every attempt.
Fairness ==
    /\ WF_vars(Configure)
    /\ \A l \in Links : WF_vars(Step(l))
    /\ \A l \in Links, k \in Keys :
         /\ SF_vars(Arrive(l, k))
         /\ SF_vars(key[l] = k /\ CacheMessage(l))
         /\ SF_vars(key[l] = k /\ CallOK(l))

Spec == Init /\ [][Next]_vars /\ Fairness

-----------------------------------------------------------------------------
TypeOK ==
    /\ h \in [Links -> {"idle", "cache", "load", "reload", "store", "reloaded", "call", "ack",
                     "delete"}]
    /\ key \in [Links -> Keys \union {NoKey}]
    /\ tries \in [Links -> 0..MaxRetries]
    /\ err \in [Links -> {NoErr, "cache", "duplicate", "unknownBizID", "maxRetries", "marshal",
                          "encrypt", "linkClosed"}]
    /\ cache \in SUBSET Keys
    /\ config \in BOOLEAN /\ known \in BOOLEAN /\ loaded \in [Links -> BOOLEAN]
    /\ handled \in SUBSET Keys /\ acked \in SUBSET Keys /\ spoilt \in SUBSET Keys

Busy(l, k) == key[l] = k /\ h[l] \notin {"idle", "cache"}

\* A message is worked on by one link at a time, also when the client sends
\* it again over a second link while the first is still retrying.
OneAtATime == \A k \in Keys, l, m \in Links : (Busy(l, k) /\ Busy(m, k)) => l = m

\* An acknowledged message was processed by the backend.
AckMeansHandled == acked \subseteq handled

\* A client that goes on sending gets its message to the backend, unless a
\* failure of the cache left the entry behind.
GetsThrough == \A k \in Keys : <>(k \in handled \/ k \in spoilt)
=============================================================================
