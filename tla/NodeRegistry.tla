---------------------------- MODULE NodeRegistry ----------------------------
(***************************************************************************)
(* internal/registry/registry.go with its use in websocket_server.go: the  *)
(* record of one gateway node in etcd, attached to a lease.  Start         *)
(* registers the node and leaves two goroutines behind, KeepAlive and the  *)
(* state updater; GracefulStop lowers the weight to 0, waits and revokes   *)
(* the lease; Stop cancels the server's context.                           *)
(*                                                                         *)
(* Etcd is external: a key attached to a lease is deleted with it, a Put   *)
(* with a lease that is gone fails, and a call may fail although it was    *)
(* carried out.  Stop and GracefulStop come after Start has returned.      *)
(***************************************************************************)
EXTENDS Integers

CONSTANTS RegMaxRetries,  \* registerMaxRetries
          KaMaxRetries,   \* keepAliveMaxRetries
          Weight,         \* the configured weight of the node
          Loads           \* values of linkManager.Len()

ASSUME RegistryAssumption ==
    /\ RegMaxRetries \in Nat \ {0} /\ KaMaxRetries \in Nat
    /\ Weight \in Nat \ {0}
    /\ Loads \subseteq Nat /\ 0 \in Loads

NoLease == 0                       \* clientv3.NoLease
Leases  == 1..(RegMaxRetries + 1)  \* one per Grant of Register
NoNode  == [weight |-> 0, load |-> 0, lease |-> -1]
Nodes   == [weight : {0, Weight}, load : Loads, lease : Leases \union {NoLease}]

VARIABLES
    proc,        \* the gateway process: "up" or "dead"
    live,        \* leases that etcd keeps
    rec,         \* the value under the node's key, or NoNode
    rg,          \* Register: grant, put, revoke, failed, done
    granted,     \* leases granted so far; the last one is the current one
    leaseID,     \* s.leaseID
    ka,          \* KeepAlive: off, select, sleep, done
    kaChan,      \* its channel: open, closed or nil
    retryCount,
    upd,         \* StartNodeStateUpdater: off, select, get, put, done
    copy,        \* the node it has read and changed
    gd,          \* GracefulStop: off, get, put, wait, revoke, cancel, left (an error
                 \* or no record), gone (deregistered)
    draft,       \* the node GracefulDeregister has read and changed
    sctx, rctx   \* the server's and the registry's context: "open" or "done"

etcd == <<live, rec>>
regVars == <<rg, granted, leaseID>>
kaVars == <<ka, kaChan, retryCount>>
updVars == <<upd, copy>>
gdVars == <<gd, draft>>
ctxs == <<sctx, rctx>>
nodeVars == <<proc, etcd, regVars, kaVars, updVars, gdVars, ctxs>>

RegInit ==
    /\ proc = "up" /\ live = {} /\ rec = NoNode
    /\ rg = "grant" /\ granted = 0 /\ leaseID = NoLease
    /\ ka = "off" /\ kaChan = "nil" /\ retryCount = 0
    /\ upd = "off" /\ copy = NoNode
    /\ gd = "off" /\ draft = NoNode
    /\ sctx = "open" /\ rctx = "open"

-----------------------------------------------------------------------------
(* Etcd.                                                                   *)
Without(l) == IF rec.lease = l THEN NoNode ELSE rec

\* A Put of node n: it can be carried out only with a live lease, or none.
CanPut(n) == n.lease \in live \union {NoLease}
PutDone(n) == CanPut(n) /\ rec' = n /\ UNCHANGED live
PutLost == UNCHANGED etcd

Revoked(l) == live' = live \ {l} /\ rec' = Without(l)

\* A lease that nobody renews in time, or that cannot be renewed.
Expire(l) ==
    /\ l \in live
    /\ Revoked(l)
    /\ UNCHANGED <<proc, regVars, kaVars, updVars, gdVars, ctxs>>

-----------------------------------------------------------------------------
(* Register, called by Start.                                              *)
RegGrant ==
    /\ proc = "up" /\ rg = "grant"
    /\ \/ rg' = "failed" /\ UNCHANGED <<granted, live>>
       \/ rg' = "put" /\ granted' = granted + 1 /\ live' = live \union {granted'}
    /\ UNCHANGED <<proc, rec, leaseID, kaVars, updVars, gdVars, ctxs>>

\* Mutant: the lease of the first attempt is remembered over the retries.
LeaseOf_First == 1
\* leaseResp.ID, of this round's Grant.
LeaseOf == granted

NewNode == [weight |-> Weight, load |-> 0, lease |-> granted]

\* After a successful Put Start goes on: it starts KeepAlive, whose first
\* call of the client may fail, and the updater.
RegPutOK ==
    /\ proc = "up" /\ rg = "put"
    /\ PutDone(NewNode)
    /\ rg' = "done"
    /\ leaseID' = LeaseOf
    /\ \/ ka' = "select" /\ kaChan' = "open"
       \/ ka' = "done" /\ UNCHANGED kaChan
    /\ upd' = "select"
    /\ UNCHANGED <<proc, granted, retryCount, copy, gdVars, ctxs>>

\* Put failed, carried out or not.
RegPutFails ==
    /\ proc = "up" /\ rg = "put"
    /\ PutDone(NewNode) \/ PutLost
    /\ rg' = "revoke"
    /\ UNCHANGED <<proc, granted, leaseID, kaVars, updVars, gdVars, ctxs>>

\* strategy.RegNext grants RegMaxRetries further attempts.
MoreTries == granted <= RegMaxRetries

\* Revoke, whose error is ignored, and the next attempt if the strategy
\* grants one.
RegRevoke ==
    /\ proc = "up" /\ rg = "revoke"
    /\ Revoked(granted) \/ UNCHANGED etcd
    /\ rg' = IF MoreTries THEN "grant" ELSE "failed"
    /\ UNCHANGED <<proc, granted, leaseID, kaVars, updVars, gdVars, ctxs>>

Register == RegGrant \/ RegPutOK \/ RegPutFails \/ RegRevoke

-----------------------------------------------------------------------------
(* KeepAlive.                                                              *)
Cancelled == sctx = "done" \/ rctx = "done"

\* A renewal arrived.
KaRenewed ==
    /\ proc = "up" /\ ka = "select" /\ kaChan = "open" /\ leaseID \in live
    /\ retryCount' = 0
    /\ UNCHANGED <<proc, etcd, regVars, ka, kaChan, updVars, gdVars, ctxs>>

\* Mutant: the loop reads the channel only, the contexts are not selected.
KaSeesCancel_Never == FALSE
KaSeesCancel == Cancelled

KaStops ==
    /\ proc = "up" /\ ka = "select" /\ KaSeesCancel
    /\ ka' = "done"
    /\ UNCHANGED <<proc, etcd, regVars, kaChan, retryCount, updVars, gdVars, ctxs>>

\* The channel was closed: give up or sleep before another try.
KaClosed ==
    /\ proc = "up" /\ ka = "select" /\ kaChan = "closed"
    /\ IF retryCount >= KaMaxRetries
         THEN ka' = "done" /\ UNCHANGED retryCount
         ELSE ka' = "sleep" /\ retryCount' = retryCount + 1
    /\ UNCHANGED <<proc, etcd, regVars, kaChan, updVars, gdVars, ctxs>>

\* The restart succeeds, or fails and leaves a nil channel; in both cases the
\* loop goes on with retryCount 0 unless the failure was the last allowed.
KaRestart ==
    /\ proc = "up" /\ ka = "sleep"
    /\ \/ kaChan' = "open" /\ ka' = "select" /\ retryCount' = 0
       \/ /\ kaChan' = "nil"
          /\ IF retryCount >= KaMaxRetries
               THEN ka' = "done" /\ UNCHANGED retryCount
               ELSE ka' = "select" /\ retryCount' = 0
    /\ UNCHANGED <<proc, etcd, regVars, updVars, gdVars, ctxs>>

\* The client closes the channel: the lease is gone or the stream broke.
ChanCloses ==
    /\ proc = "up" /\ kaChan = "open"
    /\ kaChan' = "closed"
    /\ UNCHANGED <<proc, etcd, regVars, ka, retryCount, updVars, gdVars, ctxs>>

KeepAlive == KaStops \/ KaClosed \/ KaRestart

-----------------------------------------------------------------------------
(* StartNodeStateUpdater: a read, a change of the load and a Put.          *)
UpdTick ==
    /\ proc = "up" /\ upd = "select"
    /\ upd' = "get"
    /\ UNCHANGED <<proc, etcd, regVars, kaVars, copy, gdVars, ctxs>>

UpdStops ==
    /\ proc = "up" /\ upd = "select" /\ Cancelled
    /\ upd' = "done"
    /\ UNCHANGED <<proc, etcd, regVars, kaVars, copy, gdVars, ctxs>>

\* Mutant: the Put of UpdateNodeInfo does not name the lease.
OnLease_None(n) == [n EXCEPT !.lease = NoLease]
\* clientv3.WithLease(leaseID)
OnLease(n) == [n EXCEPT !.lease = leaseID]

\* The read fails, finds nothing, or finds a node whose load is (not) what
\* updateFunc counts.
UpdGet ==
    /\ proc = "up" /\ upd = "get"
    /\ \/ upd' = "select" /\ UNCHANGED copy
       \/ \E n \in Loads :
            /\ rec # NoNode /\ rec.load # n
            /\ copy' = OnLease([rec EXCEPT !.load = n])
            /\ upd' = "put"
    /\ UNCHANGED <<proc, etcd, regVars, kaVars, gdVars, ctxs>>

\* UpdateNodeInfo; its error is only logged.
UpdPut ==
    /\ proc = "up" /\ upd = "put"
    /\ PutDone(copy) \/ PutLost
    /\ upd' = "select"
    /\ copy' = NoNode
    /\ UNCHANGED <<proc, regVars, kaVars, gdVars, ctxs>>

Updater == UpdStops \/ UpdGet \/ UpdPut

-----------------------------------------------------------------------------
(* GracefulStop: GracefulDeregister and, in the end, Stop.                 *)
GracefulStopCalled ==
    /\ proc = "up" /\ rg = "done" /\ gd = "off"
    /\ gd' = "get"
    /\ UNCHANGED <<proc, etcd, regVars, kaVars, updVars, draft, ctxs>>

\* Without a record, or with an error, GracefulDeregister returns.
GdGet ==
    /\ proc = "up" /\ gd = "get"
    /\ \/ gd' = "left" /\ UNCHANGED draft
       \/ /\ rec # NoNode
          /\ draft' = OnLease([rec EXCEPT !.weight = 0])
          /\ gd' = "put"
    /\ UNCHANGED <<proc, etcd, regVars, kaVars, updVars, ctxs>>

GdPutOK ==
    /\ proc = "up" /\ gd = "put"
    /\ PutDone(draft)
    /\ gd' = "wait"
    /\ UNCHANGED <<proc, regVars, kaVars, updVars, draft, ctxs>>

GdPutFails ==
    /\ proc = "up" /\ gd = "put"
    /\ PutDone(draft) \/ PutLost
    /\ gd' = "left"
    /\ UNCHANGED <<proc, regVars, kaVars, updVars, draft, ctxs>>

\* GracefulShutdownWaitTime is over, or the stop's context.
GdWait ==
    /\ proc = "up" /\ gd = "wait"
    /\ gd' = "revoke"
    /\ UNCHANGED <<proc, etcd, regVars, kaVars, updVars, draft, ctxs>>

\* Deregister: an error of Revoke (also for a lease that is gone) ends it.
GdRevoke ==
    /\ proc = "up" /\ gd = "revoke"
    /\ \/ leaseID \in live /\ Revoked(leaseID) /\ gd' \in {"cancel", "left"}
       \/ UNCHANGED etcd /\ gd' = "left"
    /\ UNCHANGED <<proc, regVars, kaVars, updVars, draft, ctxs>>

\* r.cancel()
GdCancel ==
    /\ proc = "up" /\ gd = "cancel"
    /\ rctx' = "done"
    /\ gd' = "gone"
    /\ UNCHANGED <<proc, etcd, regVars, kaVars, updVars, draft, sctx>>

\* Stop is called directly, or by GracefulStop in the end, whatever
\* GracefulDeregister returned.
Stop ==
    /\ proc = "up" /\ rg = "done" /\ gd \in {"off", "left", "gone"} /\ sctx = "open"
    /\ sctx' = "done"
    /\ UNCHANGED <<proc, etcd, regVars, kaVars, updVars, gdVars, rctx>>

Stopping == GdGet \/ GdPutOK \/ GdPutFails \/ GdWait \/ GdRevoke \/ GdCancel \/ Stop

\* The process crashes, or exits after Stop or a failed Start.
Die ==
    /\ proc = "up"
    /\ proc' = "dead"
    /\ UNCHANGED <<etcd, regVars, kaVars, updVars, gdVars, ctxs>>

RegFinished == proc = "dead" /\ live = {} /\ UNCHANGED nodeVars

RegNext ==
    \/ Register
    \/ KaRenewed \/ KeepAlive \/ ChanCloses
    \/ UpdTick \/ Updater
    \/ GracefulStopCalled \/ Stopping
    \/ Die \/ \E l \in Leases : Expire(l)
    \/ RegFinished

\* Some call of KeepAlive is at work that renews the lease.
Renewing == proc = "up" /\ ka = "select" /\ kaChan = "open"

\* Etcd expires the leases that nobody renews; the client reports a lease
\* that is gone; goroutines run and the calls of the client return.  A select
\* picks at random among its ready cases, so a context that stays cancelled is
\* seen in the end: strong fairness.  The process need not end, neither Stop
\* nor GracefulStop need be called.
RegFairness ==
    /\ \A l \in Leases : WF_nodeVars((l # leaseID \/ ~Renewing) /\ Expire(l))
    /\ WF_nodeVars(leaseID \notin live /\ ChanCloses)
    /\ WF_nodeVars(Register) /\ WF_nodeVars(gd # "off" /\ Stopping)
    /\ WF_nodeVars(KeepAlive) /\ SF_nodeVars(KaStops)
    /\ WF_nodeVars(Updater) /\ SF_nodeVars(UpdStops)

RegSpec == RegInit /\ [][RegNext]_nodeVars /\ RegFairness

-----------------------------------------------------------------------------
RegTypeOK ==
    /\ proc \in {"up", "dead"}
    /\ live \in SUBSET Leases
    /\ rec \in Nodes \union {NoNode}
    /\ rg \in {"grant", "put", "revoke", "failed", "done"}
    /\ granted \in 0..(RegMaxRetries + 1) /\ leaseID \in Leases \union {NoLease}
    /\ ka \in {"off", "select", "sleep", "done"} /\ kaChan \in {"open", "closed", "nil"}
    /\ retryCount \in 0..KaMaxRetries
    /\ upd \in {"off", "select", "get", "put", "done"} /\ copy \in Nodes \union {NoNode}
    /\ gd \in {"off", "get", "put", "wait", "revoke", "cancel", "left", "gone"}
    /\ draft \in Nodes \union {NoNode}
    /\ {sctx, rctx} \subseteq {"open", "done"}

\* Once Deregister has revoked the lease the node is not seen again: an update
\* that the state updater had under way cannot put the record back.
NoResurrection == gd \in {"cancel", "gone"} => rec = NoNode

\* After Register the record hangs on the lease that KeepAlive renews, also
\* when earlier attempts have left leases, or a record, behind: their expiry
\* does not take a running node out of the registry.
RecordOnOwnLease == (rg = "done" /\ rec # NoNode) => rec.lease = leaseID

\* A node that is stopped, has crashed or could not start disappears from the
\* registry, whatever failed on the way.
NodeLeaves == (proc = "dead" \/ sctx = "done" \/ rg = "failed") ~> (rec = NoNode)
=============================================================================
