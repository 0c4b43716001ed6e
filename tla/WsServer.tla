------------------------------ MODULE WsServer ------------------------------
(***************************************************************************)
(* internal/websocket_server.go and internal/link/manager.go: the life of  *)
(* the connections of one gateway node.  The acceptor takes a token of the *)
(* connection limiter (module TokenLimiter, whose state this module        *)
(* shares) before every Accept; handleConn owns it until it returns.       *)
(* Meanwhile the link manager keeps the map from user to link and its      *)
(* counter `len`, which handlers, the idle cleaner and GracefulStop change *)
(* concurrently: every sync.Map or atomic operation is a step.             *)
(*                                                                         *)
(* A connection c comes from the user UserOf[c]; two connections of one    *)
(* user are a reconnect or a second login, which the upgrader lets pass.   *)
(* A link is "open" until its context is cancelled (module Link).          *)
(***************************************************************************)
EXTENDS TokenLimiter

CONSTANTS Conns,     \* the connections that clients may open
          Waiting,   \* the token slot of an Accept that no client answers
          Users,     \* link IDs: "biz-user"
          UserOf,    \* the user of each connection
          NoLink     \* "no entry in the map"

ASSUME ServerAssumption ==
    /\ Waiting \notin Conns
    /\ Clients = Conns \union {Waiting}
    /\ UserOf \in [Conns -> Users]
    /\ NoLink \notin Conns
    /\ IsFiniteSet(Users)

VARIABLES
    acc,      \* acceptConn: "check", "acquire", "accept", "done"
    st,       \* handleConn of each connection (and of the waiting slot)
    lk,       \* state of each connection's Link: "none", "open", "closed"
    links,    \* Manager.links
    len,      \* Manager.len
    cl,       \* cleanIdleLinks: "wait", "scan", "remove", "uncount"
    clTodo,   \* keys its Range still visits
    clKey,    \* key of the link TryCloseIfIdle reported as closed
    gs,       \* GracefulStop
    gsTodo,   \* keys the Range of Manager.Close still visits
    gsKey,    \* key of the link it has just closed
    gctx      \* the context given to GracefulStop: "live" or "over"

mgrVars == <<links, len>>
clVars  == <<cl, clTodo, clKey>>
gsVars  == <<gs, gsTodo, gsKey, gctx>>
srvVars == <<acc, st, lk, links, len, cl, clTodo, clKey, gs, gsTodo, gsKey, gctx>>
vars    == <<srvVars, limVars>>

Init ==
    /\ LimInit
    /\ acc = "check"
    /\ st = [c \in Clients |-> "new"]
    /\ lk = [c \in Conns |-> "none"]
    /\ links = [u \in Users |-> NoLink]
    /\ len = 0
    /\ cl = "wait" /\ clTodo = {} /\ clKey = NoLink
    /\ gs = "run" /\ gsTodo = {} /\ gsKey = NoLink /\ gctx = "live"

Accepting == gs = "run"                    \* acceptingConnections
Listening == gs \in {"run", "unlisten"}    \* the listener is open
ServerDone == "ext" \in cancelled          \* s.ctx is cancelled

Move(c, l) == st' = [st EXCEPT ![c] = l]
Entries == {u \in Users : links[u] # NoLink}

-----------------------------------------------------------------------------
(* acceptConn.                                                             *)
AcceptCheck ==
    /\ acc = "check"
    /\ acc' = IF Accepting THEN "acquire" ELSE "done"
    /\ UNCHANGED <<st, lk, mgrVars, clVars, gsVars, limVars>>

\* The token taken before Accept is the one the next connection will own.
AcceptAcquire(c) ==
    /\ acc = "acquire" /\ st[c] = "new"
    /\ Acquire(c)
    /\ Move(c, "slot")
    /\ acc' = "accept"
    /\ UNCHANGED <<lk, mgrVars, clVars, gsVars>>

\* No token: sleep for the back-off and check again.
AcceptBackoff ==
    /\ acc = "acquire"
    /\ AcquireFails
    /\ acc' = "check"
    /\ UNCHANGED <<st, lk, mgrVars, clVars, gsVars>>

AcceptConn(c) ==
    /\ acc = "accept" /\ st[c] = "slot" /\ c \in Conns
    /\ Listening
    /\ Move(c, "upgrade")
    /\ acc' = "check"
    /\ UNCHANGED <<lk, mgrVars, clVars, gsVars, limVars>>

\* Mutant: the token is not given back when Accept fails.
GiveBack_Never(c) == UNCHANGED limVars
GiveBack(c) == Release(c)

\* Accept failed: net.ErrClosed ends the loop, any other error does not.
AcceptError(c) ==
    /\ acc = "accept" /\ st[c] = "slot"
    /\ GiveBack(c)
    /\ Move(c, "new")
    /\ acc' = IF Listening THEN "check" ELSE "done"
    /\ UNCHANGED <<lk, mgrVars, clVars, gsVars>>

Acceptor ==
    \/ AcceptCheck \/ AcceptBackoff
    \/ \E c \in Clients : AcceptAcquire(c) \/ AcceptConn(c) \/ AcceptError(c)

-----------------------------------------------------------------------------
(* Manager.NewLink and Manager.RemoveLink, each a sync.Map operation       *)
(* followed by an update of the counter.                                   *)
Stored(c) == [links EXCEPT ![UserOf[c]] = c]
Removed(u) == [links EXCEPT ![u] = NoLink]

-----------------------------------------------------------------------------
(* handleConn, one goroutine per accepted connection.                      *)

\* Upgrade fails, or the session is built (new or existing) and the link's
\* goroutines start.
Upgrade(c) ==
    /\ st[c] = "upgrade"
    /\ \/ Move(c, "release") /\ UNCHANGED lk
       \/ Move(c, "store") /\ lk' = [lk EXCEPT ![c] = IF ServerDone THEN "closed" ELSE "open"]
    /\ UNCHANGED <<acc, mgrVars, clVars, gsVars, limVars>>

\* links.Store replaces the entry of an older connection of the user.
NewLinkStore(c) ==
    /\ st[c] = "store"
    /\ links' = Stored(c)
    /\ Move(c, "count")
    /\ UNCHANGED <<acc, lk, len, clVars, gsVars, limVars>>

NewLinkCount(c) ==
    /\ st[c] = "count"
    /\ len' = len + 1
    /\ Move(c, "connect")
    /\ UNCHANGED <<acc, lk, links, clVars, gsVars, limVars>>

\* Mutant: the early return forgets the deferred RemoveLink.
OnConnectFailed_Leak == "release"
OnConnectFailed == "remove"

OnConnect(c) ==
    /\ st[c] = "connect"
    /\ Move(c, "loop") \/ Move(c, OnConnectFailed)
    /\ UNCHANGED <<acc, lk, mgrVars, clVars, gsVars, limVars>>

\* The loop ends: the link is closed (a Send on it returns ErrLinkClosed) or
\* the server stops.
LoopEnd(c) ==
    /\ st[c] = "loop"
    /\ lk[c] = "closed" \/ ServerDone
    /\ Move(c, "disconnect")
    /\ UNCHANGED <<acc, lk, mgrVars, clVars, gsVars, limVars>>

\* Or the receive loop has closed receiveCh while the link is still open:
\* the client left.
ReceiveEnds(c) ==
    /\ st[c] = "loop"
    /\ Move(c, "disconnect")
    /\ UNCHANGED <<acc, lk, mgrVars, clVars, gsVars, limVars>>

\* The event handler's OnDisconnect closes the link.
OnDisconnect(c) ==
    /\ st[c] = "disconnect"
    /\ lk' = [lk EXCEPT ![c] = "closed"]
    /\ Move(c, "remove")
    /\ UNCHANGED <<acc, mgrVars, clVars, gsVars, limVars>>

\* Mutant: the counter goes down whether or not an entry was deleted.
NextAfterDelete_Always(u) == "uncount"
\* RemoveLink decrements len only when LoadAndDelete found an entry.
NextAfterDelete(u) == IF links[u] # NoLink THEN "uncount" ELSE "skip"

HandlerRemove(c) ==
    /\ st[c] = "remove"
    /\ links' = Removed(UserOf[c])
    /\ Move(c, IF NextAfterDelete(UserOf[c]) = "uncount" THEN "uncount" ELSE "close")
    /\ UNCHANGED <<acc, lk, len, clVars, gsVars, limVars>>

HandlerUncount(c) ==
    /\ st[c] = "uncount"
    /\ len' = len - 1
    /\ Move(c, "close")
    /\ UNCHANGED <<acc, lk, links, clVars, gsVars, limVars>>

HandlerClose(c) ==
    /\ st[c] = "close"
    /\ lk' = [lk EXCEPT ![c] = "closed"]
    /\ Move(c, "release")
    /\ UNCHANGED <<acc, mgrVars, clVars, gsVars, limVars>>

\* conn.Close and then the deferred Release.
HandlerRelease(c) ==
    /\ st[c] = "release"
    /\ Release(c)
    /\ Move(c, "done")
    /\ UNCHANGED <<acc, lk, mgrVars, clVars, gsVars>>

Deferred(c) ==
    \/ NewLinkStore(c) \/ NewLinkCount(c) \/ OnConnect(c) \/ LoopEnd(c) \/ OnDisconnect(c)
    \/ HandlerRemove(c) \/ HandlerUncount(c) \/ HandlerClose(c) \/ HandlerRelease(c)

\* The link closes by itself: the client left, a write failed.
LinkDies(c) ==
    /\ lk[c] = "open"
    /\ lk' = [lk EXCEPT ![c] = "closed"]
    /\ UNCHANGED <<acc, st, mgrVars, clVars, gsVars, limVars>>

-----------------------------------------------------------------------------
(* cleanIdleLinks: a tick runs CleanIdleLinks.  sync.Map.Range visits each *)
(* key at most once and sees what it holds at some point of the call.      *)
CleanTick ==
    /\ cl = "wait" /\ ~ServerDone
    /\ cl' = "scan"
    /\ clTodo' = Users
    /\ UNCHANGED <<acc, st, lk, mgrVars, clKey, gsVars, limVars>>

IdleClosed(u) == [lk EXCEPT ![links[u]] = "closed"]

\* TryCloseIfIdle of the link now stored under u: true for a closed link,
\* and for an open one that is idle, which it closes.
CleanVisit(u) ==
    /\ cl = "scan" /\ u \in clTodo
    /\ clTodo' = clTodo \ {u}
    /\ \/ UNCHANGED <<lk, cl, clKey>> /\ (links[u] # NoLink => lk[links[u]] = "open")
       \/ /\ links[u] # NoLink
          /\ lk' = IdleClosed(u)
          /\ cl' = "remove"
          /\ clKey' = u
    /\ UNCHANGED <<acc, st, mgrVars, gsVars, limVars>>

CleanRemove ==
    /\ cl = "remove"
    /\ links' = Removed(clKey)
    /\ cl' = IF NextAfterDelete(clKey) = "uncount" THEN "uncount" ELSE "scan"
    /\ clKey' = NoLink
    /\ UNCHANGED <<acc, st, lk, len, clTodo, gsVars, limVars>>

CleanUncount ==
    /\ cl = "uncount"
    /\ len' = len - 1
    /\ cl' = "scan"
    /\ UNCHANGED <<acc, st, lk, links, clTodo, clKey, gsVars, limVars>>

CleanDone ==
    /\ cl = "scan" /\ clTodo = {}
    /\ cl' = "wait"
    /\ UNCHANGED <<acc, st, lk, mgrVars, clTodo, clKey, gsVars, limVars>>

Cleaner == CleanTick \/ (\E u \in Users : CleanVisit(u)) \/ CleanRemove \/ CleanUncount \/ CleanDone

-----------------------------------------------------------------------------
(* GracefulStop, Manager.GracefulClose, Manager.Close and Stop.            *)
StopMove(l) == gs' = l /\ UNCHANGED <<acc, st, lk, links, len, clVars, gsTodo, gsKey, gctx>>

\* acceptingConnections.Store(false)
StopAccepting == gs = "run" /\ StopMove("unlisten") /\ UNCHANGED limVars

\* listener.Close()
StopListening == gs = "unlisten" /\ StopMove("deregister") /\ UNCHANGED limVars

\* GracefulDeregister, the consumers' Stop and GetAvailableNodes touch
\* nothing of this module; their errors are only logged.
StopDeregister == gs = "deregister" /\ StopMove("gclose") /\ UNCHANGED limVars

\* GracefulClose returns at once when it counts no link; otherwise the links
\* of the map get the redirect message, on which a client may leave.
GracefulCloseBegin ==
    /\ gs = "gclose"
    /\ gs' = IF len = 0 THEN "ctxwait" ELSE "drain"
    /\ UNCHANGED <<acc, st, lk, mgrVars, clVars, gsTodo, gsKey, gctx, limVars>>

DrainTick == gs = "drain" /\ len = 0 /\ StopMove("ctxwait") /\ UNCHANGED limVars

\* Mutant: the wait for the clients ignores the context.
DrainExpires_Never == FALSE
DrainExpires == gctx = "over"

DrainTimeout == gs = "drain" /\ DrainExpires /\ StopMove("force") /\ UNCHANGED limVars

\* Manager.Close: nothing to do when len is 0, else Range over the map.
ForceBegin ==
    /\ gs = "force"
    /\ IF len = 0
         THEN gs' = "ctxwait" /\ UNCHANGED gsTodo
         ELSE gs' = "forcing" /\ gsTodo' = Users
    /\ UNCHANGED <<acc, st, lk, mgrVars, clVars, gsKey, gctx, limVars>>

\* link.Close() and then RemoveLink(key), of whichever link the key has by then.
ForceClose(u) ==
    /\ gs = "forcing" /\ u \in gsTodo
    /\ gsTodo' = gsTodo \ {u}
    /\ IF links[u] = NoLink
         THEN UNCHANGED <<lk, gs, gsKey>>
         ELSE /\ lk' = [lk EXCEPT ![links[u]] = "closed"]
              /\ gs' = "remove"
              /\ gsKey' = u
    /\ UNCHANGED <<acc, st, mgrVars, clVars, gctx, limVars>>

ForceRemove ==
    /\ gs = "remove"
    /\ links' = Removed(gsKey)
    /\ gs' = IF NextAfterDelete(gsKey) = "uncount" THEN "uncount" ELSE "forcing"
    /\ gsKey' = NoLink
    /\ UNCHANGED <<acc, st, lk, len, clVars, gsTodo, gctx, limVars>>

ForceUncount ==
    /\ gs = "uncount"
    /\ len' = len - 1
    /\ gs' = "forcing"
    /\ UNCHANGED <<acc, st, lk, links, clVars, gsTodo, gsKey, gctx, limVars>>

ForceEnd == gs = "forcing" /\ gsTodo = {} /\ StopMove("ctxwait") /\ UNCHANGED limVars

\* <-ctx.Done() and then Stop: the limiter is closed, s.ctx is cancelled and
\* with it every link's context.
StopLimiter == gs = "ctxwait" /\ gctx = "over" /\ StopMove("cancel") /\ Close

StopCancel ==
    /\ gs = "cancel"
    /\ CancelExternal
    /\ gs' = "stopped"
    /\ lk' = [c \in Conns |-> IF lk[c] = "open" THEN "closed" ELSE lk[c]]
    /\ UNCHANGED <<acc, st, mgrVars, clVars, gsTodo, gsKey, gctx>>

GracefulStop ==
    \/ StopListening \/ StopDeregister \/ GracefulCloseBegin \/ DrainTick \/ DrainTimeout
    \/ ForceBegin \/ (\E u \in Users : ForceClose(u)) \/ ForceRemove \/ ForceUncount \/ ForceEnd
    \/ StopLimiter \/ StopCancel

\* The deadline of the stop passes.
StopDeadline ==
    /\ gs # "run" /\ gctx = "live"
    /\ gctx' = "over"
    /\ UNCHANGED <<acc, st, lk, mgrVars, clVars, gs, gsTodo, gsKey, limVars>>

-----------------------------------------------------------------------------
Ramp == RampUp /\ UNCHANGED srvVars

\* After the stop, once every goroutine of the server is gone.
Finished ==
    /\ gs = "stopped" /\ acc = "done" /\ ramp = "done"
    /\ UNCHANGED vars

Next ==
    \/ Acceptor
    \/ \E c \in Conns : Upgrade(c) \/ Deferred(c) \/ ReceiveEnds(c) \/ LinkDies(c)
    \/ Cleaner
    \/ StopAccepting \/ GracefulStop \/ StopDeadline
    \/ Ramp
    \/ Finished

\* Some runnable goroutine of the server runs.  Nothing is assumed of the
\* clients (connecting, finishing the handshake, leaving), of the ticks of the
\* cleaner nor of the call of GracefulStop; an Accept returns only when a
\* client or the closed listener makes it.
Progress ==
    \/ AcceptCheck \/ AcceptBackoff
    \/ \E c \in Clients : AcceptAcquire(c) \/ (~Listening /\ AcceptError(c))
    \/ \E c \in Conns : Deferred(c)
    \/ GracefulStop
    \/ Ramp
Fairness == WF_vars(Progress)

Spec == Init /\ [][Next]_vars /\ Fairness

-----------------------------------------------------------------------------
TypeOK ==
    /\ LimTypeOK
    /\ acc \in {"check", "acquire", "accept", "done"}
    /\ st \in [Clients -> {"new", "slot", "upgrade", "store", "count", "connect", "loop",
                           "disconnect", "remove", "uncount", "close", "release", "done"}]
    /\ lk \in [Conns -> {"none", "open", "closed"}]
    /\ links \in [Users -> Conns \union {NoLink}]
    /\ len \in Int
    /\ cl \in {"wait", "scan", "remove", "uncount"}
    /\ clTodo \in SUBSET Users /\ clKey \in Users \union {NoLink}
    /\ gs \in {"run", "unlisten", "deregister", "gclose", "drain", "force", "forcing",
               "remove", "uncount", "ctxwait", "cancel", "stopped"}
    /\ gsTodo \in SUBSET Users /\ gsKey \in Users \union {NoLink} /\ gctx \in {"live", "over"}

\* Every token in use belongs to the acceptor's pending Accept or to a
\* handleConn that has not returned: no error path leaks or doubles one.
TokenOwners == held = {c \in Clients : st[c] \notin {"new", "done"}}

\* The map never keeps a connection whose handler is past its RemoveLink,
\* although removal is by user and entries are overwritten by reconnects.
NoStaleEntry ==
    \A u \in Users : links[u] # NoLink =>
        /\ UserOf[links[u]] = u
        /\ st[links[u]] \in {"count", "connect", "loop", "disconnect", "remove"}

Pending(S) == Cardinality({c \in S : st[c] = "count"})

\* Once the deadline of GracefulStop has passed it returns, even if clients
\* stay; the accept loop ends, neither asleep in its back-off for ever nor
\* keeping a token; every handler whose handshake was over ends and returns
\* its token; the ramp-up ends.
StopEndsAll ==
    (gctx = "over") ~>
        /\ gs = "stopped"
        /\ acc = "done" /\ \A c \in Clients : st[c] # "slot"
        /\ \A c \in Conns : st[c] \in {"new", "upgrade", "done"}
        /\ ramp = "done"

-----------------------------------------------------------------------------
(* What holds when no user has two connections, and what the comments say  *)
(* without that restriction.                                               *)
Alone(c) == \A d \in Conns \ {c} : UserOf[d] = UserOf[c] => st[d] = "new"

Removing == \/ \E c \in Conns : st[c] = "uncount"
            \/ cl = "uncount" \/ gs = "uncount"

\* len never undercounts: whatever handlers, cleaner and GracefulStop delete
\* concurrently, an entry is subtracted at most once; otherwise GracefulStop
\* could see 0 and skip links that are still in the map.  As long as nobody has
\* reconnected it is exact whenever no add or remove is halfway ("Len returns
\* the number of Link instances currently managed").
LenCountsLinks ==
    /\ Cardinality(Entries) <= len + Pending(Conns)
    /\ (/\ \A c \in Conns : st[c] # "new" => Alone(c)
        /\ Pending(Conns) = 0 /\ ~Removing) => len = Cardinality(Entries)

Served(c) == st[c] = "loop" /\ lk[c] = "open" /\ gs = "run"

\* FindLinkByUserInfo finds a link of a user who is served; otherwise a push
\* to an online user fails with "unknown receiver".
OnlineUserFindable == \A c \in Conns : Served(c) => links[UserOf[c]] # NoLink
=============================================================================
