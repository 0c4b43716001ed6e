----------------------------- MODULE LinkEvents -----------------------------
(***************************************************************************)
(* types.go, internal/linkevent and pkg/session: the life of one user's    *)
(* connections as the handlers of link events see it.  The upgrader builds *)
(* the session in Redis; LinkEventHandlerWrapper then calls every handler  *)
(* of its list for each event: the rate limiter, the message handler, the  *)
(* producer of ONLINE and OFFLINE events, the gauge of online users and    *)
(* the message counters.  A reconnect, perhaps at another node after a     *)
(* redirect, overlaps with the end of the connection before it.            *)
(*                                                                         *)
(* Modules WsServer, Link, Upstream and PushRetry have what the server,    *)
(* the link and the message handler do in these calls.                     *)
(***************************************************************************)
EXTENDS Integers, Sequences, FiniteSets

CONSTANTS Conns,      \* connections of the user
          Nodes,      \* gateway nodes
          NodeOf,     \* the node of each connection
          NoSession,  \* Redis has no session of the user
          Burst,      \* tokens of the rate limiter
          MaxMsgs     \* bound: messages on a connection

ASSUME LinkEventsAssumption ==
    /\ IsFiniteSet(Conns) /\ NoSession \notin Conns
    /\ NodeOf \in [Conns -> Nodes]
    /\ Burst \in Nat /\ MaxMsgs \in Nat

\* InitLinkEventHandlerWrapper.
handlers == <<"limit", "handler", "userAction", "onlineUser", "prometheus">>
Kinds == {"heartbeat", "message", "invalid"}

VARIABLES
    session,  \* who created the session (its loginTime)
    st,       \* handleConn: new, OnConnect, loop, OnFrontendSendMessage, OnDisconnect, end
    pos,      \* the handler that the wrapper calls next
    err,      \* the error the wrapper has collected: nil, failed, linkClosed
    kind,     \* the message being handled
    tokens,   \* tokens of each node's rate limiter
    counter,  \* gauge websocket_gateway_online_users of each node
    topic,    \* user action events of the user
    lost,     \* an event could not be produced
    arrived, limited,   \* messages received; answered with RATE_LIMIT_EXCEEDED
    seen, counted       \* given to the message handler; counted as upstream

chain == <<pos, err, kind>>
metrics == <<arrived, limited, seen, counted>>
vars == <<session, st, chain, tokens, counter, topic, lost, metrics>>

Init ==
    /\ session = NoSession
    /\ st = [c \in Conns |-> "new"]
    /\ pos = [c \in Conns |-> 1]
    /\ err = [c \in Conns |-> "nil"]
    /\ kind = [c \in Conns |-> "none"]
    /\ tokens = [n \in Nodes |-> Burst]
    /\ counter = [n \in Nodes |-> 0]
    /\ topic = <<>> /\ lost = FALSE
    /\ arrived = [c \in Conns |-> 0] /\ limited = [c \in Conns |-> 0]
    /\ seen = [c \in Conns |-> 0] /\ counted = [c \in Conns |-> 0]

Running(c) == handlers[pos[c]]
InChain(c) == pos[c] <= Len(handlers)

\* The wrapper starts to call its handlers for event e.
Begin(c, e) ==
    /\ st' = [st EXCEPT ![c] = e]
    /\ pos' = [pos EXCEPT ![c] = 1]
    /\ err' = [err EXCEPT ![c] = "nil"]

\* A handler returns e, which multierr.Append adds to the others.
Append1(c, e) ==
    /\ pos' = [pos EXCEPT ![c] = @ + 1]
    /\ err' = [err EXCEPT ![c] = IF @ = "nil" \/ e = "linkClosed" THEN e ELSE @]

-----------------------------------------------------------------------------
(* Upgrader.Upgrade and RedisSessionBuilder.Build.                         *)

\* The script creates the session if there is none.
luaSetSessionIfNotExist(c) == session' = IF session = NoSession THEN c ELSE session

\* The call of Redis may also fail, with the script run or not.
initialize(c, result) ==
    \/ /\ luaSetSessionIfNotExist(c)
       /\ result = IF session = NoSession THEN "nil" ELSE "ErrSessionExisted"
    \/ /\ luaSetSessionIfNotExist(c) \/ UNCHANGED session
       /\ result = "ErrCreateSessionFailed"

\* An existing session is used as it is: a reconnect, or a second login.
Built(result) == result \in {"nil", "ErrSessionExisted"}
Results == {"nil", "ErrSessionExisted", "ErrCreateSessionFailed"}
Build(c, ok) == \E r \in Results : initialize(c, r) /\ Built(r) = ok

Upgrade(c) ==
    /\ st[c] = "new"
    /\ Build(c, TRUE)
    /\ Begin(c, "OnConnect")
    /\ UNCHANGED <<kind, tokens, counter, topic, lost, metrics>>

\* The token is not valid, the session cannot be built, or the handshake
\* fails after that.
UpgradeFails(c) ==
    /\ st[c] = "new"
    /\ UNCHANGED session \/ Build(c, FALSE) \/ Build(c, TRUE)
    /\ st' = [st EXCEPT ![c] = "end"]
    /\ UNCHANGED <<chain, tokens, counter, topic, lost, metrics>>

-----------------------------------------------------------------------------
(* OnConnect and OnDisconnect of the handlers.                             *)

\* sendUserActionEvent.
Produced(a) == topic' = Append(topic, a) /\ UNCHANGED lost
ProduceFails == lost' = TRUE /\ UNCHANGED topic

\* Mutant: the error of the producer is returned.
SendError_Returned(failed) == IF failed THEN "failed" ELSE "nil"
\* UserActionHandler only logs it.
SendError(failed) == "nil"

\* Mutant: both events are ONLINE.
ActionOf_Same(e) == "ONLINE"
ActionOf(e) == IF e = "OnConnect" THEN "ONLINE" ELSE "OFFLINE"

SendUserActionEvent(c, e) ==
    /\ st[c] = e /\ InChain(c) /\ Running(c) = "userAction"
    /\ \/ Produced(ActionOf(e)) /\ Append1(c, SendError(FALSE))
       \/ ProduceFails /\ Append1(c, SendError(TRUE))
    /\ UNCHANGED <<session, st, kind, tokens, counter, metrics>>

OnlineUser(c, e) ==
    /\ st[c] = e /\ InChain(c) /\ Running(c) = "onlineUser"
    /\ counter' = [counter EXCEPT ![NodeOf[c]] = IF e = "OnConnect" THEN @ + 1 ELSE @ - 1]
    /\ Append1(c, "nil")
    /\ UNCHANGED <<session, st, kind, tokens, topic, lost, metrics>>

\* The other handlers return nil (Handler.OnDisconnect stops the user's
\* retransmissions: module PushRetry).
OtherHandler(c, e) ==
    /\ st[c] = e /\ InChain(c) /\ Running(c) \in {"limit", "handler", "prometheus"}
    /\ Append1(c, "nil")
    /\ UNCHANGED <<session, st, kind, tokens, counter, topic, lost, metrics>>

\* handleConn: after a failed OnConnect there is no OnDisconnect.
Connected(c) ==
    /\ st[c] = "OnConnect" /\ ~InChain(c)
    /\ st' = [st EXCEPT ![c] = IF err[c] = "nil" THEN "loop" ELSE "end"]
    /\ UNCHANGED <<session, chain, tokens, counter, topic, lost, metrics>>

Disconnected(c) ==
    /\ st[c] = "OnDisconnect" /\ ~InChain(c)
    /\ st' = [st EXCEPT ![c] = "end"]
    /\ UNCHANGED <<session, chain, tokens, counter, topic, lost, metrics>>

-----------------------------------------------------------------------------
(* The loop of handleConn and OnFrontendSendMessage of the handlers.       *)

Receive(c) ==
    /\ st[c] = "loop" /\ arrived[c] < MaxMsgs
    /\ \E k \in Kinds :
         /\ kind' = [kind EXCEPT ![c] = k]
         /\ arrived' = [arrived EXCEPT ![c] = IF k = "message" THEN @ + 1 ELSE @]
    /\ Begin(c, "OnFrontendSendMessage")
    /\ UNCHANGED <<session, tokens, counter, topic, lost, limited, seen, counted>>

\* The link is closed, its channel is, or the server stops.
LoopEnds(c) ==
    /\ st[c] = "loop"
    /\ Begin(c, "OnDisconnect")
    /\ UNCHANGED <<session, kind, tokens, counter, topic, lost, metrics>>

Handling(c, h) == st[c] = "OnFrontendSendMessage" /\ InChain(c) /\ Running(c) = h

\* What LimitHandler limits: neither heartbeats nor what it cannot decode.
Limits(c) == kind[c] = "message"

LimitAllows(c) ==
    /\ Handling(c, "limit")
    /\ IF Limits(c)
         THEN tokens[NodeOf[c]] > 0 /\ tokens' = [tokens EXCEPT ![NodeOf[c]] = @ - 1]
         ELSE UNCHANGED tokens
    /\ Append1(c, "nil")
    /\ UNCHANGED <<session, st, kind, counter, topic, lost, metrics>>

\* Mutant: ErrRateLimitExceeded is collected like any other error.
Interrupt_Not(c) == Append1(c, "failed") /\ UNCHANGED st
\* ErrRateLimitExceeded ends the calls, and the wrapper returns nil.
Interrupt(c) == st' = [st EXCEPT ![c] = "loop"] /\ UNCHANGED <<pos, err>>

LimitExceeded(c) ==
    /\ Handling(c, "limit") /\ Limits(c) /\ tokens[NodeOf[c]] = 0
    /\ limited' = [limited EXCEPT ![c] = @ + 1]
    /\ Interrupt(c)
    /\ UNCHANGED <<session, kind, tokens, counter, topic, lost, arrived, seen, counted>>

\* The message handler succeeds or fails; what cannot be decoded fails.
HandleMessage(c) ==
    /\ Handling(c, "handler")
    /\ \E e \in {"nil", "failed", "linkClosed"} :
         /\ kind[c] = "invalid" => e = "failed"
         /\ Append1(c, e)
    /\ seen' = [seen EXCEPT ![c] = IF kind[c] = "message" THEN @ + 1 ELSE @]
    /\ UNCHANGED <<session, st, kind, tokens, counter, topic, lost, arrived, limited, counted>>

PassOn(c) ==
    /\ Handling(c, "userAction") \/ Handling(c, "onlineUser")
    /\ Append1(c, "nil")
    /\ UNCHANGED <<session, st, kind, tokens, counter, topic, lost, metrics>>

CountMessage(c) ==
    /\ Handling(c, "prometheus")
    /\ counted' = [counted EXCEPT ![c] = IF kind[c] = "message" THEN @ + 1 ELSE @]
    /\ Append1(c, "nil")
    /\ UNCHANGED <<session, st, kind, tokens, counter, topic, lost, arrived, limited, seen>>

\* The wrapper returns: only ErrLinkClosed ends the loop.
Handled(c) ==
    /\ st[c] = "OnFrontendSendMessage" /\ ~InChain(c)
    /\ IF err[c] = "linkClosed" THEN Begin(c, "OnDisconnect")
       ELSE st' = [st EXCEPT ![c] = "loop"] /\ UNCHANGED <<pos, err>>
    /\ UNCHANGED <<session, kind, tokens, counter, topic, lost, metrics>>

Refill(n) ==
    /\ tokens[n] < Burst
    /\ tokens' = [tokens EXCEPT ![n] = @ + 1]
    /\ UNCHANGED <<session, st, chain, counter, topic, lost, metrics>>

HandleConn(c) ==
    \/ Upgrade(c) \/ UpgradeFails(c) \/ Connected(c) \/ Disconnected(c)
    \/ \E e \in {"OnConnect", "OnDisconnect"} :
         SendUserActionEvent(c, e) \/ OnlineUser(c, e) \/ OtherHandler(c, e)
    \/ Receive(c) \/ LoopEnds(c) \/ LimitAllows(c) \/ LimitExceeded(c)
    \/ HandleMessage(c) \/ PassOn(c) \/ CountMessage(c) \/ Handled(c)

Next == (\E c \in Conns : HandleConn(c)) \/ (\E n \in Nodes : Refill(n))

Spec == Init /\ [][Next]_vars

-----------------------------------------------------------------------------
(* Properties.                                                             *)

After(c, h) == \E i \in 1..(pos[c] - 1) : handlers[i] = h

\* Connections that count as online to handler h: its OnConnect has returned
\* and its OnDisconnect has not.
OnlineTo(h) ==
    {c \in Conns : \/ st[c] = "OnConnect" /\ After(c, h)
                   \/ st[c] \in {"loop", "OnFrontendSendMessage"}
                   \/ st[c] = "OnDisconnect" /\ ~After(c, h)}

\* The connections of node n that the gauge has seen connect and not yet leave.
OnlineAt(n) == {c \in OnlineTo("onlineUser") : NodeOf[c] = n}

\* The gauge counts connections, not users as its help text says (two
\* connections of one user count twice): every increment is taken back on every
\* way out of handleConn, whatever the other handlers meet with, so that it never
\* drifts.
GaugeCountsConnections == \A n \in Nodes : counter[n] = Cardinality(OnlineAt(n))

Sum(a) == Cardinality({i \in DOMAIN topic : topic[i] = a})

\* Unless one could not be sent, the ONLINE and OFFLINE events of a user add
\* up to the connections he has, also while a reconnect overlaps with the end
\* of the old connection.
EventsBalance ==
    ~lost => Sum("ONLINE") - Sum("OFFLINE") = Cardinality(OnlineTo("userAction"))

\* A message that was refused with RATE_LIMIT_EXCEEDED is neither handled nor
\* counted, and every other one is both, even if the handler failed on it.
EachMessageOnce ==
    \A c \in Conns :
        LET here(h) == IF kind[c] = "message" /\ st[c] = "OnFrontendSendMessage" /\ ~After(c, h)
                         THEN 1 ELSE 0
        IN  /\ arrived[c] = limited[c] + seen[c] + here("handler")
            /\ counted[c] = arrived[c] - limited[c] - here("prometheus")
=============================================================================
