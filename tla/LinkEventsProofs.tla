-------------------------- MODULE LinkEventsProofs --------------------------
(***************************************************************************)
(* The handlers of link events, for any connections, nodes, rate limit and *)
(* number of messages: the gauge of online users is exact, the events on   *)
(* the topic add up, and every message is handled and counted once.        *)
(***************************************************************************)
EXTENDS LinkEvents, FiniteSetTheorems, TLAPS

States == {"new", "OnConnect", "loop", "OnFrontendSendMessage", "OnDisconnect", "end"}

Typed ==
    /\ st \in [Conns -> States] /\ pos \in [Conns -> 1..6]
    /\ err \in [Conns -> {"nil", "failed", "linkClosed"}]
    /\ kind \in [Conns -> Kinds \union {"none"}]
    /\ counter \in [Nodes -> Int] /\ topic \in Seq({"ONLINE", "OFFLINE"})
    /\ arrived \in [Conns -> Int] /\ limited \in [Conns -> Int]
    /\ seen \in [Conns -> Int] /\ counted \in [Conns -> Int]

\* No handler's OnConnect fails: whoever has counted a connection as online is
\* also told of its end.
ConnectShape == \A c \in Conns : st[c] = "OnConnect" => err[c] = "nil"

EventsIInv == Typed /\ ConnectShape
-----------------------------------------------------------------------------
(* The wrapper's list.                                                     *)

\* The handlers by their places.
LEMMA Places ==
  ASSUME Typed, NEW c \in Conns
  PROVE  /\ InChain(c) <=> pos[c] \in 1..5
         /\ InChain(c) => /\ Running(c) = "limit" <=> pos[c] = 1
                          /\ Running(c) = "handler" <=> pos[c] = 2
                          /\ Running(c) = "userAction" <=> pos[c] = 3
                          /\ Running(c) = "onlineUser" <=> pos[c] = 4
                          /\ Running(c) = "prometheus" <=> pos[c] = 5
         /\ After(c, "handler") <=> pos[c] > 2
         /\ After(c, "userAction") <=> pos[c] > 3
         /\ After(c, "onlineUser") <=> pos[c] > 4
         /\ After(c, "prometheus") <=> pos[c] > 5
<1>1. pos[c] \in 1..6
  BY DEF Typed
<1>2. Len(handlers) = 5
  BY DEF handlers
<1>3. InChain(c) <=> pos[c] \in 1..5
  BY <1>1, <1>2 DEF InChain
<1>4. /\ handlers[1] = "limit" /\ handlers[2] = "handler" /\ handlers[3] = "userAction"
      /\ handlers[4] = "onlineUser" /\ handlers[5] = "prometheus"
  BY DEF handlers
<1>5. \A i \in 1..5 : i = 1 \/ i = 2 \/ i = 3 \/ i = 4 \/ i = 5
  OBVIOUS
<1>6. \A i \in 1..5 : /\ handlers[i] = "limit" <=> i = 1
                      /\ handlers[i] = "handler" <=> i = 2
                      /\ handlers[i] = "userAction" <=> i = 3
                      /\ handlers[i] = "onlineUser" <=> i = 4
                      /\ handlers[i] = "prometheus" <=> i = 5
  BY <1>4, <1>5
<1>7. 1..(pos[c] - 1) \subseteq 1..5
  BY <1>1
<1>8. /\ After(c, "handler") <=> 2 \in 1..(pos[c] - 1)
      /\ After(c, "userAction") <=> 3 \in 1..(pos[c] - 1)
      /\ After(c, "onlineUser") <=> 4 \in 1..(pos[c] - 1)
      /\ After(c, "prometheus") <=> 5 \in 1..(pos[c] - 1)
  BY <1>6, <1>7 DEF After
<1> QED BY <1>1, <1>3, <1>6, <1>8 DEF Running

\* Connection c counts as online to the i-th handler.
On(c, i) ==
    \/ st[c] = "OnConnect" /\ pos[c] > i
    \/ st[c] \in {"loop", "OnFrontendSendMessage"}
    \/ st[c] = "OnDisconnect" /\ pos[c] <= i

\* The connections that are online to the j-th handler.
Members(j) == {d \in Conns : On(d, j)}

\* The connections that are online to the two handlers that keep count.
LEMMA OnlineIs ==
  ASSUME Typed
  PROVE  /\ OnlineTo("userAction") = Members(3)
         /\ OnlineTo("onlineUser") = Members(4)
<1>1. \A c \in Conns : pos[c] \in 1..6
  BY DEF Typed
<1>2. \A c \in Conns : After(c, "userAction") <=> pos[c] > 3
  BY Places
<1>3. \A c \in Conns : After(c, "onlineUser") <=> pos[c] > 4
  BY Places
<1> QED BY <1>1, <1>2, <1>3 DEF OnlineTo, On, Members

-----------------------------------------------------------------------------
(* The invariant.                                                          *)

\* No connection yet.
LEMMA EventsInit == Init => EventsIInv
<1> SUFFICES ASSUME Init PROVE EventsIInv
  OBVIOUS
<1>1. topic \in Seq({"ONLINE", "OFFLINE"})
  BY DEF Init
<1>2. 1 \in 1..6
  OBVIOUS
<1> QED BY <1>1, <1>2 DEF Init, EventsIInv, Typed, ConnectShape, States

\* What the wrapper does with a handler's result.
LEMMA AppendTyped ==
  ASSUME Typed, NEW c \in Conns, InChain(c), NEW e \in {"nil", "failed", "linkClosed"}, Append1(c, e)
  PROVE  /\ pos' = [pos EXCEPT ![c] = pos[c] + 1] /\ pos' \in [Conns -> 1..6]
         /\ err' \in [Conns -> {"nil", "failed", "linkClosed"}]
         /\ (e = "nil" /\ err[c] = "nil") => err'[c] = "nil"
         /\ \A d \in Conns : d # c => err'[d] = err[d]
<1>1. pos[c] \in 1..5
  BY Places
<1> QED BY <1>1 DEF Typed, Append1

\* The wrapper starts with its first handler and no error.
LEMMA BeginTyped ==
  ASSUME Typed, ConnectShape, NEW c \in Conns, NEW e \in States, Begin(c, e)
  PROVE  /\ st' \in [Conns -> States] /\ pos' \in [Conns -> 1..6]
         /\ err' \in [Conns -> {"nil", "failed", "linkClosed"}]
         /\ ConnectShape'
<1>1. 1 \in 1..6
  OBVIOUS
<1> QED BY <1>1 DEF Begin, Typed, ConnectShape

\* Every step preserves the invariant.
LEMMA EventsNext == EventsIInv /\ [Next]_vars => EventsIInv'
<1> SUFFICES ASSUME EventsIInv, [Next]_vars PROVE EventsIInv'
  OBVIOUS
<1> USE LinkEventsAssumption DEF LinkEventsAssumption, EventsIInv, ConnectShape, chain, metrics
<1>1. ASSUME NEW c \in Conns, HandleConn(c) PROVE EventsIInv'
  <2>1. CASE Upgrade(c) \/ LoopEnds(c) \/ Receive(c)
    <3>1. PICK e \in States : Begin(c, e)
      BY <2>1 DEF Upgrade, LoopEnds, Receive, States
    <3>2. /\ UNCHANGED <<counter, topic, limited, seen, counted>>
          /\ kind' \in [Conns -> Kinds \union {"none"}] /\ arrived' \in [Conns -> Int]
      <4>1. CASE Receive(c)
        <5>1. \/ arrived' = [arrived EXCEPT ![c] = arrived[c] + 1]
              \/ arrived' = [arrived EXCEPT ![c] = arrived[c]]
          BY <4>1 DEF Receive
        <5>2. \E k \in Kinds : kind' = [kind EXCEPT ![c] = k]
          BY <4>1 DEF Receive
        <5> QED BY <4>1, <5>1, <5>2 DEF Typed, Receive
      <4>2. CASE Upgrade(c) \/ LoopEnds(c)
        BY <4>2 DEF Typed, Upgrade, LoopEnds
      <4> QED BY <2>1, <4>1, <4>2
    <3> QED BY <3>1, <3>2, BeginTyped DEF Typed
  <2>2. CASE UpgradeFails(c) \/ Connected(c) \/ Disconnected(c) \/ LimitExceeded(c)
    <3>1. PICK e \in States \ {"OnConnect"} : st' = [st EXCEPT ![c] = e]
      <4>1. {"loop", "end"} \subseteq States \ {"OnConnect"}
        BY DEF States
      <4>2. st' = [st EXCEPT ![c] = "loop"] \/ st' = [st EXCEPT ![c] = "end"]
        BY <2>2 DEF UpgradeFails, Connected, Disconnected, LimitExceeded, Interrupt
      <4> QED BY <4>1, <4>2
    <3>2. UNCHANGED <<pos, err, kind, counter, topic, arrived, seen, counted>>
      BY <2>2 DEF UpgradeFails, Connected, Disconnected, LimitExceeded, Interrupt
    <3>3. limited' \in [Conns -> Int]
      <4>1. \/ limited' = [limited EXCEPT ![c] = limited[c] + 1]
            \/ UNCHANGED limited
        BY <2>2 DEF UpgradeFails, Connected, Disconnected, LimitExceeded
      <4> QED BY <4>1 DEF Typed
    <3> QED BY <3>1, <3>2, <3>3 DEF Typed
  <2>3. ASSUME NEW e \in {"OnConnect", "OnDisconnect"},
               SendUserActionEvent(c, e) \/ OnlineUser(c, e) \/ OtherHandler(c, e)
        PROVE  EventsIInv'
    <3>1. InChain(c) /\ Append1(c, "nil") /\ UNCHANGED <<st, kind, metrics>>
      BY <2>3 DEF SendUserActionEvent, OnlineUser, OtherHandler, SendError
    <3>2. /\ pos' \in [Conns -> 1..6] /\ err' \in [Conns -> {"nil", "failed", "linkClosed"}]
          /\ err[c] = "nil" => err'[c] = "nil"
          /\ \A d \in Conns : d # c => err'[d] = err[d]
      BY <3>1, AppendTyped
    <3>3. counter' \in [Nodes -> Int]
      <4>1. CASE OnlineUser(c, e)
        <5>1. NodeOf[c] \in Nodes /\ counter[NodeOf[c]] \in Int
          BY DEF Typed
        <5>2. \/ counter' = [counter EXCEPT ![NodeOf[c]] = counter[NodeOf[c]] + 1]
              \/ counter' = [counter EXCEPT ![NodeOf[c]] = counter[NodeOf[c]] - 1]
          BY <4>1 DEF OnlineUser
        <5> QED BY <5>1, <5>2 DEF Typed
      <4>2. CASE UNCHANGED counter
        BY <4>2 DEF Typed
      <4> QED BY <2>3, <4>1, <4>2 DEF SendUserActionEvent, OtherHandler
    <3>4. topic' \in Seq({"ONLINE", "OFFLINE"})
      <4>1. \/ UNCHANGED topic
            \/ topic' = Append(topic, ActionOf(e))
        BY <2>3 DEF SendUserActionEvent, OnlineUser, OtherHandler, Produced, ProduceFails
      <4>2. ActionOf(e) \in {"ONLINE", "OFFLINE"} /\ topic \in Seq({"ONLINE", "OFFLINE"})
        BY DEF ActionOf, Typed
      <4> QED BY <4>1, <4>2
    <3> QED BY <3>1, <3>2, <3>3, <3>4 DEF Typed
  <2>4. CASE LimitAllows(c) \/ HandleMessage(c) \/ PassOn(c) \/ CountMessage(c)
    <3>1. PICK e \in {"nil", "failed", "linkClosed"} : Append1(c, e)
      BY <2>4 DEF LimitAllows, HandleMessage, PassOn, CountMessage
    <3>2. InChain(c) /\ st[c] = "OnFrontendSendMessage" /\ UNCHANGED <<st, kind, counter, topic>>
      BY <2>4 DEF LimitAllows, HandleMessage, PassOn, CountMessage, Handling
    <3>3. /\ pos' \in [Conns -> 1..6] /\ err' \in [Conns -> {"nil", "failed", "linkClosed"}]
          /\ \A d \in Conns : d # c => err'[d] = err[d]
      BY <3>1, <3>2, AppendTyped
    <3>4. /\ arrived' \in [Conns -> Int] /\ limited' \in [Conns -> Int]
          /\ seen' \in [Conns -> Int] /\ counted' \in [Conns -> Int]
      BY <2>4 DEF Typed, LimitAllows, HandleMessage, PassOn, CountMessage
    <3> QED BY <3>2, <3>3, <3>4 DEF Typed
  <2>5. CASE Handled(c)
    <3>1. CASE Begin(c, "OnDisconnect")
      BY <2>5, <3>1, BeginTyped DEF Typed, States, Handled
    <3>2. CASE st' = [st EXCEPT ![c] = "loop"] /\ UNCHANGED <<pos, err>>
      BY <2>5, <3>2 DEF Typed, States, Handled
    <3> QED BY <2>5, <3>1, <3>2 DEF Handled
  <2> QED BY <1>1, <2>1, <2>2, <2>3, <2>4, <2>5 DEF HandleConn
<1>2. CASE (\E n \in Nodes : Refill(n)) \/ UNCHANGED vars
  BY <1>2 DEF Typed, Refill, vars
<1> QED BY <1>1, <1>2 DEF Next

\* The invariant holds of every behaviour.
LEMMA EventsInvariant == Spec => []EventsIInv
  BY EventsInit, EventsNext, PTL DEF Spec
-----------------------------------------------------------------------------
(* Who is online.                                                          *)

\* The i-th handler's call of event e.
Calls(c, e, i) == st[c] = e /\ pos[c] = i /\ pos' = [pos EXCEPT ![c] = i + 1] /\ UNCHANGED st

\* OnConnect of a handler adds the connection to those online to it, and to no
\* other handler's.
LEMMA ConnectAdds ==
  ASSUME Typed, NEW c \in Conns, NEW i \in 1..5, NEW j \in 1..5, Calls(c, "OnConnect", i)
  PROVE  /\ c \notin Members(i)
         /\ i = j => Members(j)' = Members(j) \union {c}
         /\ i # j => Members(j)' = Members(j)
<1>0. \A d \in Conns : pos[d] \in 1..6
  BY DEF Typed
<1>1. /\ \A d \in Conns : d # c => (On(d, j)' <=> On(d, j))
      /\ On(c, j)' <=> (On(c, j) \/ i = j)
      /\ ~On(c, i)
  BY <1>0 DEF Calls, On, Typed
<1>2. \A d \in Conns : On(d, j)' <=> (On(d, j) \/ (d = c /\ i = j))
  BY <1>1
<1>3. ASSUME i = j PROVE Members(j)' = Members(j) \union {c}
  BY <1>2, <1>3 DEF Members
<1>4. ASSUME i # j PROVE Members(j)' = Members(j)
  BY <1>2, <1>4 DEF Members
<1> QED BY <1>1, <1>3, <1>4 DEF Members

\* OnDisconnect of a handler takes it out again.
LEMMA DisconnectRemoves ==
  ASSUME Typed, NEW c \in Conns, NEW i \in 1..5, NEW j \in 1..5, Calls(c, "OnDisconnect", i)
  PROVE  /\ c \in Members(i)
         /\ i = j => Members(j)' = Members(j) \ {c}
         /\ i # j => Members(j)' = Members(j)
<1>0. \A d \in Conns : pos[d] \in 1..6
  BY DEF Typed
<1>1. /\ \A d \in Conns : d # c => (On(d, j)' <=> On(d, j))
      /\ On(c, j)' <=> (On(c, j) /\ i # j)
      /\ On(c, i)
  BY <1>0 DEF Calls, On, Typed
<1>2. \A d \in Conns : On(d, j)' <=> (On(d, j) /\ ~(d = c /\ i = j))
  BY <1>1
<1>3. ASSUME i = j PROVE Members(j)' = Members(j) \ {c}
  BY <1>2, <1>3 DEF Members
<1>4. ASSUME i # j PROVE Members(j)' = Members(j)
  BY <1>2, <1>4 DEF Members
<1> QED BY <1>1, <1>3, <1>4 DEF Members

\* No other step changes who is online to a handler that keeps count.
LEMMA OthersKeep ==
  ASSUME EventsIInv, NEW j \in {3, 4}, NEW c \in Conns,
         \/ Upgrade(c) \/ UpgradeFails(c) \/ Connected(c) \/ Disconnected(c)
         \/ Receive(c) \/ LoopEnds(c) \/ LimitAllows(c) \/ LimitExceeded(c)
         \/ HandleMessage(c) \/ PassOn(c) \/ CountMessage(c) \/ Handled(c)
  PROVE  Members(j)' = Members(j)
<1> SUFFICES \A d \in Conns : On(d, j)' <=> On(d, j)
  BY DEF Members
<1> USE DEF EventsIInv, On
<1>0. \A d \in Conns : pos[d] \in 1..6
  BY DEF Typed
<1>1. CASE Upgrade(c)
  BY <1>0, <1>1 DEF Typed, Upgrade, Begin
<1>7. CASE Receive(c)
  BY <1>0, <1>7 DEF Typed, Receive, Begin
<1>8. CASE LoopEnds(c)
  BY <1>0, <1>8 DEF Typed, LoopEnds, Begin
<1>2. CASE UpgradeFails(c)
  BY <1>0, <1>2 DEF Typed, UpgradeFails, chain
<1>3. CASE Connected(c) \/ Disconnected(c)
  <2>1. pos[c] = 6
    BY <1>0, <1>3, Places DEF Connected, Disconnected
  <2> QED BY <1>0, <1>3, <2>1 DEF Typed, ConnectShape, Connected, Disconnected, chain
<1>4. CASE LimitAllows(c) \/ HandleMessage(c) \/ PassOn(c) \/ CountMessage(c)
  BY <1>0, <1>4 DEF Typed, LimitAllows, HandleMessage, PassOn, CountMessage, Handling, Append1
<1>5. CASE LimitExceeded(c)
  BY <1>0, <1>5 DEF Typed, LimitExceeded, Interrupt, Handling
<1>6. CASE Handled(c)
  BY <1>0, <1>6 DEF Typed, Handled, Begin
<1> QED BY <1>1, <1>2, <1>3, <1>4, <1>5, <1>6, <1>7, <1>8

\* A handler called in OnConnect or OnDisconnect is the one at pos.
LEMMA CallsOf ==
  ASSUME EventsIInv, NEW c \in Conns, NEW e \in {"OnConnect", "OnDisconnect"}
  PROVE  /\ SendUserActionEvent(c, e) => Calls(c, e, 3)
         /\ OnlineUser(c, e) => Calls(c, e, 4)
         /\ OtherHandler(c, e) => Calls(c, e, 1) \/ Calls(c, e, 2) \/ Calls(c, e, 5)
<1> USE DEF EventsIInv
<1>1. ASSUME SendUserActionEvent(c, e) PROVE Calls(c, e, 3)
  BY <1>1, Places DEF SendUserActionEvent, Append1, Calls, SendError
<1>2. ASSUME OnlineUser(c, e) PROVE Calls(c, e, 4)
  BY <1>2, Places DEF OnlineUser, Append1, Calls
<1>3. ASSUME OtherHandler(c, e) PROVE Calls(c, e, 1) \/ Calls(c, e, 2) \/ Calls(c, e, 5)
  BY <1>3, Places DEF OtherHandler, Append1, Calls
<1> QED BY <1>1, <1>2, <1>3

-----------------------------------------------------------------------------
(* The gauge of online users.                                              *)

\* The connections of node n that the gauge is to count.
At(n) == {d \in Members(4) : NodeOf[d] = n}

Gauge == \A n \in Nodes : counter[n] = Cardinality(At(n))

\* There are finitely many of them.
LEMMA AtFinite ==
  ASSUME NEW n \in Nodes
  PROVE  IsFiniteSet(At(n)) /\ Cardinality(At(n)) \in Nat
<1>1. At(n) \in SUBSET Conns
  BY DEF At, Members
<1>2. IsFiniteSet(At(n))
  BY <1>1, FS_Subset, LinkEventsAssumption DEF LinkEventsAssumption
<1> QED BY <1>2, FS_CardinalityType

\* The gauge goes up with the connections of its node.
LEMMA GaugeUp ==
  ASSUME EventsIInv, Gauge, NEW c \in Conns, OnlineUser(c, "OnConnect")
  PROVE  Gauge'
<1>1. NodeOf[c] \in Nodes
  BY LinkEventsAssumption DEF LinkEventsAssumption
<1>2. c \notin Members(4) /\ Members(4)' = Members(4) \union {c}
  BY CallsOf, ConnectAdds DEF EventsIInv
<1>3. c \notin At(NodeOf[c]) /\ At(NodeOf[c])' = At(NodeOf[c]) \union {c}
  BY <1>2 DEF At
<1>4. \A n \in Nodes : n # NodeOf[c] => At(n)' = At(n)
  BY <1>2 DEF At
<1>5. counter' = [counter EXCEPT ![NodeOf[c]] = counter[NodeOf[c]] + 1]
  BY DEF OnlineUser
<1>6. counter'[NodeOf[c]] = Cardinality(At(NodeOf[c])')
  <2>1. Cardinality(At(NodeOf[c])') = Cardinality(At(NodeOf[c])) + 1
    BY <1>1, <1>3, AtFinite, FS_AddElement
  <2> QED BY <1>1, <1>5, <2>1 DEF Gauge, EventsIInv, Typed
<1>7. \A n \in Nodes : n # NodeOf[c] => counter'[n] = Cardinality(At(n)')
  BY <1>4, <1>5 DEF Gauge, EventsIInv, Typed
<1>8. \A n \in Nodes : counter'[n] = Cardinality(At(n)')
  BY <1>6, <1>7
<1> QED BY <1>8 DEF Gauge

\* It goes down with them.
LEMMA GaugeDown ==
  ASSUME EventsIInv, Gauge, NEW c \in Conns, OnlineUser(c, "OnDisconnect")
  PROVE  Gauge'
<1>1. NodeOf[c] \in Nodes
  BY LinkEventsAssumption DEF LinkEventsAssumption
<1>2. c \in Members(4) /\ Members(4)' = Members(4) \ {c}
  BY CallsOf, DisconnectRemoves DEF EventsIInv
<1>3. c \in At(NodeOf[c]) /\ At(NodeOf[c])' = At(NodeOf[c]) \ {c}
  BY <1>2 DEF At
<1>4. \A n \in Nodes : n # NodeOf[c] => At(n)' = At(n)
  BY <1>2 DEF At
<1>5. counter' = [counter EXCEPT ![NodeOf[c]] = counter[NodeOf[c]] - 1]
  BY DEF OnlineUser
<1>6. counter'[NodeOf[c]] = Cardinality(At(NodeOf[c])')
  <2>1. Cardinality(At(NodeOf[c])') = Cardinality(At(NodeOf[c])) - 1
    BY <1>1, <1>3, AtFinite, FS_RemoveElement
  <2> QED BY <1>1, <1>5, <2>1 DEF Gauge, EventsIInv, Typed
<1>7. \A n \in Nodes : n # NodeOf[c] => counter'[n] = Cardinality(At(n)')
  BY <1>4, <1>5 DEF Gauge, EventsIInv, Typed
<1>8. \A n \in Nodes : counter'[n] = Cardinality(At(n)')
  BY <1>6, <1>7
<1> QED BY <1>8 DEF Gauge

\* What leaves the connections online to the gauge and the gauge alone.
LEMMA GaugeKept ==
  ASSUME Gauge, Members(4)' = Members(4), UNCHANGED counter
  PROVE  Gauge'
<1>1. \A n \in Nodes : At(n)' = At(n)
  BY DEF At
<1> QED BY <1>1 DEF Gauge

\* Every step keeps the gauge exact.
LEMMA GaugeNext == EventsIInv /\ Gauge /\ [Next]_vars => Gauge'
<1> SUFFICES ASSUME EventsIInv, Gauge, [Next]_vars PROVE Gauge'
  OBVIOUS
<1>1. ASSUME NEW c \in Conns, HandleConn(c) PROVE Gauge'
  <2>1. ASSUME NEW e \in {"OnConnect", "OnDisconnect"},
               SendUserActionEvent(c, e) \/ OtherHandler(c, e)
        PROVE  Gauge'
    <3>1. PICK i \in {1, 2, 3, 5} : Calls(c, e, i)
      BY <2>1, CallsOf
    <3>2. Members(4)' = Members(4)
      BY <3>1, ConnectAdds, DisconnectRemoves DEF EventsIInv
    <3> QED BY <2>1, <3>2, GaugeKept DEF SendUserActionEvent, OtherHandler
  <2>2. ASSUME NEW e \in {"OnConnect", "OnDisconnect"}, OnlineUser(c, e) PROVE Gauge'
    BY <2>2, GaugeUp, GaugeDown
  <2>3. CASE \/ Upgrade(c) \/ UpgradeFails(c) \/ Connected(c) \/ Disconnected(c)
             \/ Receive(c) \/ LoopEnds(c) \/ LimitAllows(c) \/ LimitExceeded(c)
             \/ HandleMessage(c) \/ PassOn(c) \/ CountMessage(c) \/ Handled(c)
    <3>1. Members(4)' = Members(4)
      BY <2>3, OthersKeep
    <3>2. UNCHANGED counter
      BY <2>3 DEF Upgrade, UpgradeFails, Connected, Disconnected, Receive, LoopEnds,
                  LimitAllows, LimitExceeded, HandleMessage, PassOn, CountMessage, Handled
    <3> QED BY <3>1, <3>2, GaugeKept
  <2> QED BY <1>1, <2>1, <2>2, <2>3 DEF HandleConn
<1>2. CASE (\E n \in Nodes : Refill(n)) \/ UNCHANGED vars
  <2>1. UNCHANGED <<st, pos, counter>>
    BY <1>2 DEF Refill, vars, chain
  <2>2. Members(4)' = Members(4)
    BY <2>1 DEF Members, On
  <2> QED BY <2>1, <2>2, GaugeKept
<1> QED BY <1>1, <1>2 DEF Next

\* OnlineUserHandler: the gauge of every node is the number of the node's
\* connections that are online to it, for every way out of handleConn and
\* whatever the other handlers of the list meet with.
THEOREM EventsGauge == Spec => []GaugeCountsConnections
<1>1. Init => Gauge
  <2> SUFFICES ASSUME Init, NEW n \in Nodes PROVE counter[n] = Cardinality(At(n))
    BY DEF Gauge
  <2>1. At(n) = {}
    BY DEF Init, At, Members, On
  <2> QED BY <2>1, FS_EmptySet DEF Init
<1>2. EventsIInv /\ Gauge => GaugeCountsConnections
  BY OnlineIs DEF EventsIInv, Gauge, At, GaugeCountsConnections, OnlineAt
<1> QED BY <1>1, <1>2, GaugeNext, EventsInvariant, PTL DEF Spec
-----------------------------------------------------------------------------
(* The events of the topic.                                                *)

Balance == ~lost => Sum("ONLINE") - Sum("OFFLINE") = Cardinality(Members(3))

\* Every kind of event is on the topic a finite number of times.
LEMMA SumType ==
  ASSUME Typed, NEW a
  PROVE  /\ IsFiniteSet({i \in DOMAIN topic : topic[i] = a})
         /\ Sum(a) \in Nat
<1>1. DOMAIN topic = 1..Len(topic) /\ Len(topic) \in Nat
  BY DEF Typed
<1>2. IsFiniteSet(DOMAIN topic)
  BY <1>1, FS_Interval
<1>3. {i \in DOMAIN topic : topic[i] = a} \in SUBSET (DOMAIN topic)
  OBVIOUS
<1>4. IsFiniteSet({i \in DOMAIN topic : topic[i] = a})
  BY <1>2, <1>3, FS_Subset
<1> QED BY <1>4, FS_CardinalityType DEF Sum

\* A produced event counts once, among its own kind.
LEMMA SumAppend ==
  ASSUME Typed, NEW a \in {"ONLINE", "OFFLINE"}, NEW b, topic' = Append(topic, a)
  PROVE  Sum(b)' = IF a = b THEN Sum(b) + 1 ELSE Sum(b)
<1> DEFINE S == {i \in DOMAIN topic : topic[i] = b}
           n == Len(topic) + 1
<1>1. topic \in Seq({"ONLINE", "OFFLINE"}) /\ Len(topic) \in Nat
  BY DEF Typed
<1>2. /\ DOMAIN topic = 1..Len(topic) /\ DOMAIN topic' = 1..n
      /\ \A i \in 1..Len(topic) : topic'[i] = topic[i]
      /\ topic'[n] = a
  BY <1>1
<1>3. 1..n = 1..Len(topic) \union {n} /\ n \notin 1..Len(topic)
  BY <1>1
<1>4. IsFiniteSet(S) /\ Sum(b) = Cardinality(S)
  BY SumType DEF Sum
<1>5. Sum(b)' = Cardinality({i \in DOMAIN topic' : topic'[i] = b})
  BY DEF Sum
<1>6. CASE a = b
  <2>1. {i \in DOMAIN topic' : topic'[i] = b} = S \union {n} /\ n \notin S
    BY <1>2, <1>3, <1>6
  <2>2. Cardinality(S \union {n}) = Cardinality(S) + 1
    <3> HIDE DEF S, n
    <3> QED BY <1>4, <2>1, FS_AddElement
  <2>3. Sum(b)' = Cardinality(S \union {n})
    BY <1>5, <2>1
  <2> HIDE DEF S, n
  <2> QED BY <1>4, <1>6, <2>2, <2>3
<1>7. CASE a # b
  <2>1. {i \in DOMAIN topic' : topic'[i] = b} = S
    BY <1>2, <1>3, <1>7
  <2> QED BY <1>4, <1>5, <1>7, <2>1
<1> QED BY <1>6, <1>7

\* There are finitely many connections online to the producer.
LEMMA MembersFinite == IsFiniteSet(Members(3)) /\ Cardinality(Members(3)) \in Nat
<1>1. Members(3) \in SUBSET Conns
  BY DEF Members
<1>2. IsFiniteSet(Members(3))
  BY <1>1, FS_Subset, LinkEventsAssumption DEF LinkEventsAssumption
<1> QED BY <1>2, FS_CardinalityType

\* A call of the producer puts on the topic what it did to the connections
\* online, or loses it.
LEMMA BalanceCall ==
  ASSUME EventsIInv, Balance, NEW c \in Conns, NEW e \in {"OnConnect", "OnDisconnect"},
         SendUserActionEvent(c, e)
  PROVE  Balance'
<1>0. Typed /\ Calls(c, e, 3)
  BY CallsOf DEF EventsIInv
<1>1. CASE ProduceFails
  <2>1. lost'
    BY <1>1 DEF ProduceFails
  <2> QED BY <2>1 DEF Balance
<1>2. CASE Produced(ActionOf(e))
  <2>1. topic' = Append(topic, ActionOf(e)) /\ lost' = lost
    BY <1>2 DEF Produced
  <2>2. CASE e = "OnConnect"
    <3>1. ActionOf(e) = "ONLINE"
      BY <2>2 DEF ActionOf
    <3>2. Sum("ONLINE")' = Sum("ONLINE") + 1 /\ Sum("OFFLINE")' = Sum("OFFLINE")
      BY <1>0, <2>1, <3>1, SumAppend
    <3>3. c \notin Members(3) /\ Members(3)' = Members(3) \union {c}
      BY <1>0, <2>2, ConnectAdds
    <3>4. Cardinality(Members(3)') = Cardinality(Members(3)) + 1
      BY <3>3, MembersFinite, FS_AddElement
    <3>5. Sum("ONLINE") \in Nat /\ Sum("OFFLINE") \in Nat /\ Cardinality(Members(3)) \in Nat
      BY <1>0, SumType, MembersFinite
    <3>6. (Sum("ONLINE") - Sum("OFFLINE") = Cardinality(Members(3)))
            => (Sum("ONLINE")' - Sum("OFFLINE")' = Cardinality(Members(3)'))
      BY <3>2, <3>4, <3>5
    <3> QED BY <2>1, <3>6 DEF Balance
  <2>3. CASE e = "OnDisconnect"
    <3>1. ActionOf(e) = "OFFLINE"
      BY <2>3 DEF ActionOf
    <3>2. Sum("ONLINE")' = Sum("ONLINE") /\ Sum("OFFLINE")' = Sum("OFFLINE") + 1
      BY <1>0, <2>1, <3>1, SumAppend
    <3>3. c \in Members(3) /\ Members(3)' = Members(3) \ {c}
      BY <1>0, <2>3, DisconnectRemoves
    <3>4. Cardinality(Members(3)') = Cardinality(Members(3)) - 1
      BY <3>3, MembersFinite, FS_RemoveElement
    <3>5. Sum("ONLINE") \in Nat /\ Sum("OFFLINE") \in Nat /\ Cardinality(Members(3)) \in Nat
      BY <1>0, SumType, MembersFinite
    <3>6. (Sum("ONLINE") - Sum("OFFLINE") = Cardinality(Members(3)))
            => (Sum("ONLINE")' - Sum("OFFLINE")' = Cardinality(Members(3)'))
      BY <3>2, <3>4, <3>5
    <3> QED BY <2>1, <3>6 DEF Balance
  <2> QED BY <2>2, <2>3
<1> QED BY <1>1, <1>2 DEF SendUserActionEvent

\* What leaves the connections online to the producer and the topic alone.
LEMMA BalanceKept ==
  ASSUME Balance, Members(3)' = Members(3), UNCHANGED <<topic, lost>>
  PROVE  Balance'
<1>1. Sum("ONLINE")' = Sum("ONLINE") /\ Sum("OFFLINE")' = Sum("OFFLINE") /\ lost' = lost
  BY DEF Sum
<1> QED BY <1>1 DEF Balance

\* Every step keeps the events in balance.
LEMMA BalanceNext == EventsIInv /\ Balance /\ [Next]_vars => Balance'
<1> SUFFICES ASSUME EventsIInv, Balance, [Next]_vars PROVE Balance'
  OBVIOUS
<1>1. ASSUME NEW c \in Conns, HandleConn(c) PROVE Balance'
  <2>1. ASSUME NEW e \in {"OnConnect", "OnDisconnect"}, OnlineUser(c, e) \/ OtherHandler(c, e)
        PROVE  Balance'
    <3>1. PICK i \in {1, 2, 4, 5} : Calls(c, e, i)
      BY <2>1, CallsOf
    <3>2. Members(3)' = Members(3)
      BY <3>1, ConnectAdds, DisconnectRemoves DEF EventsIInv
    <3> QED BY <2>1, <3>2, BalanceKept DEF OnlineUser, OtherHandler
  <2>2. ASSUME NEW e \in {"OnConnect", "OnDisconnect"}, SendUserActionEvent(c, e) PROVE Balance'
    BY <2>2, BalanceCall
  <2>3. CASE \/ Upgrade(c) \/ UpgradeFails(c) \/ Connected(c) \/ Disconnected(c)
             \/ Receive(c) \/ LoopEnds(c) \/ LimitAllows(c) \/ LimitExceeded(c)
             \/ HandleMessage(c) \/ PassOn(c) \/ CountMessage(c) \/ Handled(c)
    <3>1. Members(3)' = Members(3)
      BY <2>3, OthersKeep
    <3>2. UNCHANGED <<topic, lost>>
      BY <2>3 DEF Upgrade, UpgradeFails, Connected, Disconnected, Receive, LoopEnds,
                  LimitAllows, LimitExceeded, HandleMessage, PassOn, CountMessage, Handled
    <3> QED BY <3>1, <3>2, BalanceKept
  <2> QED BY <1>1, <2>1, <2>2, <2>3 DEF HandleConn
<1>2. CASE (\E n \in Nodes : Refill(n)) \/ UNCHANGED vars
  <2>1. UNCHANGED <<st, pos, topic, lost>>
    BY <1>2 DEF Refill, vars, chain
  <2>2. Members(3)' = Members(3)
    BY <2>1 DEF Members, On
  <2> QED BY <2>1, <2>2, BalanceKept
<1> QED BY <1>1, <1>2 DEF Next

\* UserActionHandler: as long as no event is lost, the ONLINE events exceed
\* the OFFLINE ones by the connections that are online to it, however the
\* connections of the user overlap.
THEOREM EventsAddUp == Spec => []EventsBalance
<1>1. Init => Balance
  <2> SUFFICES ASSUME Init PROVE Sum("ONLINE") - Sum("OFFLINE") = Cardinality(Members(3))
    BY DEF Balance
  <2>1. Members(3) = {} /\ \A a : {i \in DOMAIN topic : topic[i] = a} = {}
    BY DEF Init, Members, On
  <2> QED BY <2>1, FS_EmptySet DEF Sum
<1>2. EventsIInv /\ Balance => EventsBalance
  BY OnlineIs DEF EventsIInv, Balance, EventsBalance
<1> QED BY <1>1, <1>2, BalanceNext, EventsInvariant, PTL DEF Spec
-----------------------------------------------------------------------------
(* The messages.                                                           *)

\* The message that connection c is handling has not left the i-th handler.
Here(c, i) ==
    IF kind[c] = "message" /\ st[c] = "OnFrontendSendMessage" /\ pos[c] <= i THEN 1 ELSE 0

Once(c) ==
    /\ arrived[c] = limited[c] + seen[c] + Here(c, 2)
    /\ counted[c] = arrived[c] - limited[c] - Here(c, 5)

\* The property in terms of the handlers' places.
LEMMA OnceIs ==
  ASSUME Typed
  PROVE  EachMessageOnce <=> \A c \in Conns : Once(c)
<1>1. \A c \in Conns : pos[c] \in 1..6
  BY DEF Typed
<1>2. \A c \in Conns : After(c, "handler") <=> pos[c] > 2
  BY Places
<1>3. \A c \in Conns : After(c, "prometheus") <=> pos[c] > 5
  BY Places
<1>4. \A c \in Conns : /\ ~After(c, "handler") <=> pos[c] <= 2
                       /\ ~After(c, "prometheus") <=> pos[c] <= 5
  BY <1>1, <1>2, <1>3
<1> QED BY <1>4 DEF EachMessageOnce, Once, Here

\* What a step does to the message of its connection; the other connections'
\* messages it leaves alone.
Rest(c) ==
    \A d \in Conns \ {c} :
        /\ kind'[d] = kind[d] /\ st'[d] = st[d] /\ pos'[d] = pos[d]
        /\ arrived'[d] = arrived[d] /\ limited'[d] = limited[d]
        /\ seen'[d] = seen[d] /\ counted'[d] = counted[d]

\* Every step of a connection leaves the others alone.
LEMMA RestOf ==
  ASSUME Typed, NEW c \in Conns, HandleConn(c)
  PROVE  Rest(c)
<1> USE DEF Typed, chain, metrics
<1>1. CASE Upgrade(c)
  BY <1>1 DEF Rest, Upgrade, Begin
<1>2. CASE UpgradeFails(c) \/ Connected(c) \/ Disconnected(c)
  BY <1>2 DEF Rest, UpgradeFails, Connected, Disconnected
<1>3. ASSUME NEW e \in {"OnConnect", "OnDisconnect"},
             SendUserActionEvent(c, e) \/ OnlineUser(c, e) \/ OtherHandler(c, e)
      PROVE  Rest(c)
  <2>1. Append1(c, "nil") /\ UNCHANGED <<st, kind, metrics>>
    BY <1>3 DEF SendUserActionEvent, OnlineUser, OtherHandler, SendError
  <2> QED BY <2>1 DEF Rest, Append1
<1>4. CASE Receive(c)
  BY <1>4 DEF Rest, Receive, Begin
<1>5. CASE LoopEnds(c)
  BY <1>5 DEF Rest, LoopEnds, Begin
<1>6. CASE LimitAllows(c) \/ PassOn(c)
  BY <1>6 DEF Rest, LimitAllows, PassOn, Append1
<1>7. CASE LimitExceeded(c)
  BY <1>7 DEF Rest, LimitExceeded, Interrupt
<1>8. CASE HandleMessage(c)
  BY <1>8 DEF Rest, HandleMessage, Append1
<1>9. CASE CountMessage(c)
  BY <1>9 DEF Rest, CountMessage, Append1
<1>10. CASE Handled(c)
  BY <1>10 DEF Rest, Handled, Begin
<1> QED BY <1>1, <1>2, <1>3, <1>4, <1>5, <1>6, <1>7, <1>8, <1>9, <1>10 DEF HandleConn

\* Every step keeps the counts of its own connection.
LEMMA OnceOf ==
  ASSUME Typed, NEW c \in Conns, Once(c), HandleConn(c)
  PROVE  Once(c)'
<1> USE DEF Typed, chain, metrics, Once, Here
<1>0. /\ pos[c] \in 1..6 /\ arrived[c] \in Int /\ limited[c] \in Int
      /\ seen[c] \in Int /\ counted[c] \in Int
  OBVIOUS
<1>1. CASE Upgrade(c)
  BY <1>0, <1>1 DEF Upgrade, Begin
<1>2. CASE UpgradeFails(c) \/ Connected(c) \/ Disconnected(c)
  BY <1>0, <1>2 DEF UpgradeFails, Connected, Disconnected
<1>3. ASSUME NEW e \in {"OnConnect", "OnDisconnect"},
             SendUserActionEvent(c, e) \/ OnlineUser(c, e) \/ OtherHandler(c, e)
      PROVE  Once(c)'
  <2>1. st[c] = e /\ UNCHANGED <<st, kind, metrics>>
    BY <1>3 DEF SendUserActionEvent, OnlineUser, OtherHandler
  <2> QED BY <1>0, <2>1
<1>4. CASE Receive(c)
  <2>1. PICK k \in Kinds :
          /\ kind' = [kind EXCEPT ![c] = k]
          /\ arrived' = [arrived EXCEPT ![c] = IF k = "message" THEN arrived[c] + 1 ELSE arrived[c]]
    BY <1>4 DEF Receive
  <2>2. /\ st'[c] = "OnFrontendSendMessage" /\ pos'[c] = 1 /\ st[c] = "loop"
        /\ UNCHANGED <<limited, seen, counted>>
    BY <1>4 DEF Receive, Begin
  <2>3. CASE k = "message"
    BY <1>0, <2>1, <2>2, <2>3
  <2>4. CASE k # "message"
    BY <1>0, <2>1, <2>2, <2>4
  <2> QED BY <2>3, <2>4
<1>5. CASE LoopEnds(c)
  BY <1>0, <1>5 DEF LoopEnds, Begin
<1>6. CASE LimitAllows(c) \/ PassOn(c)
  <2>1. pos[c] \in {1, 3, 4}
    BY <1>6, Places DEF LimitAllows, PassOn, Handling
  <2>2. pos'[c] = pos[c] + 1 /\ UNCHANGED <<st, kind, metrics>>
    BY <1>6 DEF LimitAllows, PassOn, Append1
  <2> QED BY SMTT(40), <1>0, <2>1, <2>2
<1>7. CASE LimitExceeded(c)
  <2>1. pos[c] = 1 /\ st[c] = "OnFrontendSendMessage" /\ kind[c] = "message"
    BY <1>7, Places DEF LimitExceeded, Handling, Limits
  <2>2. /\ limited'[c] = limited[c] + 1 /\ st'[c] = "loop"
        /\ UNCHANGED <<kind, arrived, seen, counted>>
    BY <1>7 DEF LimitExceeded, Interrupt
  <2> QED BY <1>0, <2>1, <2>2
<1>8. CASE HandleMessage(c)
  <2>1. pos[c] = 2 /\ st[c] = "OnFrontendSendMessage"
    BY <1>8, Places DEF HandleMessage, Handling
  <2>2. /\ pos'[c] = pos[c] + 1 /\ UNCHANGED <<st, kind, arrived, limited, counted>>
        /\ seen'[c] = IF kind[c] = "message" THEN seen[c] + 1 ELSE seen[c]
    BY <1>8 DEF HandleMessage, Append1
  <2> QED BY <1>0, <2>1, <2>2
<1>9. CASE CountMessage(c)
  <2>1. pos[c] = 5 /\ st[c] = "OnFrontendSendMessage"
    BY <1>9, Places DEF CountMessage, Handling
  <2>2. /\ pos'[c] = pos[c] + 1 /\ UNCHANGED <<st, kind, arrived, limited, seen>>
        /\ counted'[c] = IF kind[c] = "message" THEN counted[c] + 1 ELSE counted[c]
    BY <1>9 DEF CountMessage, Append1
  <2> QED BY <1>0, <2>1, <2>2
<1>10. CASE Handled(c)
  <2>1. pos[c] = 6
    BY <1>0, <1>10, Places DEF Handled
  <2>2. st'[c] \in {"OnDisconnect", "loop"} /\ UNCHANGED <<kind, metrics>>
    BY <1>10 DEF Handled, Begin
  <2> QED BY <1>0, <2>1, <2>2
<1> QED BY <1>1, <1>2, <1>3, <1>4, <1>5, <1>6, <1>7, <1>8, <1>9, <1>10 DEF HandleConn

\* LinkEventHandlerWrapper.OnFrontendSendMessage: every message is either
\* refused by the rate limiter, or handled once and counted once, also when
\* the message handler fails on it.
THEOREM EventsEachMessageOnce == Spec => []EachMessageOnce
<1> DEFINE All == \A c \in Conns : Once(c)
<1>1. Init => All
  BY DEF Init, Once, Here
<1>2. EventsIInv /\ All /\ [Next]_vars => All'
  <2> SUFFICES ASSUME EventsIInv, All, [Next]_vars, NEW d \in Conns PROVE Once(d)'
    OBVIOUS
  <2>1. ASSUME NEW c \in Conns, HandleConn(c) PROVE Once(d)'
    <3>1. CASE d = c
      BY <2>1, <3>1, OnceOf DEF EventsIInv
    <3>2. CASE d # c
      <4>1. Rest(c)
        BY <2>1, RestOf DEF EventsIInv
      <4> QED BY <3>2, <4>1 DEF Rest, Once, Here
    <3> QED BY <3>1, <3>2
  <2>2. CASE (\E n \in Nodes : Refill(n)) \/ UNCHANGED vars
    <3>1. UNCHANGED <<st, pos, kind, arrived, limited, seen, counted>>
      BY <2>2 DEF Refill, vars, chain, metrics
    <3> QED BY <3>1 DEF Once, Here
  <2> QED BY <2>1, <2>2 DEF Next
<1>3. EventsIInv /\ All => EachMessageOnce
  BY OnceIs DEF EventsIInv
<1> HIDE DEF All
<1> QED BY <1>1, <1>2, <1>3, EventsInvariant, PTL DEF Spec
=============================================================================
