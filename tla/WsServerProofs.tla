--------------------------- MODULE WsServerProofs ---------------------------
(***************************************************************************)
(* The limiter is correct for every configuration NewTokenLimiter accepts  *)
(* and every finite set of callers; and the server on top of it, for any   *)
(* finite sets of connections and users, any assignment of one to the      *)
(* other and any configuration: it keeps the limiter's contract, every     *)
(* token in use has its owner, the map holds no link that its handler has  *)
(* given up, and `len` never undercounts the map.  Last, the record of the *)
(* server's node in the registry: it stays on its own lease and does not   *)
(* come back once the lease was revoked.                                   *)
(***************************************************************************)
EXTENDS WsServer, NodeRegistry, FiniteSetTheorems, TLAPS

-----------------------------------------------------------------------------
(* The limiter by itself: LimSpec is its contract.                         *)

\* During a tick the pushes left are what separates the tokens issued so far
\* from the capacity the tick is going to publish.
RampShape ==
    /\ ramp = "add" => /\ currentCapacity <= newCapacity
                       /\ toAdd <= newCapacity - currentCapacity
    /\ ramp # "add" => toAdd = 0

LimIInv == LimTypeOK /\ RampShape /\ TokensConserved

\* A subset of the callers has a cardinality, and adding or removing one
\* member changes it by one.
LEMMA HeldCardinality ==
    ASSUME NEW S \in SUBSET Clients
    PROVE  /\ Cardinality(S) \in Nat
           /\ S = {} <=> Cardinality(S) = 0
           /\ \A c : c \notin S => Cardinality(S \union {c}) = Cardinality(S) + 1
           /\ \A c : c \in S => Cardinality(S \ {c}) = Cardinality(S) - 1
<1>1. IsFiniteSet(S)
  BY ClientsAssumption, FS_Subset
<1>2. Cardinality(S) \in Nat
  BY <1>1, FS_CardinalityType
<1>3. S = {} <=> Cardinality(S) = 0
  BY <1>1, FS_EmptySet
<1>4. \A c : c \notin S => Cardinality(S \union {c}) = Cardinality(S) + 1
  BY <1>1, FS_AddElement
<1>5. \A c : c \in S => Cardinality(S \ {c}) = Cardinality(S) - 1
  BY <1>1, FS_RemoveElement
<1> QED BY <1>2, <1>3, <1>4, <1>5

\* The new limiter satisfies the inductive invariant.
LEMMA LimInitIInv == LimInit => LimIInv
<1> SUFFICES ASSUME LimInit PROVE LimIInv
  OBVIOUS
<1>1. LimTypeOK
  BY ConfigAssumption DEF LimInit, LimTypeOK
<1>2. RampShape
  BY DEF LimInit, RampShape
<1>3. TokensConserved
  BY HeldCardinality, ConfigAssumption DEF LimInit, TokensConserved, Issued
<1> QED BY <1>1, <1>2, <1>3 DEF LimIInv

\* Every operation of the limiter, and every step of the ramp-up goroutine,
\* preserves the inductive invariant.
LEMMA LimNextIInv == LimIInv /\ [LimNext]_limVars => LimIInv'
<1> SUFFICES ASSUME LimIInv, [LimNext]_limVars PROVE LimIInv'
  OBVIOUS
<1> USE ConfigAssumption DEF LimIInv, LimTypeOK, RampShape, TokensConserved, Issued
<1>1. ASSUME NEW c \in Clients, Acquire(c) PROVE LimIInv'
  <2>1. Cardinality(held \union {c}) = Cardinality(held) + 1 /\ Cardinality(held) \in Nat
    BY <1>1, HeldCardinality DEF Acquire
  <2> QED BY <1>1, <2>1 DEF Acquire, rampVars
<1>2. ASSUME NEW c \in Clients, Release(c) PROVE LimIInv'
  <2>1. Cardinality(held \ {c}) = Cardinality(held) - 1 /\ Cardinality(held) \in Nat
    BY <1>2, HeldCardinality DEF Release
  <2>2. Cardinality(held \ {c}) \in Nat
    BY HeldCardinality
  <2>3. tokens < MaxCapacity
    BY <2>1, <2>2
  <2> QED BY <1>2, <2>1, <2>3 DEF Release, rampVars
<1>3. CASE RampStopped
  BY <1>3 DEF RampStopped
<1>4. CASE RampFull
  BY <1>4 DEF RampFull, RampComplete
<1>5. CASE RampTick
  BY <1>5 DEF RampTick, RampComplete, Clamp, AddedTokens
<1>6. CASE RampPush
  BY <1>6, HeldCardinality DEF RampPush
<1>7. CASE RampStore
  BY <1>7 DEF RampStore
<1>8. CASE Close
  BY <1>8 DEF Close, rampVars
<1>9. CASE CancelExternal
  BY <1>9 DEF CancelExternal, rampVars
<1>10. CASE UNCHANGED limVars
  BY <1>10 DEF limVars
<1> QED
  BY <1>1, <1>2, <1>3, <1>4, <1>5, <1>6, <1>7, <1>8, <1>9, <1>10 DEF LimNext, RampUp

\* The limiter's invariant holds of every behaviour of its contract.
LEMMA LimIInvAlways == LimSpec => []LimIInv
<1> QED BY LimInitIInv, LimNextIInv, PTL DEF LimSpec

\* Every variable of the limiter keeps its type; in particular the channel
\* never holds more than MaxCapacity tokens.
THEOREM LimTypeCorrect == LimSpec => []LimTypeOK
<1>1. LimIInv => LimTypeOK
  BY DEF LimIInv
<1> QED BY <1>1, LimIInvAlways, PTL

\* No interleaving of Acquire, Release and StartRampUp loses or invents a token.
THEOREM LimConservation == LimSpec => []TokensConserved
<1>1. LimIInv => TokensConserved
  BY DEF LimIInv
<1> QED BY <1>1, LimIInvAlways, PTL

\* The default branch of Release, which drops a token, is unreachable, and
\* StartRampUp never blocks on a full channel.
THEOREM LimRoomForTokens == LimSpec => []RoomForTokens
<1>1. LimIInv => RoomForTokens
  BY HeldCardinality, ConfigAssumption
  DEF LimIInv, LimTypeOK, RampShape, TokensConserved, Issued, RoomForTokens
<1> QED BY <1>1, LimIInvAlways, PTL

\* The published capacity grows only, by at most one step at a time.
THEOREM LimCapacityMonotone == LimSpec => CapacityMonotone
<1> DEFINE TickShape == ramp = "add" => newCapacity <= currentCapacity + IncreaseStep
<1>1. LimInit => TickShape
  BY DEF LimInit
<1>2. LimIInv /\ TickShape /\ [LimNext]_limVars => TickShape'
  BY ConfigAssumption
  DEF LimIInv, LimTypeOK, LimNext, limVars, rampVars, RampUp, Acquire, Release, Close,
      CancelExternal, RampStopped, RampFull, RampTick, RampComplete, Clamp,
      AddedTokens, RampPush, RampStore
<1>3. LimIInv /\ TickShape /\ [LimNext]_limVars
        => [/\ currentCapacity' >= currentCapacity
            /\ currentCapacity' <= currentCapacity + IncreaseStep]_currentCapacity
  BY ConfigAssumption
  DEF LimIInv, LimTypeOK, RampShape, LimNext, limVars, rampVars, RampUp, Acquire, Release,
      Close, CancelExternal, RampStopped, RampFull, RampTick, RampComplete, Clamp,
      AddedTokens, RampPush, RampStore
<1> QED BY <1>1, <1>2, <1>3, LimIInvAlways, PTL DEF LimSpec, CapacityMonotone

\* The limiter implements the abstract pool: Acquire admits, Release lets
\* leave, one push of the ramp-up grows the pool by one, all else stutters.
THEOREM LimImplementsPool == LimSpec => PoolSpec
<1>1. LimInit => Pool!Init
  BY DEF LimInit, Pool!Init, Issued
<1>2. LimIInv /\ [LimNext]_limVars => [Pool!Next]_<<held, Issued>>
  <2> SUFFICES ASSUME LimIInv, [LimNext]_limVars PROVE [Pool!Next]_<<held, Issued>>
    OBVIOUS
  <2> USE ConfigAssumption DEF LimIInv, LimTypeOK, RampShape, TokensConserved, Issued
  <2>1. ASSUME NEW c \in Clients, Acquire(c) PROVE Pool!Admit(c)
    <3>1. Cardinality(held) \in Nat
      BY HeldCardinality
    <3>2. Pool!Cardinality(held) = Cardinality(held)
      BY DEF Pool!Cardinality, Cardinality
    <3> QED BY <2>1, <3>1, <3>2 DEF Acquire, rampVars, Pool!Admit
  <2>2. ASSUME NEW c \in Clients, Release(c) PROVE Pool!Leave(c)
    BY <2>2 DEF Release, rampVars, Pool!Leave
  <2>3. CASE RampStopped
    BY <2>3 DEF RampStopped
  <2>4. CASE RampFull
    BY <2>4 DEF RampFull, RampComplete
  <2>5. CASE RampTick
    BY <2>5 DEF RampTick, RampComplete, Clamp, AddedTokens
  <2>6. CASE RampPush
    <3>1. Pool!Grow
      BY <2>6 DEF RampPush, Pool!Grow
    <3> QED BY <3>1 DEF Pool!Next
  <2>7. CASE RampStore
    BY <2>7 DEF RampStore
  <2>8. CASE Close \/ CancelExternal
    BY <2>8 DEF Close, CancelExternal, rampVars
  <2>9. CASE UNCHANGED limVars
    BY <2>9 DEF limVars
  <2> QED
    BY <2>1, <2>2, <2>3, <2>4, <2>5, <2>6, <2>7, <2>8, <2>9 DEF LimNext, RampUp, Pool!Next
<1> QED BY <1>1, <1>2, LimIInvAlways, PTL DEF LimSpec, PoolSpec, Pool!Spec

-----------------------------------------------------------------------------
(* The invariant of the server.                                            *)

USE DEF mgrVars, clVars, gsVars

\* The cleaner and Manager.Close remove the key of a link they have closed.
KeyShape ==
    /\ cl = "remove" => clKey \in Users
    /\ gs = "remove" => gsKey \in Users

SrvIInv == TypeOK /\ KeyShape /\ TokenOwners /\ NoStaleEntry

-----------------------------------------------------------------------------
(* The limiter inside the server.                                          *)

\* Every step of the server is a step of the limiter's contract, or leaves
\* the limiter alone.
LEMMA SrvStepContract == [Next]_vars => [LimNext]_limVars
<1> SUFFICES ASSUME [Next]_vars PROVE [LimNext]_limVars
  OBVIOUS
<1>1. CASE Acceptor
  BY <1>1 DEF Acceptor, AcceptCheck, AcceptBackoff, AcquireFails, AcceptAcquire, AcceptConn,
              AcceptError, GiveBack, LimNext
<1>2. ASSUME NEW c \in Conns, Upgrade(c) \/ Deferred(c) \/ ReceiveEnds(c) \/ LinkDies(c)
      PROVE  [LimNext]_limVars
  <2>1. c \in Clients
    BY ServerAssumption
  <2> QED BY <1>2, <2>1
          DEF Upgrade, Deferred, ReceiveEnds, LinkDies, NewLinkStore, NewLinkCount, OnConnect,
              LoopEnd, OnDisconnect, HandlerRemove, HandlerUncount, HandlerClose,
              HandlerRelease, LimNext
<1>3. CASE Cleaner
  BY <1>3 DEF Cleaner, CleanTick, CleanVisit, CleanRemove, CleanUncount, CleanDone
<1>4. CASE StopAccepting \/ GracefulStop \/ StopDeadline
  BY <1>4 DEF StopAccepting, GracefulStop, StopDeadline, StopListening, StopDeregister,
              GracefulCloseBegin, DrainTick, DrainTimeout, ForceBegin, ForceClose, ForceRemove,
              ForceUncount, ForceEnd, StopLimiter, StopCancel, LimNext
<1>5. CASE Ramp
  BY <1>5 DEF Ramp, LimNext
<1>6. CASE UNCHANGED vars
  BY <1>6 DEF vars
<1> QED BY <1>1, <1>2, <1>3, <1>4, <1>5, <1>6 DEF Next, Finished

\* The composition changes the limiter only by the limiter's own actions, so that
\* the limiter's theorems carry over to the server.
LEMMA SrvUsesLimiter == Spec => LimSpec
<1>1. Init => LimInit
  BY DEF Init
<1> QED BY <1>1, SrvStepContract, PTL DEF Spec, LimSpec

\* In the running server no token is lost or invented.
THEOREM SrvTokensConserved == Spec => []TokensConserved
BY SrvUsesLimiter, LimConservation, PTL

\* The running server implements the abstract pool: never more connections
\* than the capacity, which only grows.
THEOREM SrvImplementsPool == Spec => PoolSpec
BY SrvUsesLimiter, LimImplementsPool, PTL

-----------------------------------------------------------------------------
(* Owners of tokens and entries of the map.                                *)

\* At the start there is no connection.
LEMMA SrvInitIInv == Init => SrvIInv
<1> SUFFICES ASSUME Init PROVE SrvIInv
  OBVIOUS
<1>1. LimTypeOK
  BY LimInitIInv DEF Init, LimIInv
<1>2. TypeOK
  BY <1>1, ServerAssumption DEF Init, TypeOK
<1>3. KeyShape /\ NoStaleEntry
  BY DEF Init, KeyShape, NoStaleEntry
<1>4. TokenOwners
  BY DEF Init, LimInit, TokenOwners
<1> QED BY <1>2, <1>3, <1>4 DEF SrvIInv

\* acceptConn: the token of an Accept passes to the connection or goes back.
LEMMA AcceptorIInv == SrvIInv /\ LimTypeOK' /\ Acceptor => SrvIInv'
<1> SUFFICES ASSUME SrvIInv, LimTypeOK', Acceptor PROVE SrvIInv'
  OBVIOUS
<1> USE ServerAssumption DEF SrvIInv, TypeOK, KeyShape, TokenOwners, NoStaleEntry
<1>1. CASE AcceptCheck
  BY <1>1 DEF AcceptCheck, limVars
<1>2. CASE AcceptBackoff
  BY <1>2 DEF AcceptBackoff, AcquireFails, limVars
<1>3. ASSUME NEW c \in Clients, AcceptAcquire(c) PROVE SrvIInv'
  BY <1>3 DEF AcceptAcquire, Acquire, Move
<1>4. ASSUME NEW c \in Clients, AcceptConn(c) PROVE SrvIInv'
  BY <1>4 DEF AcceptConn, Move, limVars
<1>5. ASSUME NEW c \in Clients, AcceptError(c) PROVE SrvIInv'
  BY <1>5 DEF AcceptError, GiveBack, Release, Move
<1> QED BY <1>1, <1>2, <1>3, <1>4, <1>5 DEF Acceptor

\* handleConn: a handler leaves the states in which the map may name it only
\* by its RemoveLink, and releases its token once, at the end.
LEMMA HandlerIInv ==
    ASSUME SrvIInv, LimTypeOK', NEW c \in Conns,
           Upgrade(c) \/ Deferred(c) \/ ReceiveEnds(c) \/ LinkDies(c)
    PROVE  SrvIInv'
<1> USE ServerAssumption DEF SrvIInv, TypeOK, KeyShape, TokenOwners, NoStaleEntry, Move
<1>0. c \in Clients
  OBVIOUS
<1>1. CASE Upgrade(c)
  BY <1>0, <1>1 DEF Upgrade, limVars
<1>2. CASE NewLinkStore(c)
  BY <1>0, <1>2 DEF NewLinkStore, Stored, limVars
<1>3. CASE NewLinkCount(c)
  BY <1>0, <1>3 DEF NewLinkCount, limVars
<1>4. CASE OnConnect(c)
  BY <1>0, <1>4 DEF OnConnect, OnConnectFailed, limVars
<1>5. CASE LoopEnd(c)
  BY <1>0, <1>5 DEF LoopEnd, limVars
<1>6. CASE ReceiveEnds(c)
  BY <1>0, <1>6 DEF ReceiveEnds, limVars
<1>7. CASE OnDisconnect(c)
  BY <1>0, <1>7 DEF OnDisconnect, limVars
<1>8. CASE HandlerRemove(c)
  BY <1>0, <1>8 DEF HandlerRemove, Removed, limVars
<1>9. CASE HandlerUncount(c)
  BY <1>0, <1>9 DEF HandlerUncount, limVars
<1>10. CASE HandlerClose(c)
  BY <1>0, <1>10 DEF HandlerClose, limVars
<1>11. CASE HandlerRelease(c)
  BY <1>0, <1>11 DEF HandlerRelease, Release
<1>12. CASE LinkDies(c)
  BY <1>12 DEF LinkDies, limVars
<1> QED BY <1>1, <1>2, <1>3, <1>4, <1>5, <1>6, <1>7, <1>8, <1>9, <1>10, <1>11, <1>12 DEF Deferred

\* cleanIdleLinks only closes links and takes entries out.
LEMMA CleanerIInv == SrvIInv /\ LimTypeOK' /\ Cleaner => SrvIInv'
<1> SUFFICES ASSUME SrvIInv, LimTypeOK', Cleaner PROVE SrvIInv'
  OBVIOUS
<1> USE ServerAssumption DEF SrvIInv, TypeOK, KeyShape, TokenOwners, NoStaleEntry, limVars
<1>1. CASE CleanTick
  BY <1>1 DEF CleanTick
<1>2. ASSUME NEW u \in Users, CleanVisit(u) PROVE SrvIInv'
  BY <1>2 DEF CleanVisit, IdleClosed
<1>3. CASE CleanRemove
  BY <1>3 DEF CleanRemove, Removed
<1>4. CASE CleanUncount
  BY <1>4 DEF CleanUncount
<1>5. CASE CleanDone
  BY <1>5 DEF CleanDone
<1> QED BY <1>1, <1>2, <1>3, <1>4, <1>5 DEF Cleaner

\* GracefulStop leaves the tokens to the handlers.
LEMMA StopIInv ==
    SrvIInv /\ LimTypeOK' /\ (StopAccepting \/ GracefulStop \/ StopDeadline) => SrvIInv'
<1> SUFFICES ASSUME SrvIInv, LimTypeOK', StopAccepting \/ GracefulStop \/ StopDeadline
             PROVE  SrvIInv'
  OBVIOUS
<1> USE ServerAssumption DEF SrvIInv, TypeOK, KeyShape, TokenOwners, NoStaleEntry
<1>1. CASE StopAccepting \/ StopListening \/ StopDeregister \/ DrainTick \/ DrainTimeout \/ ForceEnd
  BY <1>1 DEF StopAccepting, StopListening, StopDeregister, DrainTick, DrainTimeout, ForceEnd,
              StopMove, limVars
<1>2. CASE GracefulCloseBegin \/ ForceBegin \/ StopDeadline
  BY <1>2 DEF GracefulCloseBegin, ForceBegin, StopDeadline, limVars
<1>3. ASSUME NEW u \in Users, ForceClose(u) PROVE SrvIInv'
  BY <1>3 DEF ForceClose, limVars
<1>4. CASE ForceRemove
  BY <1>4 DEF ForceRemove, Removed, limVars
<1>5. CASE ForceUncount
  BY <1>5 DEF ForceUncount, limVars
<1>6. CASE StopLimiter
  BY <1>6 DEF StopLimiter, StopMove, Close
<1>7. CASE StopCancel
  BY <1>7 DEF StopCancel, CancelExternal
<1> QED BY <1>1, <1>2, <1>3, <1>4, <1>5, <1>6, <1>7 DEF GracefulStop

\* The ramp-up goroutine of the limiter knows neither connections nor links.
LEMMA RampIInv == SrvIInv /\ LimTypeOK' /\ Ramp => SrvIInv'
BY DEF SrvIInv, TypeOK, KeyShape, TokenOwners, NoStaleEntry, Ramp, RampUp, RampStopped,
       RampFull, RampTick, RampPush, RampStore, srvVars

\* Every step preserves the inductive invariant.
LEMMA SrvNextIInv == SrvIInv /\ LimTypeOK' /\ [Next]_vars => SrvIInv'
<1> SUFFICES ASSUME SrvIInv, LimTypeOK', [Next]_vars PROVE SrvIInv'
  OBVIOUS
<1>1. CASE UNCHANGED vars
  BY <1>1 DEF SrvIInv, TypeOK, KeyShape, TokenOwners, NoStaleEntry, vars, srvVars, limVars
<1> QED BY <1>1, AcceptorIInv, HandlerIInv, CleanerIInv, StopIInv, RampIInv DEF Next, Finished

\* It holds in every reachable state.
LEMMA SrvInvariant == Spec => []SrvIInv
<1>1. Spec => []LimTypeOK
  BY SrvUsesLimiter, LimTypeCorrect, PTL
<1> QED BY <1>1, SrvInitIInv, SrvNextIInv, PTL DEF Spec

\* Every token in use belongs to the pending Accept or to a handleConn that
\* has not returned: no error path leaks a token, none gives one back twice.
THEOREM SrvTokenOwners == Spec => []TokenOwners
<1>1. SrvIInv => TokenOwners
  BY DEF SrvIInv
<1> QED BY <1>1, SrvInvariant, PTL

\* The map of the link manager never keeps a link whose handler is past its
\* RemoveLink, however reconnects, cleaner and stop interleave.
THEOREM SrvNoStaleEntry == Spec => []NoStaleEntry
<1>1. SrvIInv => NoStaleEntry
  BY DEF SrvIInv
<1> QED BY <1>1, SrvInvariant, PTL

-----------------------------------------------------------------------------
(* The counter of the link manager.                                        *)

Uncounting == {c \in Conns : st[c] = "uncount"}
One(p) == IF p THEN 1 ELSE 0

\* Decrements of len that are still to come.
Removals == Cardinality(Uncounting) + One(cl = "uncount") + One(gs = "uncount")

\* No two connections of a user have got past Accept.
NoReconnect ==
    \A c, d \in Conns : (c # d /\ UserOf[c] = UserOf[d]) =>
        st[c] \in {"new", "slot"} \/ st[d] \in {"new", "slot"}

\* What len will be when every increment and decrement under way is made is
\* at least the number of entries, and exactly that without a reconnect: then
\* a store never replaces an entry.
LenShape ==
    /\ Cardinality(Entries) + Removals <= len + Pending(Conns)
    /\ NoReconnect => Cardinality(Entries) + Removals = len + Pending(Conns)

\* Subsets of users and connections have cardinalities, which change by one
\* when a member is added or removed.
LEMMA Counting ==
    ASSUME NEW S, S \subseteq Users \/ S \subseteq Conns
    PROVE  /\ Cardinality(S) \in Nat
           /\ S = {} <=> Cardinality(S) = 0
           /\ \A x : x \notin S => Cardinality(S \union {x}) = Cardinality(S) + 1
           /\ \A x : x \in S => Cardinality(S \ {x}) = Cardinality(S) - 1
<1>1. IsFiniteSet(S)
  <2>1. CASE S \subseteq Users
    BY <2>1, FS_Subset, ServerAssumption
  <2>2. CASE S \subseteq Conns
    <3>1. S \in SUBSET Clients
      BY <2>2, ServerAssumption
    <3> QED BY <3>1, FS_Subset, ClientsAssumption
  <2> QED BY <2>1, <2>2
<1>2. Cardinality(S) \in Nat
  BY <1>1, FS_CardinalityType
<1>3. S = {} <=> Cardinality(S) = 0
  BY <1>1, FS_EmptySet
<1>4. \A x : x \notin S => Cardinality(S \union {x}) = Cardinality(S) + 1
  BY <1>1, FS_AddElement
<1>5. \A x : x \in S => Cardinality(S \ {x}) = Cardinality(S) - 1
  BY <1>1, FS_RemoveElement
<1> QED BY <1>2, <1>3, <1>4, <1>5

Counted == {c \in Conns : st[c] = "count"}

\* The sets that LenShape counts, and their sizes.
LEMMA LenTypes ==
    /\ Cardinality(Entries) \in Nat /\ Cardinality(Uncounting) \in Nat
    /\ Pending(Conns) = Cardinality(Counted) /\ Cardinality(Counted) \in Nat
BY Counting DEF Entries, Uncounting, Counted, Pending

\* Nobody returns to the states before Accept, but for a failed Accept.
LEMMA ReconnectLasts ==
    ASSUME TypeOK, NEW c \in Clients, NEW s, st' = [st EXCEPT ![c] = s],
           st[c] \notin {"new", "slot"} => s \notin {"new", "slot"}, NoReconnect'
    PROVE  NoReconnect
BY ServerAssumption DEF TypeOK, NoReconnect

\* A step of a connection that neither adds nor removes.
LEMMA MoveLen ==
    ASSUME TypeOK, LenShape, NEW c \in Clients, NEW s, Move(c, s),
           st[c] \notin {"count", "uncount"}, s \notin {"count", "uncount"},
           st[c] \notin {"new", "slot"} => s \notin {"new", "slot"},
           UNCHANGED <<links, len, cl, gs>>
    PROVE  LenShape'
<1>1. Entries' = Entries /\ Uncounting' = Uncounting /\ Counted' = Counted
  BY DEF TypeOK, Move, Entries, Uncounting, Counted
<1>2. Pending(Conns)' = Pending(Conns)
  BY <1>1 DEF Pending, Counted
<1>3. NoReconnect' => NoReconnect
  BY ReconnectLasts DEF Move
<1> QED BY <1>1, <1>2, <1>3 DEF LenShape, Removals

\* A step of anybody else that neither adds nor removes.
LEMMA FrameLen ==
    ASSUME LenShape, UNCHANGED <<st, links, len>>,
           (cl' = "uncount") <=> (cl = "uncount"), (gs' = "uncount") <=> (gs = "uncount")
    PROVE  LenShape'
<1>1. Entries' = Entries /\ Uncounting' = Uncounting
  BY DEF Entries, Uncounting
<1>2. Pending(Conns)' = Pending(Conns)
  BY DEF Pending
<1>3. NoReconnect' => NoReconnect
  BY DEF NoReconnect
<1>4. Removals' = Removals
  BY <1>1 DEF Removals, One
<1> QED BY <1>1, <1>2, <1>3, <1>4 DEF LenShape

\* What LoadAndDelete does to the entries, and what it returns.
LEMMA RemovedLen ==
    ASSUME TypeOK, NEW u \in Users, links' = Removed(u)
    PROVE  /\ NextAfterDelete(u) = "uncount" => Cardinality(Entries') = Cardinality(Entries) - 1
           /\ NextAfterDelete(u) # "uncount" => Entries' = Entries
<1>1. Entries' = Entries \ {u} /\ (u \in Entries <=> links[u] # NoLink)
  BY DEF TypeOK, Removed, Entries
<1>2. Entries \subseteq Users
  BY DEF Entries
<1> QED BY <1>1, <1>2, Counting DEF NextAfterDelete

\* NewLink: the entry is stored before it is counted.  Without a reconnect
\* the user had no entry.
LEMMA StoreLen == ASSUME SrvIInv, LenShape, NEW c \in Conns, NewLinkStore(c) PROVE LenShape'
<1> USE ServerAssumption DEF SrvIInv, TypeOK
<1> DEFINE u == UserOf[c]
<1>1. Entries' = Entries \union {u} /\ u \in Users
  BY DEF NewLinkStore, Stored, Entries
<1>2. Uncounting' = Uncounting /\ Counted' = Counted \union {c} /\ c \notin Counted
  BY DEF NewLinkStore, Move, Uncounting, Counted
<1>3. Pending(Conns)' = Pending(Conns) + 1
  <2>1. Counted \subseteq Conns /\ Pending(Conns)' = Cardinality(Counted')
    BY DEF Counted, Pending
  <2> QED BY <1>2, <2>1, LenTypes, Counting
<1>4. /\ Cardinality(Entries') <= Cardinality(Entries) + 1
      /\ u \notin Entries => Cardinality(Entries') = Cardinality(Entries) + 1
  <2>1. Entries \subseteq Users
    BY DEF Entries
  <2>2. CASE u \in Entries
    <3>1. Entries' = Entries
      BY <1>1, <2>2
    <3> QED BY <2>2, <3>1, LenTypes
  <2>3. CASE u \notin Entries
    BY <1>1, <2>1, <2>3, Counting
  <2> QED BY <2>2, <2>3
<1>5. NoReconnect' => NoReconnect
  BY ReconnectLasts DEF NewLinkStore, Move
<1>6. NoReconnect => u \notin Entries
  <2> SUFFICES ASSUME NoReconnect, links[u] # NoLink PROVE FALSE
    BY DEF Entries
  <2>1. links[u] \in Conns /\ UserOf[links[u]] = u
    BY <1>1 DEF NoStaleEntry
  <2>2. st[links[u]] \in {"count", "connect", "loop", "disconnect", "remove"}
    BY <1>1 DEF NoStaleEntry
  <2> QED BY <2>1, <2>2 DEF NoReconnect, NewLinkStore
<1>7. Removals' = Removals /\ Removals \in Nat
  BY <1>2, LenTypes DEF Removals, One, NewLinkStore
<1>8. len' = len /\ len \in Int
  BY DEF NewLinkStore
<1>9. Cardinality(Entries') \in Nat
  <2>1. Entries' \subseteq Users
    BY DEF Entries
  <2> QED BY <2>1, Counting
<1> QED BY <1>3, <1>4, <1>5, <1>6, <1>7, <1>8, <1>9, LenTypes DEF LenShape

\* ... and counted.
LEMMA CountLen == ASSUME SrvIInv, LenShape, NEW c \in Conns, NewLinkCount(c) PROVE LenShape'
<1> USE ServerAssumption DEF SrvIInv, TypeOK
<1>1. Entries' = Entries /\ Uncounting' = Uncounting /\ Counted' = Counted \ {c} /\ c \in Counted
  BY DEF NewLinkCount, Move, Entries, Uncounting, Counted
<1>2. Pending(Conns)' = Pending(Conns) - 1
  <2>1. Counted \subseteq Conns /\ Pending(Conns)' = Cardinality(Counted')
    BY DEF Counted, Pending
  <2> QED BY <1>1, <2>1, LenTypes, Counting
<1>3. NoReconnect' => NoReconnect
  BY ReconnectLasts DEF NewLinkCount, Move
<1>4. Removals' = Removals /\ Removals \in Nat
  BY <1>1, LenTypes DEF Removals, One, NewLinkCount
<1> QED BY <1>1, <1>2, <1>3, <1>4, LenTypes DEF LenShape, NewLinkCount

\* RemoveLink by the handler: the decrement follows iff an entry was deleted.
LEMMA HandlerRemoveLen == ASSUME SrvIInv, LenShape, NEW c \in Conns, HandlerRemove(c) PROVE LenShape'
<1> USE ServerAssumption DEF SrvIInv, TypeOK
<1> DEFINE u == UserOf[c]
<1>1. u \in Users /\ c \in Clients
  OBVIOUS
<1>2. Counted' = Counted /\ Pending(Conns)' = Pending(Conns)
  BY DEF HandlerRemove, Move, Counted, Pending
<1>3. NoReconnect' => NoReconnect
  BY <1>1, ReconnectLasts DEF HandlerRemove, Move
<1>4. CASE NextAfterDelete(u) = "uncount"
  <2>1. Uncounting' = Uncounting \union {c} /\ c \notin Uncounting /\ Uncounting \subseteq Conns
    BY <1>1, <1>4 DEF HandlerRemove, Move, Uncounting
  <2>2. Cardinality(Uncounting') = Cardinality(Uncounting) + 1
    BY <2>1, Counting
  <2>3. Cardinality(Entries') = Cardinality(Entries) - 1
    BY <1>1, <1>4, RemovedLen DEF HandlerRemove
  <2>4. Removals' = Removals + 1 /\ Removals \in Nat
    BY <2>2, LenTypes DEF Removals, One, HandlerRemove
  <2> QED BY <1>2, <1>3, <2>3, <2>4, LenTypes DEF LenShape, HandlerRemove
<1>5. CASE NextAfterDelete(u) # "uncount"
  <2>1. Uncounting' = Uncounting
    BY <1>1, <1>5 DEF HandlerRemove, Move, Uncounting
  <2>2. Entries' = Entries
    BY <1>1, <1>5, RemovedLen DEF HandlerRemove
  <2>3. Removals' = Removals
    BY <2>1 DEF Removals, HandlerRemove
  <2> QED BY <1>2, <1>3, <2>2, <2>3 DEF LenShape, HandlerRemove
<1> QED BY <1>4, <1>5

\* ... and then the counter goes down.
LEMMA HandlerUncountLen == ASSUME SrvIInv, LenShape, NEW c \in Conns, HandlerUncount(c) PROVE LenShape'
<1> USE ServerAssumption DEF SrvIInv, TypeOK
<1>1. /\ Entries' = Entries /\ Uncounting' = Uncounting \ {c} /\ c \in Uncounting
      /\ Uncounting \subseteq Conns
  BY DEF HandlerUncount, Move, Entries, Uncounting
<1>2. Pending(Conns)' = Pending(Conns)
  <2>1. Counted' = Counted
    BY DEF HandlerUncount, Move, Counted
  <2> QED BY <2>1 DEF Pending, Counted
<1>3. NoReconnect' => NoReconnect
  BY ReconnectLasts DEF HandlerUncount, Move
<1>4. Removals' = Removals - 1 /\ Removals \in Nat
  BY <1>1, Counting, LenTypes DEF Removals, One, HandlerUncount
<1> QED BY <1>1, <1>2, <1>3, <1>4, LenTypes DEF LenShape, HandlerUncount

\* The other steps of a connection.
LEMMA HandlerLen ==
    ASSUME SrvIInv, LenShape, NEW c \in Conns,
           Upgrade(c) \/ Deferred(c) \/ ReceiveEnds(c) \/ LinkDies(c)
    PROVE  LenShape'
<1>0. c \in Clients /\ TypeOK
  BY ServerAssumption DEF SrvIInv
<1>1. CASE Upgrade(c) \/ OnConnect(c) \/ LoopEnd(c) \/ ReceiveEnds(c) \/ OnDisconnect(c)
           \/ HandlerClose(c) \/ HandlerRelease(c)
  BY <1>0, <1>1, MoveLen DEF Upgrade, OnConnect, OnConnectFailed, LoopEnd, ReceiveEnds,
                             OnDisconnect, HandlerClose, HandlerRelease
<1>2. CASE LinkDies(c)
  BY <1>2, FrameLen DEF LinkDies
<1> QED BY <1>1, <1>2, StoreLen, CountLen, HandlerRemoveLen, HandlerUncountLen DEF Deferred

\* Accept: a connection whose Accept failed had stored nothing.
LEMMA AcceptorLen == SrvIInv /\ LenShape /\ Acceptor => LenShape'
<1> SUFFICES ASSUME SrvIInv, LenShape, Acceptor PROVE LenShape'
  OBVIOUS
<1>0. TypeOK
  BY DEF SrvIInv
<1>1. CASE AcceptCheck \/ AcceptBackoff
  BY <1>1, FrameLen DEF AcceptCheck, AcceptBackoff
<1>2. ASSUME NEW c \in Clients, AcceptAcquire(c) \/ AcceptConn(c) \/ AcceptError(c)
      PROVE  LenShape'
  BY <1>0, <1>2, MoveLen DEF AcceptAcquire, AcceptConn, AcceptError
<1> QED BY <1>1, <1>2 DEF Acceptor

\* CleanIdleLinks: the entry first, then the counter.
LEMMA CleanerLen == SrvIInv /\ LenShape /\ Cleaner => LenShape'
<1> SUFFICES ASSUME SrvIInv, LenShape, Cleaner PROVE LenShape'
  OBVIOUS
<1> USE DEF SrvIInv, TypeOK, KeyShape
<1>1. CASE CleanTick \/ (\E u \in Users : CleanVisit(u)) \/ CleanDone
  BY <1>1, FrameLen DEF CleanTick, CleanVisit, CleanDone
<1>2. CASE CleanRemove
  <2>1. Uncounting' = Uncounting /\ Pending(Conns)' = Pending(Conns)
    BY <1>2 DEF CleanRemove, Uncounting, Pending
  <2>2. NoReconnect' => NoReconnect
    BY <1>2 DEF CleanRemove, NoReconnect
  <2>3. CASE NextAfterDelete(clKey) = "uncount"
    <3>1. Cardinality(Entries') = Cardinality(Entries) - 1
      BY <1>2, <2>3, RemovedLen DEF CleanRemove
    <3>2. Removals' = Removals + 1 /\ Removals \in Nat
      BY <1>2, <2>1, <2>3, LenTypes DEF CleanRemove, Removals, One
    <3> QED BY <1>2, <2>1, <2>2, <3>1, <3>2, LenTypes DEF LenShape, CleanRemove
  <2>4. CASE NextAfterDelete(clKey) # "uncount"
    <3>1. Entries' = Entries
      BY <1>2, <2>4, RemovedLen DEF CleanRemove
    <3>2. Removals' = Removals
      BY <1>2, <2>1, <2>4 DEF CleanRemove, Removals, One
    <3> QED BY <1>2, <2>1, <2>2, <3>1, <3>2 DEF LenShape, CleanRemove
  <2> QED BY <2>3, <2>4
<1>3. CASE CleanUncount
  <2>1. Entries' = Entries /\ Uncounting' = Uncounting /\ Pending(Conns)' = Pending(Conns)
    BY <1>3 DEF CleanUncount, Entries, Uncounting, Pending
  <2>2. NoReconnect' => NoReconnect
    BY <1>3 DEF CleanUncount, NoReconnect
  <2>3. Removals' = Removals - 1 /\ Removals \in Nat
    BY <1>3, <2>1, LenTypes DEF CleanUncount, Removals, One
  <2> QED BY <1>3, <2>1, <2>2, <2>3, LenTypes DEF LenShape, CleanUncount
<1> QED BY <1>1, <1>2, <1>3 DEF Cleaner

\* Manager.Close does the same; the rest of GracefulStop only reads len.
LEMMA StopLen ==
    SrvIInv /\ LenShape /\ (StopAccepting \/ GracefulStop \/ StopDeadline) => LenShape'
<1> SUFFICES ASSUME SrvIInv, LenShape, StopAccepting \/ GracefulStop \/ StopDeadline
             PROVE  LenShape'
  OBVIOUS
<1> USE DEF SrvIInv, TypeOK, KeyShape
<1>1. CASE StopAccepting \/ StopListening \/ StopDeregister \/ DrainTick \/ DrainTimeout \/ ForceEnd
           \/ StopLimiter
  BY <1>1, FrameLen DEF StopAccepting, StopListening, StopDeregister, DrainTick, DrainTimeout,
                        ForceEnd, StopLimiter, StopMove
<1>2. CASE GracefulCloseBegin \/ ForceBegin \/ StopDeadline \/ StopCancel
           \/ \E u \in Users : ForceClose(u)
  BY <1>2, FrameLen DEF GracefulCloseBegin, ForceBegin, StopDeadline, StopCancel, ForceClose
<1>3. CASE ForceRemove
  <2>1. Uncounting' = Uncounting /\ Pending(Conns)' = Pending(Conns)
    BY <1>3 DEF ForceRemove, Uncounting, Pending
  <2>2. NoReconnect' => NoReconnect
    BY <1>3 DEF ForceRemove, NoReconnect
  <2>3. CASE NextAfterDelete(gsKey) = "uncount"
    <3>1. Cardinality(Entries') = Cardinality(Entries) - 1
      BY <1>3, <2>3, RemovedLen DEF ForceRemove
    <3>2. Removals' = Removals + 1 /\ Removals \in Nat
      BY <1>3, <2>1, <2>3, LenTypes DEF ForceRemove, Removals, One
    <3> QED BY <1>3, <2>1, <2>2, <3>1, <3>2, LenTypes DEF LenShape, ForceRemove
  <2>4. CASE NextAfterDelete(gsKey) # "uncount"
    <3>1. Entries' = Entries
      BY <1>3, <2>4, RemovedLen DEF ForceRemove
    <3>2. Removals' = Removals
      BY <1>3, <2>1, <2>4 DEF ForceRemove, Removals, One
    <3> QED BY <1>3, <2>1, <2>2, <3>1, <3>2 DEF LenShape, ForceRemove
  <2> QED BY <2>3, <2>4
<1>4. CASE ForceUncount
  <2>1. Entries' = Entries /\ Uncounting' = Uncounting /\ Pending(Conns)' = Pending(Conns)
    BY <1>4 DEF ForceUncount, Entries, Uncounting, Pending
  <2>2. NoReconnect' => NoReconnect
    BY <1>4 DEF ForceUncount, NoReconnect
  <2>3. Removals' = Removals - 1 /\ Removals \in Nat
    BY <1>4, <2>1, LenTypes DEF ForceUncount, Removals, One
  <2> QED BY <1>4, <2>1, <2>2, <2>3, LenTypes DEF LenShape, ForceUncount
<1> QED BY <1>1, <1>2, <1>3, <1>4 DEF GracefulStop

\* Every step preserves LenShape.
LEMMA LenNext == SrvIInv /\ LenShape /\ [Next]_vars => LenShape'
<1>1. ASSUME SrvIInv, LenShape, Ramp \/ UNCHANGED vars PROVE LenShape'
  BY <1>1, FrameLen DEF Ramp, vars, srvVars
<1> QED BY <1>1, AcceptorLen, HandlerLen, CleanerLen, StopLen DEF Next, Finished

\* Whatever handlers, cleaner and GracefulStop delete concurrently, len never
\* undercounts the map: GracefulStop sees 0 only when no link is left out.  As
\* long as no user has reconnected it is exact when no change is halfway.
THEOREM SrvLenCountsLinks == Spec => []LenCountsLinks
<1>1. Init => LenShape
  <2> SUFFICES ASSUME Init PROVE LenShape
    OBVIOUS
  <2>1. Entries = {} /\ Uncounting = {} /\ Counted = {}
    BY ServerAssumption DEF Init, Entries, Uncounting, Counted
  <2>2. Cardinality(Entries) = 0 /\ Removals = 0 /\ Pending(Conns) = 0
    BY <2>1, Counting, LenTypes DEF Init, Removals, One
  <2> QED BY <2>2 DEF Init, LenShape
<1>2. SrvIInv /\ LenShape => LenCountsLinks
  <2> SUFFICES ASSUME SrvIInv, LenShape PROVE LenCountsLinks
    OBVIOUS
  <2>1. Removals \in Nat /\ len \in Int
    BY LenTypes DEF Removals, One, SrvIInv, TypeOK
  <2>2. (\A c \in Conns : st[c] # "new" => Alone(c)) => NoReconnect
    BY DEF Alone, NoReconnect
  <2>3. ~Removing => Removals = 0
    <3>1. ~Removing => Uncounting = {}
      BY DEF Removing, Uncounting
    <3> QED BY <3>1, Counting DEF Removing, Removals, One
  <2> QED BY <2>1, <2>2, <2>3, LenTypes DEF LenShape, LenCountsLinks
<1> QED BY <1>1, <1>2, LenNext, SrvInvariant, PTL DEF Spec

-----------------------------------------------------------------------------
(* The node's record in the registry.                                      *)

\* Before Register has succeeded nobody else writes, and the attempts are
\* within their limit.
RegShape ==
    /\ rg = "grant" => granted <= RegMaxRetries
    /\ rg \in {"put", "revoke"} => granted >= 1
    /\ rg # "done" => upd = "off" /\ gd = "off"
    /\ rg = "done" => leaseID \in Leases

\* What hangs on which lease: the record on one that lives and, after
\* Register, on the node's own, as does what the updater and
\* GracefulDeregister are about to write.
LeaseShape ==
    /\ rec # NoNode => rec.lease \in live
    /\ (rg = "done" /\ rec # NoNode) => rec.lease = leaseID
    /\ upd = "put" => copy \in Nodes /\ copy.lease = leaseID
    /\ gd = "put" => draft \in Nodes /\ draft.lease = leaseID
    /\ gd \in {"cancel", "gone"} => leaseID \notin live

RegIInv == RegTypeOK /\ RegShape /\ LeaseShape

\* No node has the lease of "no record", and no lease is "no lease".
LEMMA NodeFacts ==
    /\ NoNode \notin Nodes
    /\ NoLease \notin Leases
    /\ \A n \in Nodes : n.lease \in Leases \union {NoLease}
BY RegistryAssumption DEF NoNode, Nodes, NoLease, Leases

\* What UpdateNodeInfo writes is a node on the node's own lease.
LEMMA UpdateFacts ==
    ASSUME NEW n \in Nodes, leaseID \in Leases \union {NoLease}
    PROVE  /\ \A x \in Loads : /\ OnLease([n EXCEPT !.load = x]) \in Nodes
                               /\ OnLease([n EXCEPT !.load = x]).lease = leaseID
           /\ OnLease([n EXCEPT !.weight = 0]) \in Nodes
           /\ OnLease([n EXCEPT !.weight = 0]).lease = leaseID
BY DEF OnLease, Nodes

\* What Register writes is a node on the lease of this attempt.
LEMMA NewNodeFacts ==
    ASSUME granted \in 1..(RegMaxRetries + 1)
    PROVE  NewNode \in Nodes /\ NewNode.lease = granted /\ granted \in Leases
BY RegistryAssumption DEF NewNode, Nodes, Leases

\* A new process satisfies the inductive invariant.
LEMMA RegInitIInv == RegInit => RegIInv
<1> SUFFICES ASSUME RegInit PROVE RegIInv
  OBVIOUS
<1>1. RegTypeOK
  BY RegistryAssumption DEF RegInit, RegTypeOK
<1>2. RegShape /\ LeaseShape
  BY RegistryAssumption DEF RegInit, RegShape, LeaseShape
<1> QED BY <1>1, <1>2 DEF RegIInv

\* The attempts of Register preserve the inductive invariant.
LEMMA RegisterIInv == RegIInv /\ Register => RegIInv'
<1> SUFFICES ASSUME RegIInv, Register PROVE RegIInv'
  OBVIOUS
<1> USE RegistryAssumption, NodeFacts DEF RegIInv, RegTypeOK, RegShape, LeaseShape
<1>1. CASE RegGrant
  <2>1. CASE rg' = "failed" /\ UNCHANGED <<granted, live>>
    BY <1>1, <2>1 DEF RegGrant, kaVars, updVars, gdVars, ctxs
  <2>2. CASE rg' = "put" /\ granted' = granted + 1 /\ live' = live \union {granted'}
    <3>1. granted' \in 1..(RegMaxRetries + 1)
      BY <1>1, <2>2 DEF RegGrant
    <3>2. granted' \in Leases
      BY <3>1 DEF Leases
    <3> QED BY <1>1, <2>2, <3>1, <3>2 DEF RegGrant, kaVars, updVars, gdVars, ctxs
  <2> QED BY <1>1, <2>1, <2>2 DEF RegGrant
<1>2. CASE RegPutOK
  <2>1. NewNode \in Nodes /\ NewNode.lease = granted /\ granted \in Leases
    BY <1>2, NewNodeFacts DEF RegPutOK
  <2>2. granted \in live
    BY <1>2, <2>1 DEF RegPutOK, PutDone, CanPut
  <2> QED BY <1>2, <2>1, <2>2 DEF RegPutOK, PutDone, LeaseOf, gdVars, ctxs
<1>3. CASE RegPutFails
  <2>1. NewNode \in Nodes /\ NewNode.lease = granted /\ granted \in Leases
    BY <1>3, NewNodeFacts DEF RegPutFails
  <2> QED BY <1>3, <2>1 DEF RegPutFails, PutDone, CanPut, PutLost, etcd, kaVars, updVars, gdVars, ctxs
<1>4. CASE RegRevoke
  BY <1>4 DEF RegRevoke, MoreTries, Revoked, Without, etcd, kaVars, updVars, gdVars, ctxs
<1> QED BY <1>1, <1>2, <1>3, <1>4 DEF Register

\* KeepAlive and the client's channel touch nothing that matters here.
LEMMA KeepAliveIInv == RegIInv /\ (KaRenewed \/ KeepAlive \/ ChanCloses) => RegIInv'
<1> SUFFICES ASSUME RegIInv, KaRenewed \/ KeepAlive \/ ChanCloses PROVE RegIInv'
  OBVIOUS
<1> USE RegistryAssumption DEF RegIInv, RegTypeOK, RegShape, LeaseShape,
                               etcd, regVars, updVars, gdVars, ctxs
<1>1. CASE KaRenewed
  BY <1>1 DEF KaRenewed
<1>2. CASE KaStops
  BY <1>2 DEF KaStops
<1>3. CASE KaClosed
  BY <1>3 DEF KaClosed
<1>4. CASE KaRestart
  BY <1>4 DEF KaRestart
<1>5. CASE ChanCloses
  BY <1>5 DEF ChanCloses
<1> QED BY <1>1, <1>2, <1>3, <1>4, <1>5 DEF KeepAlive

\* The state updater: what it has read may be stale, its Put still needs the
\* node's own lease.
LEMMA UpdaterIInv == RegIInv /\ (UpdTick \/ Updater) => RegIInv'
<1> SUFFICES ASSUME RegIInv, UpdTick \/ Updater PROVE RegIInv'
  OBVIOUS
<1> USE NodeFacts DEF RegIInv, RegTypeOK, RegShape, LeaseShape, etcd, regVars, kaVars, gdVars, ctxs
<1>1. CASE UpdTick
  BY <1>1 DEF UpdTick
<1>2. CASE UpdStops
  BY <1>2 DEF UpdStops
<1>3. CASE UpdGet
  <2>1. CASE upd' = "select" /\ UNCHANGED copy
    BY <1>3, <2>1 DEF UpdGet
  <2>2. ASSUME NEW x \in Loads, rec # NoNode, copy' = OnLease([rec EXCEPT !.load = x]), upd' = "put"
        PROVE  RegIInv'
    <3>1. copy' \in Nodes /\ copy'.lease = leaseID
      BY <2>2, UpdateFacts
    <3> QED BY <1>3, <2>2, <3>1 DEF UpdGet
  <2> QED BY <1>3, <2>1, <2>2 DEF UpdGet
<1>4. CASE UpdPut
  BY <1>4 DEF UpdPut, PutDone, CanPut, PutLost
<1> QED BY <1>1, <1>2, <1>3, <1>4 DEF Updater

\* GracefulStop: after the Revoke nothing hangs on the node's lease.
LEMMA StoppingIInv == RegIInv /\ (GracefulStopCalled \/ Stopping) => RegIInv'
<1> SUFFICES ASSUME RegIInv, GracefulStopCalled \/ Stopping PROVE RegIInv'
  OBVIOUS
<1> USE NodeFacts DEF RegIInv, RegTypeOK, RegShape, LeaseShape, etcd, regVars, kaVars, updVars, ctxs
<1>1. CASE GracefulStopCalled
  BY <1>1 DEF GracefulStopCalled
<1>2. CASE GdGet
  <2>1. CASE gd' = "left" /\ UNCHANGED draft
    BY <1>2, <2>1 DEF GdGet
  <2>2. CASE rec # NoNode /\ draft' = OnLease([rec EXCEPT !.weight = 0]) /\ gd' = "put"
    <3>1. draft' \in Nodes /\ draft'.lease = leaseID
      BY <2>2, UpdateFacts
    <3> QED BY <1>2, <2>2, <3>1 DEF GdGet
  <2> QED BY <1>2, <2>1, <2>2 DEF GdGet
<1>3. CASE GdPutOK
  BY <1>3 DEF GdPutOK, PutDone, CanPut
<1>4. CASE GdPutFails
  BY <1>4 DEF GdPutFails, PutDone, CanPut, PutLost
<1>5. CASE GdWait
  BY <1>5 DEF GdWait
<1>6. CASE GdRevoke
  BY <1>6 DEF GdRevoke, Revoked, Without
<1>7. CASE GdCancel
  BY <1>7 DEF GdCancel
<1>8. CASE Stop
  BY <1>8 DEF Stop, gdVars
<1> QED BY <1>1, <1>2, <1>3, <1>4, <1>5, <1>6, <1>7, <1>8 DEF Stopping

\* Etcd and the process: a lease that goes takes the record with it.
LEMMA EnvironmentIInv == RegIInv /\ (Die \/ \E l \in Leases : Expire(l)) => RegIInv'
<1> SUFFICES ASSUME RegIInv, Die \/ \E l \in Leases : Expire(l) PROVE RegIInv'
  OBVIOUS
<1> USE NodeFacts DEF RegIInv, RegTypeOK, RegShape, LeaseShape, etcd, regVars, kaVars, updVars, gdVars, ctxs
<1>1. CASE Die
  BY <1>1 DEF Die
<1>2. ASSUME NEW l \in Leases, Expire(l) PROVE RegIInv'
  BY <1>2 DEF Expire, Revoked, Without
<1> QED BY <1>1, <1>2

\* Every step preserves the inductive invariant.
LEMMA RegNextIInv == RegIInv /\ [RegNext]_nodeVars => RegIInv'
<1> SUFFICES ASSUME RegIInv, [RegNext]_nodeVars PROVE RegIInv'
  OBVIOUS
<1>1. CASE UNCHANGED nodeVars
  BY <1>1 DEF RegIInv, RegTypeOK, RegShape, LeaseShape,
              nodeVars, etcd, regVars, kaVars, updVars, gdVars, ctxs
<1> QED BY <1>1, RegisterIInv, KeepAliveIInv, UpdaterIInv, StoppingIInv, EnvironmentIInv
        DEF RegNext, RegFinished

\* The inductive invariant holds in every reachable state.
LEMMA RegInvariant == RegSpec => []RegIInv
BY RegInitIInv, RegNextIInv, PTL DEF RegSpec

\* Type correctness of the registry and the goroutines that use it.
THEOREM RegTypeCorrect == RegSpec => []RegTypeOK
<1>1. RegIInv => RegTypeOK
  BY DEF RegIInv
<1> QED BY <1>1, RegInvariant, PTL

\* After Register the record hangs on the lease that KeepAlive renews, however
\* many attempts failed before and whatever updates are under way.
THEOREM RegOwnLease == RegSpec => []RecordOnOwnLease
<1>1. RegIInv => RecordOnOwnLease
  BY DEF RegIInv, LeaseShape, RecordOnOwnLease
<1> QED BY <1>1, RegInvariant, PTL

\* A node that Deregister has taken out is not put back by an update that was
\* under way.
THEOREM RegNoResurrection == RegSpec => []NoResurrection
<1>1. RegIInv => NoResurrection
  BY DEF RegIInv, RegShape, LeaseShape, NoResurrection
<1> QED BY <1>1, RegInvariant, PTL
=============================================================================
