----------------------------- MODULE LinkProofs -----------------------------
(***************************************************************************)
(* A link, for any buffer sizes, retry limit and number of messages: both  *)
(* streams come through without a hole, and Send on a closed link fails.   *)
(***************************************************************************)
EXTENDS Link, SequenceTheorems, TLAPS

Typed ==
    /\ TypeOK
    /\ sendCh \in Seq(Nat) /\ recvCh \in Seq(Nat)
    /\ out \in Nat /\ inp \in Nat /\ accepted \in Nat
    /\ left \in [{"client", "pusher"} -> Nat]
    /\ pc["pusher"] # "idle" => left["pusher"] > 0
    /\ late \in [Senders -> BOOLEAN]
    /\ pc["sendLoop"] \in {"select", "check", "write", "backoff", "close", "closing", "done"}
    /\ pc["recvLoop"] \in {"check", "read", "push", "shut", "close", "closing", "done"}

\* The payload after the one that sendLoop has written, or is writing.
Busy == pc["sendLoop"] \in {"check", "write", "backoff"}
Base == IF Busy THEN wire + 1 ELSE wire

\* As long as sendLoop has not given up, its payload and those in sendCh are
\* the ones that follow what is on the wire, up to the last one accepted.
OutShape ==
    /\ Busy => out = wire + 1
    /\ (Busy \/ pc["sendLoop"] = "select") =>
         /\ accepted = Base + Len(sendCh)
         /\ \A i \in 1..Len(sendCh) : sendCh[i] = Base + i

\* The payloads in receiveCh are the ones that follow what the handler has
\* got; receiveLoop's is the next, and the last one the client has sent.
InShape ==
    /\ \A i \in 1..Len(recvCh) : recvCh[i] = got + i
    /\ got + Len(recvCh) <= Upstream - left["client"]
    /\ pc["recvLoop"] \in {"check", "read"} => got + Len(recvCh) = Upstream - left["client"]
    /\ pc["recvLoop"] = "push" =>
         inp = got + Len(recvCh) + 1 /\ inp = Upstream - left["client"]

\* A Send that began on a closed link is still on a closed link.
LateShape ==
    /\ \A p \in Senders : late[p] => ctx = "done"
    /\ SendAfterCloseFails

LinkIInv == Typed /\ OutShape /\ InShape /\ LateShape
-----------------------------------------------------------------------------
(* Channels.                                                               *)

\* A send to a buffered channel with room.
LEMMA Enqueue ==
  ASSUME NEW s \in Seq(Nat), NEW x \in Nat
  PROVE  /\ Append(s, x) \in Seq(Nat) /\ Len(Append(s, x)) = Len(s) + 1
         /\ \A i \in 1..Len(s) : Append(s, x)[i] = s[i]
         /\ Append(s, x)[Len(s) + 1] = x
  OBVIOUS

\* A receive from it.
LEMMA Dequeue ==
  ASSUME NEW s \in Seq(Nat), s # <<>>
  PROVE  /\ Head(s) = s[1] /\ Head(s) \in Nat /\ Len(s) \in Nat /\ Len(s) >= 1
         /\ Tail(s) \in Seq(Nat) /\ Len(Tail(s)) = Len(s) - 1
         /\ \A i \in 1..Len(Tail(s)) : Tail(s)[i] = s[i + 1]
  OBVIOUS

\* Consecutive numbers stay so when the next one is put in ...
LEMMA EnqueueNext ==
  ASSUME NEW s \in Seq(Nat), NEW b \in Nat, \A i \in 1..Len(s) : s[i] = b + i
  PROVE  \A i \in 1..Len(Append(s, b + Len(s) + 1)) : Append(s, b + Len(s) + 1)[i] = b + i
<1>1. Len(s) \in Nat /\ b + Len(s) + 1 \in Nat
  OBVIOUS
<1> QED BY <1>1, Enqueue

\* ... and when the first one is taken out.
LEMMA DequeueNext ==
  ASSUME NEW s \in Seq(Nat), NEW b \in Nat, s # <<>>, \A i \in 1..Len(s) : s[i] = b + i
  PROVE  Head(s) = b + 1 /\ \A i \in 1..Len(Tail(s)) : Tail(s)[i] = (b + 1) + i
<1>1. Head(s) = s[1] /\ 1 \in 1..Len(s)
  BY Dequeue
<1>2. ASSUME NEW i \in 1..Len(Tail(s)) PROVE Tail(s)[i] = (b + 1) + i
  <2>1. i + 1 \in 1..Len(s) /\ Tail(s)[i] = s[i + 1] /\ i \in Nat
    BY Dequeue
  <2> QED BY <2>1
<1> QED BY <1>1, <1>2

-----------------------------------------------------------------------------
(* The inductive invariant.                                                *)

\* A new link.
LEMMA LinkInit == Init => LinkIInv
<1> SUFFICES ASSUME Init PROVE LinkIInv
  OBVIOUS
<1> USE LinkAssumption DEF LinkAssumption, Init
<1>1. pc \in [Procs -> Labels] /\ pc["sendLoop"] = "select" /\ pc["recvLoop"] = "check"
      /\ pc["handler"] = "select" /\ pc["pusher"] = "idle"
  BY DEF Procs, Labels
<1>2. sendCh = <<>> /\ recvCh = <<>> /\ Len(sendCh) = 0 /\ Len(recvCh) = 0
  OBVIOUS
<1>3. left \in [{"client", "pusher"} -> Nat] /\ left["client"] = Upstream /\ left["pusher"] = Pushes
  OBVIOUS
<1>4. Typed
  <2>1. TypeOK
    <3>1. ret \in [Senders -> {"none", "ok", "closed"}]
      OBVIOUS
    <3>2. active \in BOOLEAN /\ listed \in BOOLEAN /\ recvShut \in BOOLEAN
      OBVIOUS
    <3>3. tries \in 0..MaxRetries /\ wire \in 0..accepted /\ got \in 0..Upstream
      OBVIOUS
    <3> QED BY <1>1, <1>2, <1>3, <3>1, <3>2, <3>3 DEF TypeOK
  <2>2. late \in [Senders -> BOOLEAN]
    BY Zenon
  <2> QED BY <1>1, <1>2, <1>3, <2>1, <2>2 DEF Typed
<1>5. OutShape
  BY <1>1, <1>2 DEF OutShape, Busy, Base
<1>6. InShape
  BY <1>1, <1>2, <1>3 DEF InShape
<1>7. LateShape
  BY <1>1 DEF LateShape, SendAfterCloseFails, Senders, At
<1> QED BY <1>4, <1>5, <1>6, <1>7 DEF LinkIInv

\* Close, the cancellation from outside, the client and time.
LEMMA LifeIInv ==
  ASSUME LinkIInv, (\E p \in Procs \ {"pusher"} : Close(p)) \/ TryCloseIfIdle
                   \/ ParentCancel \/ Unlisted \/ ClientGone \/ TimePasses
  PROVE  LinkIInv'
<1> USE LinkAssumption DEF LinkAssumption, LinkIInv, Typed, TypeOK, OutShape, InShape, LateShape,
        SendAfterCloseFails, Busy, Base, At, Goto, Procs, Senders, Labels, chans, hist, sends
<1>1. ASSUME NEW p \in Procs \ {"pusher"}, CloseEnter(p) PROVE LinkIInv'
  <2>1. Typed'
    BY <1>1 DEF CloseEnter
  <2>2. OutShape'
    BY <1>1 DEF CloseEnter
  <2>3. InShape' /\ LateShape'
    BY <1>1 DEF CloseEnter
  <2> QED BY <2>1, <2>2, <2>3
<1>2. ASSUME NEW p \in Procs \ {"pusher"}, CloseCancel(p) PROVE LinkIInv'
  <2>1. Typed'
    BY <1>2 DEF CloseCancel
  <2>2. OutShape'
    BY <1>2 DEF CloseCancel
  <2>3. InShape' /\ LateShape'
    BY <1>2 DEF CloseCancel
  <2> QED BY <2>1, <2>2, <2>3
<1>3. ASSUME NEW p \in Procs \ {"pusher"}, CloseConn(p) PROVE LinkIInv'
  <2>1. Typed'
    BY <1>3 DEF CloseConn
  <2>2. OutShape'
    BY <1>3 DEF CloseConn
  <2>3. InShape' /\ LateShape'
    BY <1>3 DEF CloseConn
  <2> QED BY <2>1, <2>2, <2>3
<1>4. ASSUME NEW p \in Procs \ {"pusher"}, CloseReturn(p) PROVE LinkIInv'
  <2>1. Typed'
    BY <1>4 DEF CloseReturn, Unlocked
  <2>2. OutShape'
    BY <1>4 DEF CloseReturn, Unlocked
  <2>3. InShape' /\ LateShape'
    BY <1>4 DEF CloseReturn, Unlocked
  <2> QED BY <2>1, <2>2, <2>3
<1>5. CASE TryCloseIfIdle
  BY <1>5 DEF TryCloseIfIdle
<1>6. CASE ParentCancel
  BY <1>6 DEF ParentCancel
<1>7. CASE ClientGone
  BY <1>7 DEF ClientGone
<1>8. CASE TimePasses
  <2>1. /\ active' \in BOOLEAN
        /\ UNCHANGED <<pc, ctx, conn, once, mu, listed, chans, out, tries, inp, left, peer, hist, sends>>
    BY <1>8 DEF TimePasses
  <2> QED BY <2>1
<1>9. CASE Unlisted
  <2>1. /\ listed' \in BOOLEAN
        /\ UNCHANGED <<pc, ctx, conn, once, mu, active, chans, out, tries, inp, left, peer, hist, sends>>
    BY <1>9 DEF Unlisted
  <2> QED BY <2>1
<1> QED BY <1>1, <1>2, <1>3, <1>4, <1>5, <1>6, <1>7, <1>8, <1>9 DEF Close

\* sendLoop: retries keep the payload, giving up ends the stream.
LEMMA SendLoopIInv == ASSUME LinkIInv, SendLoop PROVE LinkIInv'
<1> USE LinkAssumption DEF LinkAssumption, LinkIInv, Typed, TypeOK, OutShape, InShape, LateShape,
        SendAfterCloseFails, Busy, Base, At, Goto, Jump, Procs, Senders, Labels, life, chans, hist, sends
<1>1. CASE SendLoopStop
  BY <1>1 DEF SendLoopStop
<1>2. CASE SendLoopTake
  <2>1. /\ pc["sendLoop"] = "select" /\ sendCh # <<>>
        /\ out' = Head(sendCh) /\ sendCh' = Tail(sendCh) /\ tries' = 0
        /\ pc' = [pc EXCEPT !["sendLoop"] = "check"]
        /\ UNCHANGED <<life, recvCh, recvShut, inp, left, peer, hist, sends>>
    BY <1>2 DEF SendLoopTake
  <2>2. /\ Head(sendCh) \in Nat /\ Len(sendCh) \in Nat /\ Tail(sendCh) \in Seq(Nat)
        /\ Len(Tail(sendCh)) = Len(sendCh) - 1
    BY <2>1, Dequeue
  <2>3. Typed'
    <3>1. /\ sendCh' \in Seq(Nat) /\ Len(sendCh') <= SendBuf /\ out' \in Nat /\ tries' \in 0..MaxRetries
      BY <2>1, <2>2
    <3>2. /\ pc' \in [Procs -> Labels] /\ pc'["sendLoop"] = "check"
          /\ pc'["recvLoop"] = pc["recvLoop"] /\ pc'["pusher"] = pc["pusher"]
      BY <2>1
    <3> QED BY <2>1, <3>1, <3>2
  <2>4. OutShape'
    <3>1. wire \in Nat /\ \A i \in 1..Len(sendCh) : sendCh[i] = wire + i
      BY <2>1
    <3>2. out' = wire + 1 /\ \A i \in 1..Len(Tail(sendCh)) : Tail(sendCh)[i] = (wire + 1) + i
      BY <2>1, <3>1, DequeueNext
    <3> QED BY <2>1, <2>2, <3>1, <3>2
  <2>5. InShape' /\ LateShape'
    BY <2>1
  <2> QED BY <2>3, <2>4, <2>5
<1>3. CASE SendLoopOpen
  BY <1>3 DEF SendLoopOpen
<1>4. CASE WriteOK
  BY <1>4 DEF WriteOK
<1>5. CASE WriteTimeout
  <2>1. /\ pc["sendLoop"] = "write"
        /\ UNCHANGED <<life, chans, out, inp, left, peer, hist, sends>>
    BY <1>5 DEF WriteTimeout
  <2>2. \/ tries' \in 0..MaxRetries /\ pc' = [pc EXCEPT !["sendLoop"] = "backoff"]
        \/ tries' = tries /\ pc' = [pc EXCEPT !["sendLoop"] = "close"]
    BY <1>5 DEF WriteTimeout, CouldRetry, GiveUp
  <2>3. CASE tries' \in 0..MaxRetries /\ pc' = [pc EXCEPT !["sendLoop"] = "backoff"]
    <3>1. Typed'
      BY <2>1, <2>3
    <3>2. OutShape'
      BY <2>1, <2>3
    <3>3. InShape' /\ LateShape'
      BY <2>1, <2>3
    <3> QED BY <3>1, <3>2, <3>3
  <2>4. CASE tries' = tries /\ pc' = [pc EXCEPT !["sendLoop"] = "close"]
    <3>1. Typed'
      BY <2>1, <2>4
    <3>2. OutShape'
      BY <2>1, <2>4
    <3>3. InShape' /\ LateShape'
      BY <2>1, <2>4
    <3> QED BY <3>1, <3>2, <3>3
  <2> QED BY <2>2, <2>3, <2>4
<1>6. CASE WriteError
  BY <1>6 DEF WriteError, GiveUp
<1>7. CASE BackoffOver
  BY <1>7 DEF BackoffOver
<1> QED BY <1>1, <1>2, <1>3, <1>4, <1>5, <1>6, <1>7 DEF SendLoop

\* receiveLoop: the payload it could not hand over is the last one.
LEMMA RecvLoopIInv == ASSUME LinkIInv, RecvLoop PROVE LinkIInv'
<1> USE LinkAssumption DEF LinkAssumption, LinkIInv, Typed, TypeOK, OutShape, InShape, LateShape,
        SendAfterCloseFails, Busy, Base, At, Goto, Jump, Procs, Senders, Labels, life, chans, hist, sends
<1>1. CASE RecvLoopCheck
  BY <1>1 DEF RecvLoopCheck
<1>2. CASE ReadOK
  <2>1. Typed'
    BY <1>2 DEF ReadOK
  <2>2. OutShape'
    BY <1>2 DEF ReadOK
  <2>3. InShape' /\ LateShape'
    BY <1>2 DEF ReadOK
  <2> QED BY <2>1, <2>2, <2>3
<1>3. CASE ReadTimeout
  BY <1>3 DEF ReadTimeout
<1>4. CASE ReadError
  <2>1. Typed'
    BY <1>4 DEF ReadError, ReadFailed
  <2>2. OutShape'
    BY <1>4 DEF ReadError, ReadFailed
  <2>3. InShape' /\ LateShape'
    BY <1>4 DEF ReadError, ReadFailed
  <2> QED BY <2>1, <2>2, <2>3
<1>5. CASE HandOver
  <2>1. /\ pc["recvLoop"] = "push" /\ inp' = 0
        /\ UNCHANGED <<life, sendCh, recvShut, out, tries, left, peer, hist, sends>>
    BY <1>5 DEF HandOver
  <2>2. CASE pc' = [pc EXCEPT !["recvLoop"] = "shut"] /\ UNCHANGED recvCh
    BY <2>1, <2>2
  <2>3. CASE /\ Len(recvCh) < RecvBuf /\ recvCh' = Append(recvCh, inp)
             /\ pc' = [pc EXCEPT !["recvLoop"] = "check"]
    <3>1. Append(recvCh, inp) \in Seq(Nat) /\ Len(recvCh') = Len(recvCh) + 1 /\ Len(recvCh) \in Nat
      BY <2>3, Enqueue
    <3>2. got \in Nat /\ inp = got + Len(recvCh) + 1
      BY <2>1
    <3>3. \A i \in 1..Len(recvCh') : recvCh'[i] = got + i
      <4>1. recvCh \in Seq(Nat) /\ \A i \in 1..Len(recvCh) : recvCh[i] = got + i
        OBVIOUS
      <4>2. recvCh' = Append(recvCh, got + Len(recvCh) + 1)
        BY <2>3, <3>2
      <4> HIDE DEF LinkIInv
      <4> QED BY <4>1, <4>2, <3>2, EnqueueNext
    <3>4. Typed'
      BY <2>1, <2>3, <3>1
    <3>5. OutShape' /\ LateShape'
      BY <2>1, <2>3
    <3>6. InShape'
      <4>1. /\ got' + Len(recvCh') = Upstream - left'["client"] /\ got' = got
            /\ pc'["recvLoop"] = "check"
        BY <2>1, <2>3, <3>1, <3>2
      <4>2. got' + Len(recvCh') \in Nat
        BY <4>1, <3>1, <3>2
      <4> HIDE DEF LinkIInv
      <4> QED BY <4>1, <4>2, <3>3
    <3> QED BY <3>4, <3>5, <3>6
  <2> QED BY <1>5, <2>2, <2>3 DEF HandOver
<1>6. CASE RecvLoopShut
  <2>1. /\ pc["recvLoop"] = "shut" /\ recvShut' \in BOOLEAN
        /\ pc' = [pc EXCEPT !["recvLoop"] = "close"]
        /\ UNCHANGED <<life, sendCh, recvCh, out, tries, inp, left, peer, hist, sends>>
    BY <1>6 DEF RecvLoopShut
  <2> QED BY <2>1
<1> QED BY <1>1, <1>2, <1>3, <1>4, <1>5, <1>6 DEF RecvLoop

\* Send: a payload gets the next number; on a closed link the second look at
\* the context finds it closed.
LEMMA SendIInv == ASSUME LinkIInv, NEW p \in Senders, Send(p) PROVE LinkIInv'
<1> USE LinkAssumption DEF LinkAssumption, LinkIInv, Typed, TypeOK, OutShape, InShape, LateShape,
        SendAfterCloseFails, Busy, Base, At, Goto, Procs, Senders, Labels, life, chans, hist, sends
<1>1. CASE SendClosed(p)
  BY <1>1 DEF SendClosed, SendSeesDone
<1>2. CASE SendEnqueue(p)
  <2>1. /\ pc[p] = "send" /\ Len(sendCh) < SendBuf /\ accepted' = accepted + 1
        /\ sendCh' = Append(sendCh, accepted + 1) /\ pc' = [pc EXCEPT ![p] = "recheck"]
        /\ UNCHANGED <<life, recvCh, recvShut, out, tries, inp, left, peer, wire, got, sends>>
    BY <1>2 DEF SendEnqueue
  <2>2. /\ Append(sendCh, accepted + 1) \in Seq(Nat) /\ Len(sendCh') = Len(sendCh) + 1
        /\ Len(sendCh) \in Nat
    BY <2>1, Enqueue
  <2>3. Typed'
    BY <2>1, <2>2
  <2>4. OutShape'
    <3>1. CASE Busy \/ pc["sendLoop"] = "select"
      <4>1. PICK b \in Nat : b = Base
        OBVIOUS
      <4>2. sendCh \in Seq(Nat) /\ \A i \in 1..Len(sendCh) : sendCh[i] = b + i
        BY <3>1, <4>1
      <4>3. accepted = b + Len(sendCh)
        BY <3>1, <4>1
      <4>4. sendCh' = Append(sendCh, b + Len(sendCh) + 1)
        BY <2>1, <2>2, <4>3
      <4>5. \A i \in 1..Len(sendCh') : sendCh'[i] = b + i
        <5> HIDE DEF LinkIInv
        <5> QED BY <4>2, <4>4, EnqueueNext
      <4>6. Base' = b /\ Busy' = Busy /\ (Busy' => out' = wire' + 1)
        BY <2>1, <4>1
      <4>7. accepted' = b + Len(sendCh')
        BY <2>1, <2>2, <4>3
      <4> HIDE DEF LinkIInv, Base, Busy
      <4> QED BY <4>5, <4>6, <4>7
    <3>2. CASE ~Busy /\ pc["sendLoop"] # "select"
      BY <3>2, <2>1
    <3> QED BY <3>1, <3>2
  <2>5. InShape' /\ LateShape'
    BY <2>1
  <2> QED BY <2>3, <2>4, <2>5
<1>3. CASE SendRecheck(p)
  BY <1>3 DEF SendRecheck, SendResult
<1> QED BY <1>1, <1>2, <1>3 DEF Send

\* The handler's goroutine takes the messages in order.
LEMMA CallerIInv == ASSUME LinkIInv, Handler \/ Pusher PROVE LinkIInv'
<1> USE LinkAssumption DEF LinkAssumption, LinkIInv, Typed, TypeOK, OutShape, InShape, LateShape,
        SendAfterCloseFails, Busy, Base, At, Goto, Jump, Procs, Senders, Labels, life, chans, hist, sends
<1>1. CASE HandlerTake
  <2>1. /\ pc["handler"] = "select" /\ recvCh # <<>>
        /\ got' = Head(recvCh) /\ recvCh' = Tail(recvCh)
        /\ pc' = [pc EXCEPT !["handler"] = "update"]
        /\ UNCHANGED <<life, sendCh, recvShut, out, tries, inp, left, peer, accepted, wire, sends>>
    BY <1>1 DEF HandlerTake
  <2>2. /\ Head(recvCh) \in Nat /\ Len(recvCh) \in Nat /\ Tail(recvCh) \in Seq(Nat)
        /\ Len(Tail(recvCh)) = Len(recvCh) - 1 /\ Len(recvCh) >= 1
    BY <2>1, Dequeue
  <2>3. got' = got + 1 /\ \A i \in 1..Len(Tail(recvCh)) : Tail(recvCh)[i] = (got + 1) + i
    <3>1. got \in Nat /\ recvCh \in Seq(Nat) /\ \A i \in 1..Len(recvCh) : recvCh[i] = got + i
      OBVIOUS
    <3> HIDE DEF LinkIInv
    <3> QED BY <2>1, <3>1, DequeueNext
  <2>4. Typed'
    <3>1. got' \in 0..Upstream /\ wire' \in 0..accepted'
      BY <2>1, <2>2, <2>3
    <3>2. /\ recvCh' \in Seq(Nat) /\ Len(recvCh') <= RecvBuf /\ pc' \in [Procs -> Labels]
          /\ pc'["pusher"] = pc["pusher"] /\ pc'["sendLoop"] = pc["sendLoop"]
          /\ pc'["recvLoop"] = pc["recvLoop"]
      BY <2>1, <2>2
    <3> QED BY <2>1, <3>1, <3>2
  <2>5. InShape'
    <3>1. \A i \in 1..Len(recvCh') : recvCh'[i] = got' + i
      BY <2>1, <2>3
    <3>2. got' + Len(recvCh') = got + Len(recvCh) /\ UNCHANGED <<left, inp>>
      BY <2>1, <2>2, <2>3
    <3>3. pc'["recvLoop"] = pc["recvLoop"]
      BY <2>1
    <3>4. left["client"] \in Nat /\ Upstream \in Nat /\ inp \in Nat
      OBVIOUS
    <3> QED BY <3>1, <3>2, <3>3, <3>4
  <2>6. OutShape' /\ LateShape'
    BY <2>1
  <2> QED BY <2>4, <2>5, <2>6
<1>2. CASE HandlerLeave
  BY <1>2 DEF HandlerLeave
<1>3. CASE UpdateActiveTime
  BY <1>3 DEF UpdateActiveTime
<1>4. CASE HandlerSent
  BY <1>4 DEF HandlerSent
<1>5. CASE PusherCall
  BY <1>5 DEF PusherCall
<1>6. CASE PusherSent
  <2>1. /\ pc["pusher"] = "sent" /\ active' \in BOOLEAN
        /\ left' = [left EXCEPT !["pusher"] = @ - 1]
        /\ pc' = [pc EXCEPT !["pusher"] = "idle"]
        /\ ret' = [ret EXCEPT !["pusher"] = "none"]
        /\ late' = [late EXCEPT !["pusher"] = FALSE]
        /\ UNCHANGED <<ctx, conn, once, mu, listed, chans, out, tries, inp, peer, hist>>
    BY <1>6 DEF PusherSent
  <2>2. left'["pusher"] = left["pusher"] - 1 /\ left'["client"] = left["client"] /\ left["pusher"] > 0
    BY <2>1
  <2>3. Typed'
    BY <2>1, <2>2
  <2>4. OutShape'
    BY <2>1
  <2>5. InShape'
    BY <2>1, <2>2
  <2>6. LateShape'
    BY <2>1
  <2> QED BY <2>3, <2>4, <2>5, <2>6
<1> QED BY <1>1, <1>2, <1>3, <1>4, <1>5, <1>6 DEF Handler, Pusher

\* Every step preserves the invariant.
LEMMA LinkNext == LinkIInv /\ [Next]_vars => LinkIInv'
<1>1. ASSUME LinkIInv, UNCHANGED vars PROVE LinkIInv'
  BY <1>1 DEF LinkIInv, Typed, TypeOK, OutShape, InShape, LateShape, SendAfterCloseFails, Busy, Base,
              At, vars, life, chans, hist, sends
<1> QED BY <1>1, LifeIInv, SendLoopIInv, RecvLoopIInv, SendIInv, CallerIInv
        DEF Next, Step, Finished, Procs

\* The invariant holds of every behaviour.
LEMMA LinkInvariant == Spec => []LinkIInv
  BY LinkInit, LinkNext, PTL DEF Spec

-----------------------------------------------------------------------------
(* The theorems.                                                           *)

\* sendLoop writes the payloads that Send accepted in their order, each once,
\* whatever is retried, and the handler gets the client's messages in theirs:
\* a payload given up by sendWithRetry, or not handed over by receiveLoop, is
\* followed by nothing.
THEOREM LinkStreams == Spec => StreamsArePrefixes
<1>1. LinkIInv /\ [Next]_vars => [wire' \in {wire, wire + 1} /\ got' \in {got, got + 1}]_<<wire, got>>
  <2> SUFFICES ASSUME LinkIInv, [Next]_vars
               PROVE  wire' \in {wire, wire + 1} /\ got' \in {got, got + 1}
    OBVIOUS
  <2>1. CASE WriteOK
    BY <2>1 DEF WriteOK, LinkIInv, OutShape, Busy, At
  <2>2. CASE HandlerTake
    <3>1. Head(recvCh) = got + 1
      <4>1. recvCh \in Seq(Nat) /\ recvCh # <<>> /\ got \in Nat
        BY <2>2, LinkAssumption DEF HandlerTake, LinkIInv, Typed, TypeOK, LinkAssumption
      <4> QED BY <4>1, DequeueNext DEF LinkIInv, InShape
    <3> QED BY <2>2, <3>1 DEF HandlerTake
  <2>3. CASE UNCHANGED <<wire, got>>
    BY <2>3
  <2> QED BY <2>1, <2>2, <2>3 DEF Next, Step, Close, CloseEnter, CloseCancel, CloseConn, CloseReturn,
        SendLoop, SendLoopStop, SendLoopTake, SendLoopOpen, WriteTimeout, WriteError, BackoffOver,
        RecvLoop, RecvLoopCheck, ReadOK, ReadTimeout, ReadError, HandOver, RecvLoopShut,
        Send, SendClosed, SendEnqueue, SendRecheck, Handler, HandlerLeave, UpdateActiveTime,
        HandlerSent, Pusher, PusherCall, PusherSent, TryCloseIfIdle, ParentCancel, Unlisted, ClientGone,
        TimePasses, Finished, Jump, vars, hist
<1> QED BY <1>1, LinkInvariant, PTL DEF Spec, StreamsArePrefixes

\* A Send that begins on a closed link returns ErrLinkClosed: the select may
\* still choose the channel, the second look at the context cannot miss.
THEOREM LinkSendAfterClose == Spec => []SendAfterCloseFails
<1>1. LinkIInv => SendAfterCloseFails
  BY DEF LinkIInv, LateShape
<1> QED BY <1>1, LinkInvariant, PTL
=============================================================================
