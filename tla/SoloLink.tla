------------------------------ MODULE SoloLink ------------------------------
(***************************************************************************)
(* internal/link/link_v2.go and link_v3.go: the two rewrites of the link   *)
(* that serve a connection with one goroutine, readWriteLoop, instead of   *)
(* Link's sendLoop and receiveLoop.  They share Send, the write retries    *)
(* and idle closing; they differ in the loop and in the order of Close.    *)
(*                                                                         *)
(*   version 2  looks for a payload to write and otherwise reads for a     *)
(*              millisecond; a message that finds receiveCh full is        *)
(*              dropped;                                                   *)
(*   version 3  writes a batch, then reads with the full timeout and waits *)
(*              until receiveCh has room.                                  *)
(*                                                                         *)
(* Nothing constructs them yet: the callers are the goroutines that use a  *)
(* Link today, handleConn ("handler"), a push ("pusher") and the idle      *)
(* cleaner ("idler").  No OptionV3 sets a limiter, so reads are not        *)
(* rate-limited.                                                           *)
(***************************************************************************)
EXTENDS Integers, Sequences

CONSTANTS SendBuf,     \* cap(sendCh)
          RecvBuf,     \* cap(receiveCh)
          SendBatch,   \* sendBatch of version 3
          MaxRetries,  \* maxRetries of the write retry strategy
          Upstream,    \* how many messages the client sends
          Pushes       \* how many messages the pusher sends

ASSUME SoloAssumption ==
    /\ SendBuf \in Nat \ {0} /\ RecvBuf \in Nat \ {0} /\ SendBatch \in Nat \ {0}
    /\ MaxRetries \in Nat \ {0} /\ Upstream \in Nat /\ Pushes \in Nat

Procs == {"loop", "handler", "pusher", "idler"}
Senders == {"handler", "pusher"}

VARIABLES
    ver,       \* which of the two types this link is: 2 or 3
    pc,        \* where each goroutine is
    ctx,       \* the link's context: "open" or "done"
    conn,      \* the server side of the net.Conn: "open" or "closed"
    once,      \* progress of the closeOnce body: idle, cancel, conn, done
    mu,        \* holder of l.mu, or "free"
    active,    \* lastActiveTime is younger than the idle timeout
    sendCh, recvCh, recvShut,
    out,       \* payload the loop is writing
    tries,     \* retries the strategy has granted for it
    written,   \* i of version 3's batch loop
    inp,       \* payload the loop is handing over
    left,      \* messages the client and the pusher still have to send
    peer,      \* the client: "up" or "gone"
    accepted, wire, got   \* last payload queued, written, received by the handler

life  == <<ver, ctx, conn, once, mu, active>>
chans == <<sendCh, recvCh, recvShut>>
work  == <<out, tries, written, inp>>
env   == <<left, peer>>
hist  == <<accepted, wire, got>>
vars  == <<pc, life, chans, work, env, hist>>

Fresh ==
    /\ pc = [p \in Procs |-> CASE p = "loop" -> "top" [] p = "handler" -> "select"
                               [] OTHER -> "idle"]
    /\ ctx = "open" /\ conn = "open" /\ once = "idle" /\ mu = "free" /\ active = TRUE
    /\ sendCh = <<>> /\ recvCh = <<>> /\ recvShut = FALSE
    /\ out = 0 /\ tries = 0 /\ written = 0 /\ inp = 0
    /\ left = [client |-> Upstream, pusher |-> Pushes] /\ peer = "up"
    /\ accepted = 0 /\ wire = 0 /\ got = 0

NewV2 == ver = 2 /\ Fresh
NewV3 == ver = 3 /\ Fresh
Init == NewV2 \/ NewV3

At(p, l) == pc[p] = l
Goto(p, l) == pc' = [pc EXCEPT ![p] = l]

\* A step of goroutine p that changes nothing but where p is.
Jump(p, l) == Goto(p, l) /\ UNCHANGED <<life, chans, work, env, hist>>

-----------------------------------------------------------------------------
(* Close, under closeOnce.  Version 2 cancels before the close frame,      *)
(* version 3 after it, as Link does.  Every caller waits for the body.     *)
CloseV2(p) ==
    /\ ver = 2
    /\ At(p, "close") /\ once = "idle"
    /\ ctx' = "done" /\ once' = "conn"
    /\ Goto(p, "closing")
    /\ UNCHANGED <<ver, conn, mu, active, chans, work, env, hist>>

CloseV3(p) ==
    /\ ver = 3
    /\ \/ At(p, "close") /\ once = "idle" /\ once' = "cancel" /\ Goto(p, "closing")
          /\ UNCHANGED ctx
       \/ At(p, "closing") /\ once = "cancel" /\ once' = "conn" /\ ctx' = "done"
          /\ UNCHANGED pc
    /\ UNCHANGED <<ver, conn, mu, active, chans, work, env, hist>>

CloseConn(p) ==
    /\ At(p, "closing") /\ once = "conn"
    /\ conn' = "closed" /\ once' = "done"
    /\ UNCHANGED <<pc, ver, ctx, mu, active, chans, work, env, hist>>

CloseReturn(p) ==
    /\ pc[p] \in {"close", "closing"} /\ once = "done"
    /\ Goto(p, "done")
    /\ mu' = IF mu = p THEN "free" ELSE mu
    /\ UNCHANGED <<ver, ctx, conn, once, active, chans, work, env, hist>>

Close(p) == CloseV2(p) \/ CloseV3(p) \/ CloseConn(p) \/ CloseReturn(p)

\* The server's context, the parent of the link's, is cancelled by Stop.
ParentCancel ==
    /\ ctx = "open" /\ ctx' = "done"
    /\ UNCHANGED <<pc, ver, conn, once, mu, active, chans, work, env, hist>>

-----------------------------------------------------------------------------
(* The write retries.  Version 2 counts the attempts as well as asking the *)
(* strategy, version 3 only asks: both give up after 1 + MaxRetries.       *)
Granted == tries < MaxRetries
CouldRetryV2 == Granted /\ tries + 1 <= MaxRetries
CouldRetryV3 == Granted
CouldRetry == IF ver = 2 THEN CouldRetryV2 ELSE CouldRetryV3

\* Both versions look at the context before an attempt and while they back
\* off.  The check and the attempt are one step: a write that the cancellation
\* overtakes ends as one before it or as a failed one.
RetrySeesDone ==
    /\ At("loop", "write") \/ At("loop", "backoff")
    /\ ctx = "done"
    /\ Jump("loop", "shut")

WriteOK ==
    /\ At("loop", "write") /\ ctx = "open"
    /\ conn = "open" /\ peer = "up"
    /\ wire' = out
    /\ out' = 0 /\ tries' = 0 /\ written' = (IF ver = 3 THEN written + 1 ELSE 0)
    /\ Goto("loop", "top")
    /\ UNCHANGED <<life, chans, inp, env, accepted, got>>

\* A write that missed its deadline is retried; any other error, or the last
\* missed deadline, ends the loop.
WriteFails ==
    /\ At("loop", "write") /\ ctx = "open"
    /\ \/ CouldRetry /\ tries' = tries + 1 /\ Goto("loop", "backoff")
       \/ /\ ~CouldRetry \/ peer = "gone"
          /\ Goto("loop", "shut") /\ UNCHANGED tries
    /\ UNCHANGED <<life, chans, out, written, inp, env, hist>>

BackoffOver == At("loop", "backoff") /\ Jump("loop", "write")

WriteSteps == RetrySeesDone \/ WriteOK \/ WriteFails \/ BackoffOver
sendWithRetry == ver = 2 /\ WriteSteps
sendWithRetryInternal == ver = 3 /\ WriteSteps

-----------------------------------------------------------------------------
(* The head of the loop: a select over ctx.Done() and sendCh whose default *)
(* branch goes on to the read.                                             *)
TopStops ==
    /\ At("loop", "top") /\ ctx = "done"
    /\ Jump("loop", "shut")

TopTakes ==
    /\ At("loop", "top") /\ sendCh # <<>>
    /\ out' = Head(sendCh) /\ sendCh' = Tail(sendCh)
    /\ tries' = 0
    /\ Goto("loop", "write")
    /\ UNCHANGED <<life, recvCh, recvShut, written, inp, env, hist>>

TopReads ==
    /\ At("loop", "top")
    /\ written' = 0
    /\ Goto("loop", "read")
    /\ UNCHANGED <<life, chans, out, tries, inp, env, hist>>

TopV2 ==
    /\ ver = 2
    /\ TopStops \/ TopTakes \/ (ctx = "open" /\ sendCh = <<>> /\ TopReads)

\* After a full batch version 3 reads without looking at the context.
TopV3 ==
    /\ ver = 3
    /\ \/ written < SendBatch /\ (TopStops \/ TopTakes)
       \/ written < SendBatch /\ ctx = "open" /\ sendCh = <<>> /\ TopReads
       \/ written = SendBatch /\ TopReads

\* The deferred close(l.receiveCh), before the deferred Close.
LoopShut ==
    /\ At("loop", "shut")
    /\ recvShut' = TRUE
    /\ Goto("loop", "close")
    /\ UNCHANGED <<life, sendCh, recvCh, work, env, hist>>

-----------------------------------------------------------------------------
(* The read.                                                               *)
Received ==
    /\ conn = "open" /\ peer = "up" /\ left["client"] > 0
    /\ left' = [left EXCEPT !["client"] = @ - 1]
    /\ UNCHANGED <<life, sendCh, recvShut, out, tries, written, peer, hist>>
Message == Upstream - left["client"] + 1

NothingCame == At("loop", "read") /\ conn = "open" /\ peer = "up" /\ Jump("loop", "top")

\* Mutant: every read error is taken for a timeout.
ReadFailedV2_Timeout == "top"
\* A read error that is not a timeout leaves the loop.
ReadFailedV2 == "shut"

\* Version 2.  After the non-blocking hand-over the error is examined
\* although it is nil: it is no timeout, so the loop returns and the link
\* closes behind the first message.
ReadV2 ==
    /\ ver = 2 /\ At("loop", "read")
    /\ \/ /\ Received
          /\ recvCh' = IF Len(recvCh) < RecvBuf THEN Append(recvCh, Message) ELSE recvCh
          /\ Goto("loop", "shut")
          /\ UNCHANGED inp
       \/ NothingCame
       \/ (conn = "closed" \/ peer = "gone") /\ Jump("loop", ReadFailedV2)

ReadV3 ==
    /\ ver = 3 /\ At("loop", "read")
    /\ \/ /\ Received
          /\ inp' = Message
          /\ Goto("loop", "push")
          /\ UNCHANGED recvCh
       \/ NothingCame
       \/ (conn = "closed" \/ peer = "gone") /\ Jump("loop", "shut")

\* Mutant: version 2's hand-over, which drops what does not fit.
Delivered_Drop == IF Len(recvCh) < RecvBuf THEN Append(recvCh, inp) ELSE recvCh
\* receiveCh once it has room.
Delivered == Append(recvCh, inp)

\* Mutant: a plain channel send, without the select on ctx.Done().
DeliveryStops_Never == FALSE
DeliveryStops == ctx = "done"

\* Version 3 hands over with a blocking select; nothing is written meanwhile.
DeliverV3 ==
    /\ ver = 3 /\ At("loop", "push")
    /\ \/ DeliveryStops /\ Goto("loop", "shut") /\ UNCHANGED recvCh
       \/ /\ recvCh' = Delivered /\ Len(recvCh') <= RecvBuf
          /\ Goto("loop", "top")
    /\ inp' = 0
    /\ UNCHANGED <<life, sendCh, recvShut, out, tries, written, env, hist>>

readWriteLoop ==
    \/ TopV2 \/ ReadV2 \/ sendWithRetry
    \/ TopV3 \/ ReadV3 \/ DeliverV3 \/ sendWithRetryInternal
    \/ LoopShut

-----------------------------------------------------------------------------
(* Send, the same in both versions: the select may pick the channel branch *)
(* of a closed link, so the context is looked at again.  Where a sender    *)
(* goes next is its return value.                                          *)
SendStep(p) ==
    \/ /\ At(p, "send") /\ ctx = "done"
       /\ Jump(p, "refused")
    \/ /\ At(p, "send") /\ Len(sendCh) < SendBuf
       /\ accepted' = accepted + 1
       /\ sendCh' = Append(sendCh, accepted')
       /\ Goto(p, "recheck")
       /\ UNCHANGED <<life, recvCh, recvShut, work, env, wire, got>>
    \/ /\ At(p, "recheck")
       /\ Jump(p, IF ctx = "done" THEN "refused" ELSE "sent")

SendV2(p) == ver = 2 /\ SendStep(p)
SendV3(p) == ver = 3 /\ SendStep(p)

\* UpdateActiveTime runs under l.mu and only touches an open link.
Touch == mu = "free" /\ active' = (active \/ ctx = "open")
UpdateActiveTimeV2 == ver = 2 /\ Touch
UpdateActiveTimeV3 == ver = 3 /\ Touch
UpdateActiveTime == UpdateActiveTimeV2 \/ UpdateActiveTimeV3

\* TryCloseIfIdle keeps l.mu while it closes; on a closed link it is done.
\* The links here have autoClose set.
IdleStep ==
    /\ At("idler", "idle") /\ mu = "free"
    /\ \/ ctx = "done" /\ Goto("idler", "done") /\ UNCHANGED mu
       \/ ctx = "open" /\ ~active /\ Goto("idler", "close") /\ mu' = "idler"
    /\ UNCHANGED <<ver, ctx, conn, once, active, chans, work, env, hist>>
TryCloseIfIdleV2 == ver = 2 /\ IdleStep
TryCloseIfIdleV3 == ver = 3 /\ IdleStep

-----------------------------------------------------------------------------
(* The callers, as in module Link.                                         *)
Handler ==
    \/ /\ At("handler", "select") /\ recvCh # <<>>
       /\ got' = Head(recvCh) /\ recvCh' = Tail(recvCh)
       /\ Goto("handler", "update")
       /\ UNCHANGED <<life, sendCh, recvShut, work, env, accepted, wire>>
    \/ /\ At("handler", "select")
       /\ ctx = "done" \/ (recvShut /\ recvCh = <<>>)
       /\ Jump("handler", "close")
    \/ /\ At("handler", "update")
       /\ UpdateActiveTime
       /\ Goto("handler", "send")
       /\ UNCHANGED <<ver, ctx, conn, once, mu, chans, work, env, hist>>
    \/ At("handler", "sent") /\ Jump("handler", "select")
    \/ At("handler", "refused") /\ Jump("handler", "close")

Pushed ==
    /\ \/ At("pusher", "refused") /\ UNCHANGED active
       \/ At("pusher", "sent") /\ UpdateActiveTime
    /\ left' = [left EXCEPT !["pusher"] = @ - 1]
    /\ Goto("pusher", "idle")
    /\ UNCHANGED <<ver, ctx, conn, once, mu, chans, work, peer, hist>>

PusherCall ==
    /\ At("pusher", "idle") /\ left["pusher"] > 0
    /\ Jump("pusher", "send")

ClientGone ==
    /\ peer = "up" /\ peer' = "gone"
    /\ UNCHANGED <<pc, life, chans, work, left, hist>>

\* On a closed link nobody asks for the time any more.
TimePasses ==
    /\ ctx = "open" /\ active /\ active' = FALSE
    /\ UNCHANGED <<pc, ver, ctx, conn, once, mu, chans, work, env, hist>>

Step(p) ==
    \/ p # "pusher" /\ Close(p)
    \/ p \in Senders /\ (SendV2(p) \/ SendV3(p))
    \/ p = "loop" /\ readWriteLoop
    \/ p = "handler" /\ Handler
    \/ p = "pusher" /\ Pushed
    \/ p = "idler" /\ (TryCloseIfIdleV2 \/ TryCloseIfIdleV3)

Finished ==
    /\ \A p \in Procs \ {"pusher"} : At(p, "done")
    /\ At("pusher", "idle")
    /\ UNCHANGED vars

Next ==
    \/ \E p \in Procs : Step(p)
    \/ PusherCall \/ ParentCancel \/ ClientGone \/ TimePasses
    \/ Finished

\* A goroutine that can run eventually runs; reads and writes carry a
\* deadline.  The idle cleaner is not relied on, nor any client, push or stop.
Fairness ==
    /\ \A p \in Senders \union {"loop"} : WF_vars(Step(p))
    /\ WF_vars(Close("idler"))

Spec == Init /\ [][Next]_vars /\ Fairness

-----------------------------------------------------------------------------
\* The client gets the payloads in the order Send queued them and without a
\* hole, although writes are retried.  Version 3 hands every message it reads
\* to the handler in order, however slow the handler is; version 2 may drop
\* one, but never swaps two.
InOrder ==
    [][/\ wire' \in {wire, wire + 1}
       /\ got' >= got
       /\ ver = 3 => got' \in {got, got + 1}]_<<wire, got>>

\* Once the link is closed, by whomever, the loop and the handler end, also
\* when they wait for each other, and the connection is closed.
ClosedLinkEnds ==
    (ctx = "done") ~>
        (At("loop", "done") /\ At("handler", "done") /\ conn = "closed" /\ mu = "free")

\* The one way in which the single goroutine can be stuck: it waits for room
\* in receiveCh while the handler waits, in Send, for room in sendCh.
Jammed ==
    /\ ver = 3 /\ At("loop", "push") /\ Len(recvCh) = RecvBuf
    /\ At("handler", "send") /\ Len(sendCh) = SendBuf

\* A client that has gone is noticed and the link closed, unless the link is
\* jammed: then only somebody else's Close ends it.  Version 2 never jams.
PeerLossEnds == (peer = "gone") ~> (ctx = "done" \/ Jammed)
=============================================================================
