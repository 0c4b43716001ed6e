-------------------------------- MODULE Link --------------------------------
(***************************************************************************)
(* internal/link/link.go: one client connection of the gateway.            *)
(*                                                                         *)
(* Five goroutines meet on a link: its own sendLoop and receiveLoop, the   *)
(* handleConn goroutine that consumes receiveCh and answers the client     *)
(* ("handler"), a goroutine that pushes a backend message ("pusher"), and  *)
(* the idle cleaner ("idler").  Any of them may call Close; closeOnce      *)
(* lets the first one run the three steps of the body and the others wait  *)
(* for its end.  The network is external: a write may succeed, time out or *)
(* fail; a read may time out; the client may vanish.                       *)
(***************************************************************************)
EXTENDS Integers, Sequences

CONSTANTS SendBuf,     \* cap(sendCh)
          RecvBuf,     \* cap(receiveCh)
          MaxRetries,  \* maxRetries of the write retry strategy
          AutoClose,   \* the session allows idle closing
          Upstream,    \* how many messages the client sends
          Pushes       \* how many messages the pusher sends

ASSUME LinkAssumption ==
    /\ SendBuf \in Nat \ {0} /\ RecvBuf \in Nat \ {0}
    /\ MaxRetries \in Nat \ {0}
    /\ AutoClose \in BOOLEAN
    /\ Upstream \in Nat /\ Pushes \in Nat

Procs == {"sendLoop", "recvLoop", "handler", "pusher", "idler"}
Senders == {"handler", "pusher"}

VARIABLES
    pc,        \* where each goroutine is
    ctx,       \* the link's context: "open" or "done"
    conn,      \* the server side of the net.Conn: "open" or "closed"
    once,      \* progress of the closeOnce body: idle, cancel, conn, done
    mu,        \* holder of l.mu, or "free"
    active,    \* lastActiveTime is younger than the idle timeout
    listed,    \* the link is the one that Manager.links has for its user
    sendCh,    \* buffered channel to sendLoop
    recvCh,    \* buffered channel to the handler
    recvShut,  \* receiveCh is closed
    out,       \* payload sendLoop is writing
    tries,     \* retries the strategy has granted for it
    inp,       \* payload receiveLoop is handing over
    left,      \* messages the client and the pusher still have to send
    peer,      \* the client: "up", "gone" (the socket reports it) or "lost"
               \* (silently unreachable: nothing but deadlines tells)
    accepted,  \* number of payloads that entered sendCh: a payload is its number
    wire,      \* number of the last payload written to the client
    got,       \* number of the last payload the handler received
    late,      \* the pending Send of a sender began on a closed link
    ret        \* what the last Send of a sender returned

life  == <<ctx, conn, once, mu, active, listed>>
chans == <<sendCh, recvCh, recvShut>>
hist  == <<accepted, wire, got>>
sends == <<late, ret>>
vars  == <<pc, life, chans, out, tries, inp, left, peer, hist, sends>>

Init ==
    /\ pc = [p \in Procs |-> CASE p = "sendLoop" -> "select"
                               [] p = "recvLoop" -> "check"
                               [] p = "handler"  -> "select"
                               [] OTHER          -> "idle"]
    /\ ctx = "open" /\ conn = "open" /\ once = "idle"
    /\ mu = "free" /\ active = TRUE /\ listed = TRUE
    /\ sendCh = <<>> /\ recvCh = <<>> /\ recvShut = FALSE
    /\ out = 0 /\ tries = 0 /\ inp = 0
    /\ left = [client |-> Upstream, pusher |-> Pushes]
    /\ peer = "up"
    /\ accepted = 0 /\ wire = 0 /\ got = 0
    /\ late = [p \in Senders |-> FALSE]
    /\ ret = [p \in Senders |-> "none"]

Goto(p, l) == pc' = [pc EXCEPT ![p] = l]
At(p, l) == pc[p] = l

\* A step of goroutine p that changes nothing but where p is.
Jump(p, l) ==
    /\ Goto(p, l)
    /\ UNCHANGED <<life, chans, out, tries, inp, left, peer, hist, sends>>

-----------------------------------------------------------------------------
(* Close: the first caller writes the close frame (its outcome is ignored),*)
(* cancels the context and closes the connection; every caller returns     *)
(* when that is done.                                                      *)

CloseEnter(p) ==
    /\ At(p, "close") /\ once = "idle"
    /\ once' = "cancel"
    /\ Goto(p, "closing")
    /\ UNCHANGED <<ctx, conn, mu, active, listed, chans, out, tries, inp, left, peer, hist, sends>>

CloseCancel(p) ==
    /\ At(p, "closing") /\ once = "cancel"
    /\ ctx' = "done"
    /\ once' = "conn"
    /\ UNCHANGED <<pc, conn, mu, active, listed, chans, out, tries, inp, left, peer, hist, sends>>

CloseConn(p) ==
    /\ At(p, "closing") /\ once = "conn"
    /\ conn' = "closed"
    /\ once' = "done"
    /\ UNCHANGED <<pc, ctx, mu, active, listed, chans, out, tries, inp, left, peer, hist, sends>>

\* closeOnce.Do returns, to whoever called it, when the body has run.
OnceOver(p) == once = "done"

\* Mutant: TryCloseIfIdle leaves without unlocking l.mu.
Unlocked_Never(p) == mu
\* TryCloseIfIdle's deferred Unlock.
Unlocked(p) == IF mu = p THEN "free" ELSE mu

CloseReturn(p) ==
    /\ pc[p] \in {"close", "closing"}
    /\ OnceOver(p)
    /\ Goto(p, "done")
    /\ mu' = Unlocked(p)
    /\ UNCHANGED <<ctx, conn, once, active, listed, chans, out, tries, inp, left, peer, hist, sends>>

Close(p) == CloseEnter(p) \/ CloseCancel(p) \/ CloseConn(p) \/ CloseReturn(p)

\* The server's context, the parent of the link's, is cancelled by Stop.
ParentCancel ==
    /\ ctx = "open"
    /\ ctx' = "done"
    /\ UNCHANGED <<pc, conn, once, mu, active, listed, chans, out, tries, inp, left, peer, hist, sends>>

-----------------------------------------------------------------------------
(* sendLoop and sendWithRetry.                                             *)
SendLoopStop ==
    /\ At("sendLoop", "select") \/ At("sendLoop", "check") \/ At("sendLoop", "backoff")
    /\ ctx = "done"
    /\ Jump("sendLoop", "close")

SendLoopTake ==
    /\ At("sendLoop", "select")
    /\ sendCh # <<>>
    /\ out' = Head(sendCh)
    /\ sendCh' = Tail(sendCh)
    /\ tries' = 0
    /\ Goto("sendLoop", "check")
    /\ UNCHANGED <<life, recvCh, recvShut, inp, left, peer, hist, sends>>

SendLoopOpen ==
    /\ At("sendLoop", "check")
    /\ ctx = "open"
    /\ Jump("sendLoop", "write")

WriteOK ==
    /\ At("sendLoop", "write")
    /\ conn = "open" /\ peer # "gone"
    /\ wire' = out
    /\ out' = 0 /\ tries' = 0
    /\ Goto("sendLoop", "select")
    /\ UNCHANGED <<life, chans, inp, left, peer, accepted, got, sends>>

\* retryStrategy.Next grants MaxRetries retries.
CouldRetry == tries < MaxRetries

\* Mutant: a payload that could not be sent is skipped.
GiveUp_Skip == "select"
\* sendWithRetry returned false: sendLoop ends and closes the link.
GiveUp == "close"

\* A write that missed its deadline is retried while the strategy allows.
WriteTimeout ==
    /\ At("sendLoop", "write")
    /\ conn = "open"
    /\ IF CouldRetry
         THEN tries' = tries + 1 /\ Goto("sendLoop", "backoff")
         ELSE UNCHANGED tries /\ Goto("sendLoop", GiveUp)
    /\ UNCHANGED <<life, chans, out, inp, left, peer, hist, sends>>

WriteError ==
    /\ At("sendLoop", "write")
    /\ conn = "closed" \/ peer = "gone"
    /\ Jump("sendLoop", GiveUp)

BackoffOver ==
    /\ At("sendLoop", "backoff")
    /\ Jump("sendLoop", "check")

SendLoop ==
    \/ SendLoopStop \/ SendLoopTake \/ SendLoopOpen
    \/ WriteOK \/ WriteTimeout \/ WriteError \/ BackoffOver

-----------------------------------------------------------------------------
(* receiveLoop.                                                            *)
RecvLoopCheck ==
    /\ At("recvLoop", "check")
    /\ Jump("recvLoop", IF ctx = "done" THEN "shut" ELSE "read")

ReadOK ==
    /\ At("recvLoop", "read")
    /\ conn = "open" /\ peer = "up"
    /\ left["client"] > 0
    /\ inp' = Upstream - left["client"] + 1
    /\ left' = [left EXCEPT !["client"] = @ - 1]
    /\ Goto("recvLoop", "push")
    /\ UNCHANGED <<life, chans, out, tries, peer, hist, sends>>

ReadTimeout ==
    /\ At("recvLoop", "read")
    /\ conn = "open" /\ peer # "gone"
    /\ Jump("recvLoop", "check")

\* Any other read error ends the loop.
ReadFailed == "shut"

\* The client closed or broke the connection, or Close did.
ReadError ==
    /\ At("recvLoop", "read")
    /\ conn = "closed" \/ peer = "gone"
    /\ Jump("recvLoop", ReadFailed)

\* Mutant: a plain channel send, without the select on ctx.Done().
HandOverStops_Never == FALSE
HandOverStops == ctx = "done"

\* The payload goes to the handler, unless the link closes first.
HandOver ==
    /\ At("recvLoop", "push")
    /\ \/ HandOverStops /\ Goto("recvLoop", "shut") /\ UNCHANGED recvCh
       \/ /\ Len(recvCh) < RecvBuf
          /\ recvCh' = Append(recvCh, inp)
          /\ Goto("recvLoop", "check")
    /\ inp' = 0
    /\ UNCHANGED <<life, sendCh, recvShut, out, tries, left, peer, hist, sends>>

\* The deferred close(l.receiveCh), before the deferred Close.
RecvLoopShut ==
    /\ At("recvLoop", "shut")
    /\ recvShut' = TRUE
    /\ Goto("recvLoop", "close")
    /\ UNCHANGED <<life, sendCh, recvCh, out, tries, inp, left, peer, hist, sends>>

RecvLoop ==
    RecvLoopCheck \/ ReadOK \/ ReadTimeout \/ ReadError \/ HandOver \/ RecvLoopShut

-----------------------------------------------------------------------------
(* Send, as called by the handler and by a pusher.                         *)
\* Mutant: Send does not listen to ctx.Done() while it waits for room.
SendSeesDone_Deaf == ctx = "done" /\ Len(sendCh) < SendBuf
SendSeesDone == ctx = "done"

SendClosed(p) ==
    /\ At(p, "send")
    /\ SendSeesDone
    /\ ret' = [ret EXCEPT ![p] = "closed"]
    /\ Goto(p, "sent")
    /\ UNCHANGED <<life, chans, out, tries, inp, left, peer, hist, late>>

SendEnqueue(p) ==
    /\ At(p, "send")
    /\ Len(sendCh) < SendBuf
    /\ accepted' = accepted + 1
    /\ sendCh' = Append(sendCh, accepted')
    /\ Goto(p, "recheck")
    /\ UNCHANGED <<life, recvCh, recvShut, out, tries, inp, left, peer, wire, got, sends>>

\* Mutant: the context is not looked at again after the enqueue.
SendResult_Blind == "ok"
SendResult == IF ctx = "done" THEN "closed" ELSE "ok"

SendRecheck(p) ==
    /\ At(p, "recheck")
    /\ ret' = [ret EXCEPT ![p] = SendResult]
    /\ Goto(p, "sent")
    /\ UNCHANGED <<life, chans, out, tries, inp, left, peer, hist, late>>

Send(p) == SendClosed(p) \/ SendEnqueue(p) \/ SendRecheck(p)

-----------------------------------------------------------------------------
(* The callers.  handleConn's loop answers every message (the event        *)
(* handler's Send) and leaves on a closed channel, a closed link or        *)
(* ErrLinkClosed; its deferred calls close the link.                       *)
HandlerTake ==
    /\ At("handler", "select")
    /\ recvCh # <<>>
    /\ got' = Head(recvCh)
    /\ recvCh' = Tail(recvCh)
    /\ Goto("handler", "update")
    /\ UNCHANGED <<life, sendCh, recvShut, out, tries, inp, left, peer, accepted, wire, sends>>

HandlerLeave ==
    /\ At("handler", "select")
    /\ ctx = "done" \/ (recvShut /\ recvCh = <<>>)
    /\ Jump("handler", "close")

\* UpdateActiveTime runs under l.mu and only on an open link; then the
\* handler calls Send.
UpdateActiveTime ==
    /\ At("handler", "update")
    /\ mu = "free"
    /\ active' = (active \/ ctx = "open")
    /\ late' = [late EXCEPT !["handler"] = ctx = "done"]
    /\ Goto("handler", "send")
    /\ UNCHANGED <<ctx, conn, once, mu, listed, chans, out, tries, inp, left, peer, hist, ret>>

HandlerSent ==
    /\ At("handler", "sent")
    /\ Goto("handler", IF ret["handler"] = "closed" THEN "close" ELSE "select")
    /\ ret' = [ret EXCEPT !["handler"] = "none"]
    /\ late' = [late EXCEPT !["handler"] = FALSE]
    /\ UNCHANGED <<life, chans, out, tries, inp, left, peer, hist>>

PusherCall ==
    /\ At("pusher", "idle")
    /\ left["pusher"] > 0
    /\ late' = [late EXCEPT !["pusher"] = ctx = "done"]
    /\ Goto("pusher", "send")
    /\ UNCHANGED <<life, chans, out, tries, inp, left, peer, hist, ret>>

\* A push that succeeded ends with UpdateActiveTime.
PusherSent ==
    /\ At("pusher", "sent")
    /\ IF ret["pusher"] = "ok"
         THEN mu = "free" /\ active' = (active \/ ctx = "open")
         ELSE UNCHANGED active
    /\ left' = [left EXCEPT !["pusher"] = @ - 1]
    /\ Goto("pusher", "idle")
    /\ ret' = [ret EXCEPT !["pusher"] = "none"]
    /\ late' = [late EXCEPT !["pusher"] = FALSE]
    /\ UNCHANGED <<ctx, conn, once, mu, listed, chans, out, tries, inp, peer, hist>>

\* CleanIdleLinks calls TryCloseIfIdle of the links in the map and of no other.
\* It keeps l.mu while it closes; with a closed or an active link it does
\* nothing.
TryCloseIfIdle ==
    /\ At("idler", "idle") /\ listed
    /\ mu = "free"
    /\ ctx = "open" /\ AutoClose /\ ~active
    /\ Goto("idler", "close")
    /\ mu' = "idler"
    /\ UNCHANGED <<ctx, conn, once, active, listed, chans, out, tries, inp, left, peer, hist, sends>>

Handler == HandlerTake \/ HandlerLeave \/ UpdateActiveTime \/ HandlerSent
Pusher  == PusherCall \/ PusherSent

-----------------------------------------------------------------------------
(* The environment: a reconnect, the client leaves or is cut off, time     *)
(* passes without activity.                                                *)

\* NewLink of the user's next connection stores that one under the same ID, or
\* the handler of an earlier connection removes the ID.  On a closed link,
\* which the cleaner leaves alone, it makes no difference and is left out.
Unlisted ==
    /\ ctx = "open" /\ listed
    /\ listed' = FALSE
    /\ UNCHANGED <<pc, ctx, conn, once, mu, active, chans, out, tries, inp, left, peer, hist, sends>>

ClientGone ==
    /\ peer = "up"
    /\ peer' \in {"gone", "lost"}
    /\ UNCHANGED <<pc, ctx, conn, once, mu, active, listed, chans, out, tries, inp, left, hist, sends>>

TimePasses ==
    /\ AutoClose /\ active /\ active' = FALSE
    /\ UNCHANGED <<pc, ctx, conn, once, mu, listed, chans, out, tries, inp, left, peer, hist, sends>>

Step(p) ==
    \/ p # "pusher" /\ Close(p)
    \/ p = "sendLoop" /\ SendLoop
    \/ p = "recvLoop" /\ RecvLoop
    \/ p \in Senders  /\ Send(p)
    \/ p = "handler"  /\ Handler
    \/ p = "pusher"   /\ Pusher
    \/ p = "idler"    /\ TryCloseIfIdle

\* Everything the link started has ended: the only state in which nothing
\* can happen any more.
Finished ==
    /\ \A p \in {"sendLoop", "recvLoop", "handler"} : At(p, "done")
    /\ At("pusher", "idle") /\ pc["idler"] \in {"idle", "done"}
    /\ UNCHANGED vars

Next ==
    \/ \E p \in Procs : Step(p)
    \/ ParentCancel \/ Unlisted \/ ClientGone \/ TimePasses
    \/ Finished

\* A goroutine that can run eventually runs; reads and writes carry a
\* deadline, so they return.  The idle cleaner comes back to the links that are
\* listed (TryCloseIfIdle is enabled for no other).  Nothing is assumed of the
\* client, of a reconnect, of the server's shutdown, or of a new push.
Fairness ==
    /\ \A p \in Procs \ {"pusher"} : WF_vars(Step(p))
    /\ WF_vars(Send("pusher") \/ PusherSent)
    /\ WF_vars(TimePasses)

Spec == Init /\ [][Next]_vars /\ Fairness

-----------------------------------------------------------------------------
Labels == {"select", "check", "write", "backoff", "read", "push", "shut", "idle", "update",
           "send", "recheck", "sent", "close", "closing", "done"}

TypeOK ==
    /\ pc \in [Procs -> Labels]
    /\ ctx \in {"open", "done"} /\ conn \in {"open", "closed"}
    /\ once \in {"idle", "cancel", "conn", "done"}
    /\ mu \in {"free", "idler"} /\ active \in BOOLEAN /\ listed \in BOOLEAN
    /\ Len(sendCh) <= SendBuf /\ Len(recvCh) <= RecvBuf
    /\ recvShut \in BOOLEAN
    /\ tries \in 0..MaxRetries
    /\ left["client"] \in 0..Upstream /\ left["pusher"] \in 0..Pushes
    /\ wire \in 0..accepted /\ got \in 0..Upstream
    /\ peer \in {"up", "gone", "lost"}
    /\ ret \in [Senders -> {"none", "ok", "closed"}]

\* What the client gets is a prefix of what Send accepted: retries neither
\* duplicate nor reorder a message, and a message that could not be written
\* ends the stream instead of leaving a hole in it.  Likewise the handler gets
\* the client's messages in order and without a hole.
StreamsArePrefixes ==
    [][wire' \in {wire, wire + 1} /\ got' \in {got, got + 1}]_<<wire, got>>

\* A Send that begins on a closed link returns ErrLinkClosed although the
\* select may pick the channel branch.
SendAfterCloseFails ==
    \A p \in Senders : (At(p, "sent") /\ late[p]) => ret[p] = "closed"

\* Nothing of the link is left: its goroutines have returned, the connection
\* is closed and nobody holds l.mu.
Ended ==
    /\ \A p \in {"sendLoop", "recvLoop", "handler"} : At(p, "done")
    /\ conn = "closed"
    /\ mu = "free"

\* Once the link is closed, by whomever, its goroutines end, the connection
\* is closed and no goroutine stays blocked in Send or in the hand-over.
ClosedLinkStops == (ctx = "done") ~> Ended

\* A reconnect of the user came before the idle cleaner.
Overtaken == ~listed /\ At("idler", "idle")

\* receiveLoop keeps reading after a timeout, so a client that was cut off
\* silently is only found by the idle cleaner, and only with AutoClose.  The
\* cleaner closes under l.mu, which handler and pusher need: unless a reconnect
\* took the link's place in the map before that, it ends completely.
LostPeerCleaned == (AutoClose /\ peer = "lost") ~> (Ended \/ Overtaken)

\* Send may block on a full buffer, but never for ever.
SendReturns == \A p \in Senders : []<>~At(p, "send")
=============================================================================
