--------------------------- MODULE SoloLinkProofs ---------------------------
(***************************************************************************)
(* The single-goroutine links, for any buffer sizes, batch size, retry     *)
(* limit and number of messages: neither version puts a hole into the      *)
(* stream to the client, version 3 puts none into the stream to the        *)
(* handler, and version 2 keeps its order.                                 *)
(***************************************************************************)
EXTENDS SoloLink, SequenceTheorems, TLAPS

Labels == {"top", "write", "backoff", "read", "push", "shut", "close", "closing", "done",
           "select", "update", "send", "recheck", "sent", "refused", "idle"}

\* The types of what the streams depend on.
SoloTyped ==
    /\ ver \in {2, 3} /\ pc \in [Procs -> Labels]
    /\ sendCh \in Seq(Nat) /\ recvCh \in Seq(Nat)
    /\ {out, inp, accepted, wire, got} \subseteq Nat
    /\ left \in [{"client", "pusher"} -> Int] /\ left["client"] \in 0..Upstream

\* The loop is at work on a payload, or still going to take some.
Writing == pc["loop"] \in {"write", "backoff"}
Running == pc["loop"] \in {"top", "write", "backoff", "read", "push"}
Base == IF Writing THEN wire + 1 ELSE wire

\* As long as the loop has not given up, its payload and those in sendCh are
\* the ones that follow what is on the wire, up to the last one accepted.
SoloOut ==
    /\ Writing => out = wire + 1
    /\ Running =>
         /\ accepted = Base + Len(sendCh)
         /\ \A i \in 1..Len(sendCh) : sendCh[i] = Base + i

\* How many messages the client has sent.
Sent == Upstream - left["client"]

\* Version 3: receiveCh holds the messages that follow what the handler has
\* got, the loop's is the next, and nothing is missing up to the last one.
SoloInV3 ==
    ver = 3 =>
      /\ \A i \in 1..Len(recvCh) : recvCh[i] = got + i
      /\ pc["loop"] \in {"top", "write", "backoff", "read"} => got + Len(recvCh) = Sent
      /\ pc["loop"] = "push" => inp = got + Len(recvCh) + 1 /\ inp = Sent

\* Version 2: what is in receiveCh is in order, newer than what the handler
\* has got and not newer than the last message.
SoloInV2 ==
    ver = 2 =>
      /\ got <= Sent
      /\ \A i \in 1..Len(recvCh) : got < recvCh[i] /\ recvCh[i] <= Sent
      /\ \A i, j \in 1..Len(recvCh) : i < j => recvCh[i] < recvCh[j]

SoloIInv == SoloTyped /\ SoloOut /\ SoloInV3 /\ SoloInV2

\* What InOrder says of a step.
Ordered ==
    /\ wire' \in {wire, wire + 1}
    /\ got' >= got
    /\ ver = 3 => got' \in {got, got + 1}

-----------------------------------------------------------------------------
(* Channels.                                                               *)

\* A payload put into a channel is its last one.
LEMMA AppendFacts ==
  ASSUME NEW s \in Seq(Nat), NEW x \in Nat
  PROVE  /\ Append(s, x) \in Seq(Nat) /\ Len(s) \in Nat /\ Len(Append(s, x)) = Len(s) + 1
         /\ \A i \in 1..(Len(s) + 1) : Append(s, x)[i] = IF i = Len(s) + 1 THEN x ELSE s[i]
  OBVIOUS

\* One taken out is its first one.
LEMMA TakeFacts ==
  ASSUME NEW s \in Seq(Nat), s # <<>>
  PROVE  /\ Head(s) = s[1] /\ Head(s) \in Nat /\ Len(s) \in Nat /\ Len(s) >= 1
         /\ Tail(s) \in Seq(Nat) /\ Len(Tail(s)) = Len(s) - 1
         /\ \A i \in 1..(Len(s) - 1) : Tail(s)[i] = s[i + 1]
  OBVIOUS

\* Consecutive numbers with the next one put in ...
LEMMA AppendNext ==
  ASSUME NEW s \in Seq(Nat), NEW b \in Nat, \A i \in 1..Len(s) : s[i] = b + i
  PROVE  \A i \in 1..Len(Append(s, b + Len(s) + 1)) : Append(s, b + Len(s) + 1)[i] = b + i
<1>1. PICK k \in Nat : k = Len(s)
  OBVIOUS
<1>2. PICK x \in Nat : x = b + k + 1
  OBVIOUS
<1>3. PICK t \in Seq(Nat) : t = Append(s, x)
  BY AppendFacts
<1>4. Len(t) = k + 1 /\ \A i \in 1..(k + 1) : t[i] = IF i = k + 1 THEN x ELSE s[i]
  BY <1>1, <1>3, AppendFacts
<1>5. ASSUME NEW i \in 1..(k + 1) PROVE t[i] = b + i
  <2>1. CASE i = k + 1
    BY <1>2, <1>4, <2>1
  <2>2. CASE i # k + 1
    <3>1. i \in 1..k /\ t[i] = s[i]
      BY <1>4, <2>2
    <3> QED BY <1>1, <3>1
  <2> QED BY <2>1, <2>2
<1> QED BY <1>1, <1>2, <1>3, <1>4, <1>5

\* ... and with the first one taken out.
LEMMA TakeNext ==
  ASSUME NEW s \in Seq(Nat), NEW b \in Nat, s # <<>>, \A i \in 1..Len(s) : s[i] = b + i
  PROVE  Head(s) = b + 1 /\ \A i \in 1..Len(Tail(s)) : Tail(s)[i] = (b + 1) + i
<1>1. PICK k \in Nat : k = Len(s) /\ k >= 1
  BY TakeFacts
<1>2. PICK t \in Seq(Nat) : t = Tail(s)
  BY TakeFacts
<1>3. Len(t) = k - 1 /\ (\A i \in 1..(k - 1) : t[i] = s[i + 1]) /\ Head(s) = s[1]
  BY <1>1, <1>2, TakeFacts
<1>4. \A i \in 1..Len(t) : t[i] = (b + 1) + i
  BY <1>1, <1>3
<1> QED BY <1>1, <1>2, <1>3, <1>4

-----------------------------------------------------------------------------
(* The steps.                                                              *)

\* A new link of either version.
LEMMA SoloInit == Init => SoloIInv
<1> SUFFICES ASSUME Init PROVE SoloIInv
  OBVIOUS
<1> USE SoloAssumption DEF SoloAssumption
<1>1. Fresh /\ ver \in {2, 3}
  BY DEF Init, NewV2, NewV3
<1>2. pc \in [Procs -> Labels] /\ pc["loop"] = "top"
  BY <1>1 DEF Fresh, Procs, Labels
<1>3. /\ sendCh = <<>> /\ recvCh = <<>> /\ Len(sendCh) = 0 /\ Len(recvCh) = 0
      /\ out = 0 /\ inp = 0 /\ accepted = 0 /\ wire = 0 /\ got = 0
  BY <1>1 DEF Fresh
<1>4. left \in [{"client", "pusher"} -> Int] /\ left["client"] = Upstream
  BY <1>1 DEF Fresh
<1>5. SoloTyped
  BY <1>1, <1>2, <1>3, <1>4 DEF SoloTyped
<1>6. SoloOut
  BY <1>2, <1>3 DEF SoloOut, Writing, Running, Base
<1>7. SoloInV3 /\ SoloInV2
  BY <1>2, <1>3, <1>4 DEF SoloInV3, SoloInV2, Sent
<1> QED BY <1>5, <1>6, <1>7 DEF SoloIInv

\* A step that moves no payload: the loop stays where it is, goes on with its
\* write, passes from the writing to the reading half or back, or stops.
Quiet ==
    /\ pc' \in [Procs -> Labels] /\ {out', inp'} \subseteq Nat
    /\ left' \in [{"client", "pusher"} -> Int] /\ left'["client"] = left["client"]
    /\ UNCHANGED <<ver, sendCh, recvCh, accepted, wire, got>>
    /\ \/ pc'["loop"] = pc["loop"] /\ UNCHANGED <<out, inp>>
       \/ Writing /\ Writing' /\ UNCHANGED <<out, inp>>
       \/ {pc["loop"], pc'["loop"]} \subseteq {"top", "read"}
       \/ ~Running'

\* It keeps the invariant.
LEMMA SoloQuiet == ASSUME SoloIInv, Quiet PROVE SoloIInv' /\ Ordered
<1> USE DEF SoloIInv, Quiet
<1>1. SoloTyped'
  BY DEF SoloTyped
<1>2. Sent' = Sent
  BY DEF Sent
<1>3. SoloOut'
  <2>1. CASE pc'["loop"] = pc["loop"] /\ UNCHANGED <<out, inp>>
    BY <2>1 DEF SoloOut, Writing, Running, Base
  <2>2. CASE Writing /\ Writing' /\ UNCHANGED <<out, inp>>
    BY <2>2 DEF SoloOut, Writing, Running, Base
  <2>3. CASE {pc["loop"], pc'["loop"]} \subseteq {"top", "read"}
    BY <2>3 DEF SoloOut, Writing, Running, Base
  <2>4. CASE ~Running'
    BY <2>4 DEF SoloOut, Writing, Running, Base
  <2> QED BY <2>1, <2>2, <2>3, <2>4
<1>4. SoloInV3'
  <2>1. CASE pc'["loop"] = pc["loop"] /\ UNCHANGED <<out, inp>>
    BY <1>2, <2>1 DEF SoloInV3
  <2>2. CASE Writing /\ Writing' /\ UNCHANGED <<out, inp>>
    BY <1>2, <2>2 DEF SoloInV3, Writing
  <2>3. CASE {pc["loop"], pc'["loop"]} \subseteq {"top", "read"}
    BY <1>2, <2>3 DEF SoloInV3
  <2>4. CASE ~Running'
    BY <1>2, <2>4 DEF SoloInV3, Running
  <2> QED BY <2>1, <2>2, <2>3, <2>4
<1>5. SoloInV2'
  BY <1>2 DEF SoloInV2
<1>6. Ordered
  BY DEF Ordered, SoloTyped
<1> QED BY <1>1, <1>3, <1>4, <1>5, <1>6

\* The streams of the client and of the handler do not meet: a step that
\* leaves one alone keeps what is said of it.
LEMMA SoloInKept ==
  ASSUME SoloIInv, UNCHANGED <<ver, recvCh, got, inp, left>>,
         \/ pc'["loop"] = pc["loop"]
         \/ {pc["loop"], pc'["loop"]} \subseteq {"top", "write"}
  PROVE  SoloInV3' /\ SoloInV2'
<1>1. Sent' = Sent
  BY DEF Sent
<1> QED BY <1>1 DEF SoloIInv, SoloInV3, SoloInV2

\* The same for the stream to the client.
LEMMA SoloOutKept ==
  ASSUME SoloIInv, UNCHANGED <<sendCh, accepted, wire, out>>,
         \/ pc'["loop"] = pc["loop"]
         \/ {pc["loop"], pc'["loop"]} \subseteq {"top", "read", "push"}
         \/ ~Running'
  PROVE  SoloOut'
BY DEF SoloIInv, SoloOut, Running, Writing, Base

\* The loop takes the next payload.
LEMMA SoloTakes == ASSUME SoloIInv, TopTakes PROVE SoloIInv' /\ Ordered
<1>1. /\ pc["loop"] = "top" /\ pc' = [pc EXCEPT !["loop"] = "write"]
      /\ sendCh # <<>> /\ out' = Head(sendCh) /\ sendCh' = Tail(sendCh)
      /\ UNCHANGED <<ver, recvCh, inp, left, accepted, wire, got>>
  BY DEF TopTakes, At, Goto, life, env, hist
<1>2. pc' \in [Procs -> Labels] /\ pc'["loop"] = "write"
  BY <1>1 DEF SoloIInv, SoloTyped, Procs, Labels
<1>3. PICK s \in Seq(Nat) : s = sendCh /\ s # <<>>
  BY <1>1 DEF SoloIInv, SoloTyped
<1>4. /\ Head(s) \in Nat /\ Tail(s) \in Seq(Nat) /\ Len(s) \in Nat /\ Len(Tail(s)) = Len(s) - 1
  BY <1>3, TakeFacts
<1>5. SoloTyped'
  BY <1>1, <1>2, <1>3, <1>4 DEF SoloIInv, SoloTyped
<1>6. SoloOut'
  <2>1. wire \in Nat /\ accepted = wire + Len(s) /\ \A i \in 1..Len(s) : s[i] = wire + i
    BY <1>1, <1>3 DEF SoloIInv, SoloTyped, SoloOut, Running, Writing, Base
  <2>2. Head(s) = wire + 1 /\ \A i \in 1..Len(Tail(s)) : Tail(s)[i] = (wire + 1) + i
    BY <1>3, <2>1, TakeNext
  <2>3. Base' = wire + 1 /\ Writing'
    BY <1>1, <1>2 DEF Base, Writing
  <2>4. accepted' = (wire + 1) + Len(Tail(s))
    BY <1>1, <1>4, <2>1
  <2> QED BY <1>1, <1>3, <2>2, <2>3, <2>4 DEF SoloOut
<1>7. SoloInV3' /\ SoloInV2'
  BY <1>1, <1>2, SoloInKept
<1>8. Ordered
  BY <1>1 DEF Ordered, SoloIInv, SoloTyped
<1> QED BY <1>5, <1>6, <1>7, <1>8 DEF SoloIInv

\* It writes it, at the first attempt or a later one.
LEMMA SoloWrites == ASSUME SoloIInv, WriteOK PROVE SoloIInv' /\ Ordered
<1>1. /\ pc["loop"] = "write" /\ pc' = [pc EXCEPT !["loop"] = "top"]
      /\ wire' = out /\ out' = 0
      /\ UNCHANGED <<ver, sendCh, recvCh, inp, left, accepted, got>>
  BY DEF WriteOK, At, Goto, life, chans, env
<1>2. pc' \in [Procs -> Labels] /\ pc'["loop"] = "top"
  BY <1>1 DEF SoloIInv, SoloTyped, Procs, Labels
<1>3. out = wire + 1 /\ Writing /\ Running
  BY <1>1 DEF SoloIInv, SoloOut, Writing, Running
<1>4. SoloTyped'
  BY <1>1, <1>2 DEF SoloIInv, SoloTyped
<1>5. SoloOut'
  <2>1. Base' = wire' /\ wire' = Base /\ ~Writing'
    BY <1>1, <1>2, <1>3 DEF Base, Writing
  <2> QED BY <1>1, <1>3, <2>1 DEF SoloIInv, SoloOut
<1>6. SoloInV3' /\ SoloInV2'
  BY <1>1, <1>2, SoloInKept
<1>7. Ordered
  BY <1>1, <1>3 DEF Ordered, SoloIInv, SoloTyped
<1> QED BY <1>4, <1>5, <1>6, <1>7 DEF SoloIInv

\* A message comes in version 2: it is handed over or dropped, and the loop
\* ends.
LEMMA SoloReadsV2 ==
  ASSUME SoloIInv, ver = 2, At("loop", "read"), Received, Goto("loop", "shut"), UNCHANGED inp,
         recvCh' = IF Len(recvCh) < RecvBuf THEN Append(recvCh, Message) ELSE recvCh
  PROVE  SoloIInv' /\ Ordered
<1> USE SoloAssumption DEF SoloAssumption
<1>1. /\ left' = [left EXCEPT !["client"] = left["client"] - 1] /\ left["client"] > 0
      /\ UNCHANGED <<ver, sendCh, out, accepted, wire, got>>
      /\ pc' = [pc EXCEPT !["loop"] = "shut"]
  BY DEF Received, Goto, life, hist
<1>2. /\ left \in [{"client", "pusher"} -> Int] /\ left["client"] \in 0..Upstream
      /\ recvCh \in Seq(Nat) /\ got \in Nat /\ pc \in [Procs -> Labels] /\ "loop" \in Procs
  BY DEF SoloIInv, SoloTyped, Procs
<1>3. /\ pc' \in [Procs -> Labels] /\ pc'["loop"] = "shut"
  BY <1>1, <1>2 DEF Labels
<1>4. /\ left' \in [{"client", "pusher"} -> Int] /\ left'["client"] = left["client"] - 1
      /\ left'["client"] \in 0..Upstream
  BY <1>1, <1>2
<1>5. PICK k \in Nat : k = Sent /\ Message = k + 1 /\ Sent' = k + 1
  BY <1>2, <1>4 DEF Sent, Message
<1>6. /\ got <= k
      /\ \A i \in 1..Len(recvCh) : got < recvCh[i] /\ recvCh[i] <= k
      /\ \A i, j \in 1..Len(recvCh) : i < j => recvCh[i] < recvCh[j]
  BY <1>5 DEF SoloIInv, SoloInV2
<1>7. recvCh' \in Seq(Nat) /\ SoloInV2'
  <2>1. CASE recvCh' = recvCh
    <3>1. \A i \in 1..Len(recvCh) : recvCh[i] \in Nat
      BY <1>2
    <3> QED BY <1>1, <1>2, <1>5, <1>6, <2>1, <3>1 DEF SoloInV2
  <2>2. CASE recvCh' = Append(recvCh, k + 1)
    <3>1. PICK n \in Nat : n = Len(recvCh)
      BY <1>2
    <3>2. /\ recvCh' \in Seq(Nat) /\ Len(recvCh') = n + 1
          /\ \A i \in 1..(n + 1) : recvCh'[i] = IF i = n + 1 THEN k + 1 ELSE recvCh[i]
      BY <1>2, <2>2, <3>1, AppendFacts
    <3>3. \A i \in 1..n : recvCh'[i] = recvCh[i] /\ recvCh[i] \in Nat /\ i < n + 1
      BY <1>2, <3>1, <3>2
    <3>4. recvCh'[n + 1] = k + 1
      BY <3>2
    <3>5. \A i \in 1..(n + 1) : i \in 1..n \/ i = n + 1
      BY <3>1
    <3>6. \A i \in 1..(n + 1) : got < recvCh'[i] /\ recvCh'[i] <= k + 1
      BY <1>2, <1>6, <3>1, <3>3, <3>4, <3>5
    <3>7. \A i, j \in 1..(n + 1) : i < j => recvCh'[i] < recvCh'[j]
      <4> SUFFICES ASSUME NEW i \in 1..(n + 1), NEW j \in 1..(n + 1), i < j
                   PROVE  recvCh'[i] < recvCh'[j]
        OBVIOUS
      <4>1. i \in 1..n
        OBVIOUS
      <4>2. CASE j \in 1..n
        BY <1>6, <3>1, <3>3, <4>1, <4>2
      <4>3. CASE j = n + 1
        BY <1>6, <3>1, <3>3, <3>4, <4>1, <4>3
      <4> QED BY <3>5, <4>2, <4>3
    <3> QED BY <1>1, <1>2, <1>5, <1>6, <3>2, <3>6, <3>7 DEF SoloInV2
  <2> QED BY <1>5, <2>1, <2>2
<1>8. SoloTyped'
  BY <1>1, <1>3, <1>4, <1>7 DEF SoloIInv, SoloTyped
<1>9. SoloOut'
  BY <1>1, <1>3, SoloOutKept DEF Running
<1>10. SoloInV3' /\ Ordered
  BY <1>1, <1>2 DEF SoloInV3, Ordered, SoloIInv, SoloTyped
<1> QED BY <1>7, <1>8, <1>9, <1>10 DEF SoloIInv

\* A message comes in version 3: it is the loop's until receiveCh has room.
LEMMA SoloReadsV3 ==
  ASSUME SoloIInv, ver = 3, At("loop", "read"), Received, inp' = Message, Goto("loop", "push"),
         UNCHANGED recvCh
  PROVE  SoloIInv' /\ Ordered
<1> USE SoloAssumption DEF SoloAssumption
<1>1. /\ left' = [left EXCEPT !["client"] = left["client"] - 1] /\ left["client"] > 0
      /\ UNCHANGED <<ver, sendCh, out, accepted, wire, got>>
      /\ pc["loop"] = "read" /\ pc' = [pc EXCEPT !["loop"] = "push"]
  BY DEF Received, At, Goto, life, hist
<1>2. /\ left \in [{"client", "pusher"} -> Int] /\ left["client"] \in 0..Upstream
      /\ recvCh \in Seq(Nat) /\ got \in Nat /\ pc \in [Procs -> Labels] /\ "loop" \in Procs
  BY DEF SoloIInv, SoloTyped, Procs
<1>3. /\ pc' \in [Procs -> Labels] /\ pc'["loop"] = "push"
  BY <1>1, <1>2 DEF Labels
<1>4. /\ left' \in [{"client", "pusher"} -> Int] /\ left'["client"] = left["client"] - 1
      /\ left'["client"] \in 0..Upstream
  BY <1>1, <1>2
<1>5. PICK k \in Nat : k = Sent /\ inp' = k + 1 /\ Sent' = k + 1
  BY <1>2, <1>4 DEF Sent, Message
<1>6. got + Len(recvCh) = k /\ \A i \in 1..Len(recvCh) : recvCh[i] = got + i
  BY <1>1, <1>5 DEF SoloIInv, SoloInV3
<1>7. SoloTyped'
  BY <1>1, <1>2, <1>3, <1>4, <1>5 DEF SoloIInv, SoloTyped
<1>8. SoloOut'
  BY <1>1, <1>3, SoloOutKept
<1>9. SoloInV3'
  BY <1>1, <1>3, <1>5, <1>6 DEF SoloInV3
<1>10. SoloInV2' /\ Ordered
  BY <1>1, <1>2 DEF SoloInV2, Ordered, SoloIInv, SoloTyped
<1> QED BY <1>7, <1>8, <1>9, <1>10 DEF SoloIInv

\* It is handed over.
LEMMA SoloDelivers ==
  ASSUME SoloIInv, ver = 3, pc["loop"] = "push", inp' = 0, recvCh' = Append(recvCh, inp),
         Goto("loop", "top"), UNCHANGED <<ver, sendCh, out, left, accepted, wire, got>>
  PROVE  SoloIInv' /\ Ordered
<1>1. pc' \in [Procs -> Labels] /\ pc'["loop"] = "top"
  BY DEF Goto, SoloIInv, SoloTyped, Procs, Labels
<1>2. PICK s \in Seq(Nat) : s = recvCh
  BY DEF SoloIInv, SoloTyped
<1>3. /\ got \in Nat /\ inp \in Nat /\ inp = got + Len(s) + 1 /\ inp = Sent
      /\ \A i \in 1..Len(s) : s[i] = got + i
  BY <1>2 DEF SoloIInv, SoloTyped, SoloInV3
<1>4. /\ Append(s, inp) \in Seq(Nat) /\ Len(s) \in Nat /\ Len(Append(s, inp)) = Len(s) + 1
  BY <1>3, AppendFacts
<1>5. \A i \in 1..Len(Append(s, inp)) : Append(s, inp)[i] = got + i
  <2>1. PICK b \in Nat : b = got
    BY <1>3
  <2>2. \A i \in 1..Len(Append(s, b + Len(s) + 1)) : Append(s, b + Len(s) + 1)[i] = b + i
    BY <1>3, <2>1, AppendNext
  <2>3. inp = b + Len(s) + 1
    BY <1>3, <2>1
  <2> QED BY <2>1, <2>2, <2>3
<1>6. SoloTyped'
  BY <1>1, <1>2, <1>4 DEF SoloIInv, SoloTyped
<1>7. SoloOut'
  BY <1>1, SoloOutKept
<1>8. SoloInV3'
  <2>1. Sent' = Sent
    BY DEF Sent
  <2>2. got + Len(Append(s, inp)) = Sent
    BY <1>3, <1>4
  <2> QED BY <1>1, <1>2, <1>5, <2>1, <2>2 DEF SoloInV3
<1>9. SoloInV2' /\ Ordered
  BY <1>3 DEF SoloInV2, Ordered, SoloIInv, SoloTyped
<1> QED BY <1>6, <1>7, <1>8, <1>9 DEF SoloIInv

\* Send queues a payload with the next number, also behind a cancellation
\* that its second look at the context will find.
LEMMA SoloQueues ==
  ASSUME SoloIInv, NEW p \in Senders, accepted' = accepted + 1, sendCh' = Append(sendCh, accepted'),
         Goto(p, "recheck"), UNCHANGED <<ver, recvCh, out, inp, left, wire, got>>
  PROVE  SoloIInv' /\ Ordered
<1>1. pc' \in [Procs -> Labels] /\ pc'["loop"] = pc["loop"]
  BY DEF Goto, SoloIInv, SoloTyped, Procs, Senders, Labels
<1>2. PICK s \in Seq(Nat) : s = sendCh
  BY DEF SoloIInv, SoloTyped
<1>3. PICK a \in Nat : a = accepted + 1 /\ wire \in Nat
  BY DEF SoloIInv, SoloTyped
<1>4. sendCh' = Append(s, a) /\ Append(s, a) \in Seq(Nat) /\ Len(s) \in Nat /\ Len(Append(s, a)) = Len(s) + 1
  BY <1>2, <1>3, AppendFacts
<1>5. SoloTyped'
  BY <1>1, <1>3, <1>4 DEF SoloIInv, SoloTyped
<1>6. SoloOut'
  <2>1. (Running' <=> Running) /\ (Writing' <=> Writing) /\ Base' = Base
    BY <1>1 DEF Running, Writing, Base
  <2>2. CASE ~Running
    BY <2>1, <2>2 DEF SoloIInv, SoloOut, Running, Writing
  <2>3. CASE Running
    <3>1. PICK b \in Nat : b = Base
      BY <1>3 DEF Base
    <3>2. accepted = b + Len(s) /\ \A i \in 1..Len(s) : s[i] = b + i
      BY <1>2, <2>3, <3>1 DEF SoloIInv, SoloOut
    <3>3. \A i \in 1..Len(Append(s, b + Len(s) + 1)) : Append(s, b + Len(s) + 1)[i] = b + i
      BY <3>2, AppendNext
    <3>4. a = b + Len(s) + 1
      BY <1>3, <3>2
    <3>5. \A i \in 1..Len(sendCh') : sendCh'[i] = b + i
      BY <1>4, <3>3, <3>4
    <3>6. accepted' = b + Len(sendCh')
      BY <1>4, <3>2
    <3>7. Writing' => out' = wire' + 1
      BY <2>1 DEF SoloIInv, SoloOut
    <3> QED BY <2>1, <3>1, <3>5, <3>6, <3>7 DEF SoloOut
  <2> QED BY <2>2, <2>3
<1>7. SoloInV3' /\ SoloInV2'
  BY <1>1, SoloInKept
<1>8. Ordered
  BY DEF Ordered, SoloIInv, SoloTyped
<1> QED BY <1>5, <1>6, <1>7, <1>8 DEF SoloIInv

\* The handler takes the next message.
LEMMA SoloHandles ==
  ASSUME SoloIInv, recvCh # <<>>, got' = Head(recvCh), recvCh' = Tail(recvCh), Goto("handler", "update"),
         UNCHANGED <<ver, sendCh, out, inp, left, accepted, wire>>
  PROVE  SoloIInv' /\ Ordered
<1>1. pc' \in [Procs -> Labels] /\ pc'["loop"] = pc["loop"]
  BY DEF Goto, SoloIInv, SoloTyped, Procs, Labels
<1>2. PICK s \in Seq(Nat) : s = recvCh /\ s # <<>>
  BY DEF SoloIInv, SoloTyped
<1>3. PICK n \in Nat : n = Len(s) /\ n >= 1
  BY <1>2, TakeFacts
<1>4. PICK t \in Seq(Nat) : t = Tail(s) /\ recvCh' = t
  BY <1>2, TakeFacts
<1>5. Head(s) = s[1] /\ Head(s) \in Nat /\ Len(t) = n - 1 /\ \A i \in 1..(n - 1) : t[i] = s[i + 1]
  BY <1>2, <1>3, <1>4, TakeFacts
<1>6. PICK g \in Nat, h \in Nat : g = got /\ h = got' /\ h = s[1] /\ Sent' = Sent /\ wire \in Nat
  BY <1>2, <1>5 DEF SoloIInv, SoloTyped, Sent
<1>7. SoloTyped'
  BY <1>1, <1>4, <1>6 DEF SoloIInv, SoloTyped
<1>8. SoloOut'
  BY <1>1, SoloOutKept
<1>9. CASE ver = 3
  <2>1. \A i \in 1..n : s[i] = g + i
    BY <1>2, <1>3, <1>6, <1>9 DEF SoloIInv, SoloInV3
  <2>2. h = g + 1
    BY <1>3, <1>6, <2>1
  <2>3. \A i \in 1..(n - 1) : t[i] = h + i
    <3> SUFFICES ASSUME NEW i \in 1..(n - 1) PROVE t[i] = h + i
      OBVIOUS
    <3>1. i \in Nat /\ i + 1 \in 1..n
      OBVIOUS
    <3>2. t[i] = s[i + 1]
      BY <1>5
    <3>3. s[i + 1] = g + (i + 1)
      BY <2>1, <3>1
    <3> QED BY <2>2, <3>1, <3>2, <3>3
  <2>4. h + Len(t) = g + n
    <3>1. PICK m \in Nat : m = Len(t)
      BY LenProperties
    <3>2. n = m + 1
      BY <1>5, <3>1
    <3> QED BY <2>2, <3>1, <3>2
  <2>5. SoloInV3'
    <3>1. /\ pc["loop"] \in {"top", "write", "backoff", "read"} => g + n = Sent
          /\ pc["loop"] = "push" => inp = g + n + 1 /\ inp = Sent
      BY <1>2, <1>3, <1>6, <1>9 DEF SoloIInv, SoloInV3
    <3> QED BY <1>1, <1>4, <1>5, <1>6, <2>3, <2>4, <3>1 DEF SoloInV3
  <2> QED BY <1>6, <1>7, <1>8, <1>9, <2>2, <2>5 DEF SoloIInv, SoloInV2, Ordered
<1>10. CASE ver = 2
  <2>1. /\ \A i \in 1..n : g < s[i] /\ s[i] <= Sent
        /\ \A i, j \in 1..n : i < j => s[i] < s[j]
    BY <1>2, <1>3, <1>6, <1>10 DEF SoloIInv, SoloInV2
  <2>2. g < h /\ h <= Sent
    BY <1>3, <1>6, <2>1
  <2>3. \A i \in 1..(n - 1) : /\ i + 1 \in 1..n /\ 1 \in 1..n /\ 1 < i + 1 /\ t[i] = s[i + 1]
    BY <1>3, <1>5
  <2>4. \A i \in 1..(n - 1) : h < t[i] /\ t[i] <= Sent
    BY <1>6, <2>1, <2>3
  <2>5. \A i, j \in 1..(n - 1) : i < j => t[i] < t[j]
    <3> SUFFICES ASSUME NEW i \in 1..(n - 1), NEW j \in 1..(n - 1), i < j PROVE t[i] < t[j]
      OBVIOUS
    <3>1. i + 1 < j + 1 /\ i + 1 \in 1..n /\ j + 1 \in 1..n
      BY <1>3
    <3> QED BY <2>1, <2>3, <3>1
  <2>6. SoloInV2'
    BY <1>4, <1>5, <1>6, <2>2, <2>4, <2>5 DEF SoloInV2
  <2> QED BY <1>6, <1>7, <1>8, <1>10, <2>2, <2>6 DEF SoloIInv, SoloInV3, Ordered
<1> QED BY <1>9, <1>10 DEF SoloIInv, SoloTyped

-----------------------------------------------------------------------------
(* The steps that move no payload.                                         *)

\* A goroutine that is not the loop goes elsewhere.
LEMMA OtherMoves ==
  ASSUME SoloIInv, NEW p \in Procs \ {"loop"}, NEW l \in Labels, pc' = pc \/ Goto(p, l),
         left' \in [{"client", "pusher"} -> Int], left'["client"] = left["client"],
         UNCHANGED <<ver, sendCh, recvCh, out, inp, accepted, wire, got>>
  PROVE  Quiet
BY DEF Goto, Quiet, SoloIInv, SoloTyped, Procs

\* The loop goes to a place where it does not send any more.
LEMMA LoopLeaves ==
  ASSUME SoloIInv, NEW l \in {"shut", "close", "closing", "done"}, Goto("loop", l), inp' \in Nat,
         UNCHANGED <<ver, sendCh, recvCh, out, left, accepted, wire, got>>
  PROVE  Quiet
<1>1. pc' \in [Procs -> Labels] /\ pc'["loop"] = l
  BY DEF Goto, SoloIInv, SoloTyped, Procs, Labels
<1> QED BY <1>1 DEF Quiet, SoloIInv, SoloTyped, Running

\* Close moves no payload.
LEMMA CloseQuiet == ASSUME SoloIInv, NEW p \in Procs, Close(p) PROVE Quiet
<1>1. UNCHANGED <<ver, sendCh, recvCh, out, inp, left, accepted, wire, got>>
  BY DEF Close, CloseV2, CloseV3, CloseConn, CloseReturn, chans, work, env, hist
<1>2. pc' = pc \/ \E l \in {"closing", "done"} : Goto(p, l)
  BY DEF Close, CloseV2, CloseV3, CloseConn, CloseReturn
<1>3. left' \in [{"client", "pusher"} -> Int] /\ left'["client"] = left["client"] /\ inp' \in Nat
  BY <1>1 DEF SoloIInv, SoloTyped
<1>4. CASE pc' = pc
  BY <1>1, <1>3, <1>4 DEF Quiet, SoloIInv, SoloTyped
<1>5. ASSUME NEW l \in {"closing", "done"}, Goto(p, l) PROVE Quiet
  <2>1. CASE p = "loop"
    BY <1>1, <1>3, <1>5, <2>1, LoopLeaves
  <2>2. CASE p # "loop"
    <3>1. l \in Labels
      BY DEF Labels
    <3> QED BY <1>1, <1>3, <1>5, <2>2, <3>1, OtherMoves
  <2> QED BY <2>1, <2>2
<1> QED BY <1>2, <1>4, <1>5

\* The loop takes, writes, reads and hands over one payload at a time.
LEMMA LoopKeeps == ASSUME SoloIInv, readWriteLoop PROVE SoloIInv' /\ Ordered
<1>1. out \in Nat /\ inp \in Nat /\ pc \in [Procs -> Labels] /\ "loop" \in Procs
      /\ left \in [{"client", "pusher"} -> Int]
  BY DEF SoloIInv, SoloTyped, Procs
<1>2. ASSUME NEW l \in {"shut", "close"}, Jump("loop", l) PROVE Quiet
  BY <1>1, <1>2, LoopLeaves DEF Jump, life, chans, work, env, hist
<1>3. ASSUME TopStops PROVE Quiet
  BY <1>2, <1>3 DEF TopStops
<1>4. ASSUME NEW l \in {"top", "read"}, pc["loop"] \in {"top", "read"}, Goto("loop", l),
             UNCHANGED <<ver, sendCh, recvCh, out, inp, left, accepted, wire, got>>
      PROVE Quiet
  <2>1. pc' \in [Procs -> Labels] /\ pc'["loop"] = l
    BY <1>1, <1>4 DEF Goto, Labels
  <2> QED BY <1>1, <1>4, <2>1 DEF Quiet
<1>5. ASSUME TopReads PROVE Quiet
  BY <1>4, <1>5 DEF TopReads, At, life, chans, env, hist
<1>6. ASSUME TopV2 \/ TopV3 PROVE SoloIInv' /\ Ordered
  BY <1>3, <1>5, <1>6, SoloTakes, SoloQuiet DEF TopV2, TopV3
<1>7. ASSUME WriteSteps PROVE SoloIInv' /\ Ordered
  <2>1. CASE RetrySeesDone
    BY <1>2, <2>1, SoloQuiet DEF RetrySeesDone
  <2>2. ASSUME NEW l \in {"write", "backoff"}, Writing, Goto("loop", l),
               UNCHANGED <<ver, sendCh, recvCh, out, inp, left, accepted, wire, got>>
        PROVE Quiet
    <3>1. pc' \in [Procs -> Labels] /\ pc'["loop"] = l
      BY <1>1, <2>2 DEF Goto, Labels
    <3> QED BY <1>1, <2>2, <3>1 DEF Quiet, Writing
  <2>3. CASE WriteFails
    <3>1. UNCHANGED <<ver, sendCh, recvCh, out, inp, left, accepted, wire, got>> /\ Writing
      BY <2>3 DEF WriteFails, At, Writing, life, chans, env, hist
    <3>2. Goto("loop", "backoff") \/ Goto("loop", "shut")
      BY <2>3 DEF WriteFails
    <3>3. Quiet
      BY <1>1, <2>2, <3>1, <3>2, LoopLeaves
    <3> QED BY <3>3, SoloQuiet
  <2>4. CASE BackoffOver
    BY <2>2, <2>4, SoloQuiet DEF BackoffOver, At, Writing, Jump, life, chans, work, env, hist
  <2> QED BY <1>7, <2>1, <2>3, <2>4, SoloWrites DEF WriteSteps
<1>8. ASSUME NothingCame PROVE Quiet
  BY <1>4, <1>8 DEF NothingCame, At, Jump, life, chans, work, env, hist
<1>9. ASSUME ReadV2 PROVE SoloIInv' /\ Ordered
  BY <1>2, <1>8, <1>9, SoloReadsV2, SoloQuiet DEF ReadV2, ReadFailedV2
<1>10. ASSUME ReadV3 PROVE SoloIInv' /\ Ordered
  BY <1>2, <1>8, <1>10, SoloReadsV3, SoloQuiet DEF ReadV3
<1>11. ASSUME DeliverV3 PROVE SoloIInv' /\ Ordered
  <2>1. /\ ver = 3 /\ pc["loop"] = "push" /\ inp' = 0
        /\ UNCHANGED <<ver, sendCh, out, left, accepted, wire, got>>
    BY <1>11 DEF DeliverV3, At, life, env, hist
  <2>2. \/ Goto("loop", "shut") /\ UNCHANGED recvCh
        \/ Goto("loop", "top") /\ recvCh' = Append(recvCh, inp)
    BY <1>11 DEF DeliverV3, Delivered
  <2>3. CASE Goto("loop", "shut") /\ UNCHANGED recvCh
    <3>1. Quiet
      BY <2>1, <2>3, LoopLeaves
    <3> QED BY <3>1, SoloQuiet
  <2>4. CASE Goto("loop", "top") /\ recvCh' = Append(recvCh, inp)
    BY <2>1, <2>4, SoloDelivers
  <2> QED BY <2>2, <2>3, <2>4
<1>12. ASSUME LoopShut PROVE SoloIInv' /\ Ordered
  <2>1. Quiet
    BY <1>1, <1>12, LoopLeaves DEF LoopShut, life, work, env, hist
  <2> QED BY <2>1, SoloQuiet
<1> QED BY <1>6, <1>7, <1>9, <1>10, <1>11, <1>12 DEF readWriteLoop, sendWithRetry, sendWithRetryInternal

\* Send, the handler, the pusher and the idle cleaner.
LEMMA CallersKeep ==
  ASSUME SoloIInv,
         \/ \E p \in Senders : SendStep(p)
         \/ Handler \/ Pushed \/ PusherCall \/ IdleStep
  PROVE  SoloIInv' /\ Ordered
<1>1. ASSUME NEW p \in Procs \ {"loop"}, NEW l \in Labels, Jump(p, l) PROVE SoloIInv' /\ Ordered
  <2>1. /\ Goto(p, l) /\ UNCHANGED <<ver, sendCh, recvCh, out, inp, left, accepted, wire, got>>
    BY <1>1 DEF Jump, life, chans, work, env, hist
  <2>2. left' \in [{"client", "pusher"} -> Int] /\ left'["client"] = left["client"]
    BY <2>1 DEF SoloIInv, SoloTyped
  <2>3. Quiet
    BY <2>1, <2>2, OtherMoves
  <2> QED BY <2>3, SoloQuiet
<1>2. Senders \subseteq Procs \ {"loop"} /\ {"handler", "pusher", "idler"} \subseteq Procs \ {"loop"}
  BY DEF Senders, Procs
<1>3. {"refused", "recheck", "sent", "close", "update", "send", "select", "idle", "done"} \subseteq Labels
  BY DEF Labels
<1>4. ASSUME NEW p \in Senders, SendStep(p) PROVE SoloIInv' /\ Ordered
  <2>1. CASE Jump(p, "refused") \/ Jump(p, "sent")
    BY <1>1, <1>2, <1>3, <2>1
  <2>2. CASE /\ accepted' = accepted + 1 /\ sendCh' = Append(sendCh, accepted') /\ Goto(p, "recheck")
             /\ UNCHANGED <<ver, recvCh, out, inp, left, wire, got>>
    BY <2>2, SoloQueues
  <2> QED BY <1>4, <2>1, <2>2 DEF SendStep, life, work, env
<1>5. CASE Handler
  <2>1. CASE /\ recvCh # <<>> /\ got' = Head(recvCh) /\ recvCh' = Tail(recvCh) /\ Goto("handler", "update")
             /\ UNCHANGED <<ver, sendCh, out, inp, left, accepted, wire>>
    BY <2>1, SoloHandles
  <2>2. CASE \E l \in {"close", "select"} : Jump("handler", l)
    BY <1>1, <1>2, <1>3, <2>2
  <2>3. CASE /\ Goto("handler", "send")
             /\ UNCHANGED <<ver, sendCh, recvCh, out, inp, left, accepted, wire, got>>
    <3>1. left' \in [{"client", "pusher"} -> Int] /\ left'["client"] = left["client"]
      BY <2>3 DEF SoloIInv, SoloTyped
    <3>2. Quiet
      BY <1>2, <1>3, <2>3, <3>1, OtherMoves
    <3> QED BY <3>2, SoloQuiet
  <2> QED BY <1>5, <2>1, <2>2, <2>3 DEF Handler, life, chans, work, env, hist
<1>6. CASE Pushed
  <2>1. /\ Goto("pusher", "idle") /\ left' = [left EXCEPT !["pusher"] = left["pusher"] - 1]
        /\ UNCHANGED <<ver, sendCh, recvCh, out, inp, accepted, wire, got>>
    BY <1>6 DEF Pushed, chans, work, hist
  <2>2. left' \in [{"client", "pusher"} -> Int] /\ left'["client"] = left["client"]
    BY <2>1 DEF SoloIInv, SoloTyped
  <2>3. Quiet
    BY <1>2, <1>3, <2>1, <2>2, OtherMoves
  <2> QED BY <2>3, SoloQuiet
<1>7. CASE PusherCall
  BY <1>1, <1>2, <1>3, <1>7 DEF PusherCall
<1>8. CASE IdleStep
  <2>1. /\ Goto("idler", "done") \/ Goto("idler", "close")
        /\ UNCHANGED <<ver, sendCh, recvCh, out, inp, left, accepted, wire, got>>
    BY <1>8 DEF IdleStep, chans, work, env, hist
  <2>2. left' \in [{"client", "pusher"} -> Int] /\ left'["client"] = left["client"]
    BY <2>1 DEF SoloIInv, SoloTyped
  <2>3. Quiet
    BY <1>2, <1>3, <2>1, <2>2, OtherMoves
  <2> QED BY <2>3, SoloQuiet
<1> QED BY <1>4, <1>5, <1>6, <1>7, <1>8

\* Every step keeps the invariant and the order.
LEMMA SoloNext == SoloIInv /\ [Next]_vars => SoloIInv' /\ Ordered
<1> SUFFICES ASSUME SoloIInv, [Next]_vars PROVE SoloIInv' /\ Ordered
  OBVIOUS
<1>1. CASE \/ UNCHANGED vars \/ ParentCancel \/ ClientGone \/ TimePasses
  <2>1. UNCHANGED <<ver, pc, sendCh, recvCh, out, inp, left, accepted, wire, got>>
    BY <1>1 DEF ParentCancel, ClientGone, TimePasses, vars, life, chans, work, env, hist
  <2>2. Quiet
    BY <2>1 DEF Quiet, SoloIInv, SoloTyped
  <2> QED BY <2>2, SoloQuiet
<1>2. ASSUME NEW p \in Procs, Step(p) PROVE SoloIInv' /\ Ordered
  <2>1. CASE Close(p)
    BY <2>1, CloseQuiet, SoloQuiet
  <2>2. CASE readWriteLoop
    BY <2>2, LoopKeeps
  <2>3. CASE \/ p \in Senders /\ SendStep(p)
             \/ Handler \/ Pushed \/ IdleStep
    BY <2>3, CallersKeep
  <2> QED BY <1>2, <2>1, <2>2, <2>3 DEF Step, SendV2, SendV3, TryCloseIfIdleV2, TryCloseIfIdleV3
<1>3. CASE PusherCall
  BY <1>3, CallersKeep
<1> QED BY <1>1, <1>2, <1>3 DEF Next, Finished

\* readWriteLoop and Send keep both streams in order: the client gets the
\* payloads as Send queued them, without a hole and whatever is retried, the
\* handler of a version 3 link every message, that of a version 2 link never
\* an older one after a newer one.
THEOREM SoloInOrder == Spec => InOrder
<1>1. SoloIInv /\ [Next]_vars => [/\ wire' \in {wire, wire + 1}
                                  /\ got' >= got
                                  /\ ver = 3 => got' \in {got, got + 1}]_<<wire, got>>
  BY SoloNext DEF Ordered
<1>2. SoloIInv /\ [Next]_vars => SoloIInv'
  BY SoloNext
<1> QED BY <1>1, <1>2, SoloInit, PTL DEF Spec, InOrder
=============================================================================
