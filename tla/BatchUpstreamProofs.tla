------------------------ MODULE BatchUpstreamProofs -------------------------
(***************************************************************************)
(* The batching upstream path, for any requests, messages, businesses,     *)
(* batch size and number of tries: every request is in one batch with one  *)
(* owner, a call gets the answer to its own request, and what is           *)
(* acknowledged was processed.                                             *)
(***************************************************************************)
EXTENDS BatchUpstream, FiniteSetTheorems, TLAPS

\* A call has a result when it is over, and what waits in its channel is the
\* response to its own request or an error.
ResultShape ==
    \A r \in Reqs :
        /\ pc[r] # "done" => ret[r] = None
        /\ pc[r] = "done" => ret[r] \in Errors \union {r}
        /\ resultChan[r] \in Errors \union {r, None}

\* A request that has not been added is in no batch and has started nothing;
\* a batch whose timer runs has no timer goroutine yet.
FreshShape ==
    /\ \A r \in Reqs : pc[r] \in {"idle", "add"} =>
         /\ timer[r] = "off"
         /\ tg[<<"size", r>>] = "none" /\ tg[<<"timer", r>>] = "none"
         /\ \A b \in Reqs : ~InBatch(r, b)
    /\ \A r \in Reqs : timer[r] = "on" => tg[<<"timer", r>>] = "none"

\* A request is in one batch; a batch that is in the map or was taken out of it
\* contains the request it is named after.
BatchShape ==
    /\ \A r, b, c \in Reqs : (InBatch(r, b) /\ InBatch(r, c)) => b = c
    /\ \A r, b \in Reqs : InBatch(r, b) => InBatch(b, b)
    /\ \A z \in Bizs : batches[z] # None =>
         InBatch(batches[z], batches[z]) /\ BizOf[batches[z]] = z
    /\ \A g \in Triggers : batch[g] # None => InBatch(batch[g], batch[g])

\* A batch is in the map, or was taken by one goroutine, which keeps it.
OwnerShape ==
    /\ \A g \in Triggers : tg[g] \in {"none", "take"} => batch[g] = None
    /\ \A g \in Triggers : tg[g] \in {"call", "distribute"} => batch[g] # None
    /\ \A f, g \in Triggers : (batch[g] # None /\ batch[f] = batch[g]) => f = g
    /\ \A g \in Triggers, z \in Bizs : batch[g] # None => batches[z] # batch[g]
    /\ \A b \in Reqs : InBatch(b, b) => \/ \E z \in Bizs : batches[z] = b
                                        \/ \E g \in Triggers : batch[g] = b

\* After Stop has begun, a batch in the map is one that a goroutine of Stop is
\* going to take: when all of them are done the map is empty.
StopShape ==
    /\ stop = "idle" <=> ~stopped
    /\ ~stopped => \A z \in Bizs : tg[<<"stop", z>>] = "none"
    /\ stopped => \A z \in Bizs : batches[z] # None =>
                     z \in pending /\ tg[<<"stop", z>>] = "take"

\* The coordinator.
CoIInv == TypeOK /\ ResultShape /\ FreshShape /\ BatchShape /\ OwnerShape /\ StopShape

\* A response stands for a request that the backend has processed.
HandledShape ==
    /\ AckMeansHandled
    /\ \A g \in Triggers : tg[g] = "distribute" => outcome[g] \in Errors \union {"ok"}
    /\ \A g \in Triggers : (tg[g] = "distribute" /\ outcome[g] = "ok") =>
         \A r \in Reqs : InBatch(r, batch[g]) => KeyOf[r] \in handled
    /\ \A r \in Reqs : (resultChan[r] = r \/ ret[r] = r) => KeyOf[r] \in handled

BatchIInv == CoIInv /\ BatchTypeOK /\ HandledShape /\ ShutOutByStopOrMismatch
-----------------------------------------------------------------------------
(* Triggers and batches.                                                   *)

\* The names of the goroutines that run triggerBatch, and their businesses.
LEMMA TriggerFacts ==
    /\ \A r \in Reqs : <<"size", r>> \in Triggers /\ <<"timer", r>> \in Triggers
    /\ \A z \in Bizs : <<"stop", z>> \in Triggers /\ TriggerBiz(<<"stop", z>>) = z
    /\ \A g \in Triggers : TriggerBiz(g) \in Bizs
  BY CoordinatorAssumption DEF Triggers, TriggerBiz, CoordinatorAssumption

\* addToBatch adds the request to one batch and changes no other.
LEMMA AppendAdds ==
  ASSUME requests \in [Reqs -> Seq(Reqs)], NEW r \in Reqs, NEW b \in Reqs,
         requests' = [requests EXCEPT ![b] = Append(@, r)]
  PROVE  \A x, c \in Reqs : InBatch(x, c)' <=> (InBatch(x, c) \/ (x = r /\ c = b))
<1> SUFFICES ASSUME NEW x \in Reqs, NEW c \in Reqs
             PROVE  InBatch(x, c)' <=> (InBatch(x, c) \/ (x = r /\ c = b))
  OBVIOUS
<1>1. CASE c # b
  BY <1>1 DEF InBatch
<1>2. CASE c = b
  <2> DEFINE s == requests[b]
  <2>1. s \in Seq(Reqs) /\ requests'[c] = Append(s, r)
    BY <1>2
  <2>2. /\ Len(Append(s, r)) = Len(s) + 1 /\ Len(s) \in Nat
        /\ \A i \in 1..Len(s) : Append(s, r)[i] = s[i]
        /\ Append(s, r)[Len(s) + 1] = r
    BY <2>1
  <2>3. InBatch(x, c)' <=> \E i \in 1..(Len(s) + 1) : Append(s, r)[i] = x
    BY <2>1, <2>2 DEF InBatch
  <2>4. InBatch(x, c) <=> \E i \in 1..Len(s) : s[i] = x
    BY <1>2 DEF InBatch
  <2> QED BY <2>2, <2>3, <2>4, <1>2
<1> QED BY <1>1, <1>2

\* A step that leaves the batches' requests alone leaves membership alone.
LEMMA InBatchUnchanged ==
  ASSUME UNCHANGED requests
  PROVE  \A x, c \in Reqs : InBatch(x, c)' <=> InBatch(x, c)
  BY DEF InBatch

-----------------------------------------------------------------------------
(* The coordinator, action by action.                                      *)

\* A new coordinator.
LEMMA CoInitially == ASSUME Init PROVE CoIInv
<1> USE CoordinatorAssumption DEF CoordinatorAssumption, Init
<1>1. TypeOK
  <2>1. 0 \in 0..(MaxTries - 1)
    OBVIOUS
  <2>2. requests \in [Reqs -> Seq(Reqs)]
    OBVIOUS
  <2> QED BY <2>1, <2>2 DEF TypeOK
<1>2. \A x, c \in Reqs : ~InBatch(x, c)
  BY DEF InBatch
<1>3. ResultShape
  BY DEF ResultShape
<1>4. FreshShape
  BY <1>2, TriggerFacts DEF FreshShape
<1>5. BatchShape
  BY <1>2 DEF BatchShape
<1>6. OwnerShape
  BY <1>2 DEF OwnerShape
<1>7. StopShape
  BY TriggerFacts DEF StopShape
<1> QED BY <1>1, <1>3, <1>4, <1>5, <1>6, <1>7 DEF CoIInv

\* OnReceive's first look at stopped.
LEMMA CoOnReceive ==
  ASSUME CoIInv, NEW r \in Reqs, OnReceive(r) PROVE CoIInv'
<1> USE CoordinatorAssumption DEF CoordinatorAssumption, CoIInv, TypeOK, OnReceive, Return,
        batchVars, trigVars, stopVars
<1>1. \A x, c \in Reqs : InBatch(x, c)' <=> InBatch(x, c)
  BY InBatchUnchanged
<1>2. TypeOK'
  BY DEF Errors
<1>3. ResultShape'
  <2>1. "stopped" \in Errors
    BY DEF Errors
  <2>2. CASE stopped
    BY ZenonT(60), <2>1, <2>2 DEF ResultShape
  <2>3. CASE ~stopped
    BY <2>3 DEF ResultShape
  <2> QED BY <2>2, <2>3
<1>4. FreshShape'
  BY <1>1 DEF FreshShape
<1>5. BatchShape'
  BY <1>1 DEF BatchShape
<1>6. OwnerShape'
  BY <1>1 DEF OwnerShape
<1>7. StopShape'
  BY DEF StopShape
<1> QED BY <1>2, <1>3, <1>4, <1>5, <1>6, <1>7

\* addToBatch of a stopped coordinator.
LEMMA CoAddRefused ==
  ASSUME CoIInv, NEW r \in Reqs, AddRefused(r) PROVE CoIInv'
<1> USE CoordinatorAssumption DEF CoordinatorAssumption, CoIInv, TypeOK, AddRefused,
        batchVars, trigVars, stopVars
<1>1. \A x, c \in Reqs : InBatch(x, c)' <=> InBatch(x, c)
  BY InBatchUnchanged
<1>2. TypeOK'
  BY DEF Errors
<1>3. ResultShape'
  <2>1. "stopped" \in Errors
    BY DEF Errors
  <2> QED BY <2>1 DEF ResultShape
<1>4. FreshShape'
  BY <1>1 DEF FreshShape
<1>5. BatchShape'
  BY <1>1 DEF BatchShape
<1>6. OwnerShape'
  BY <1>1 DEF OwnerShape
<1>7. StopShape'
  BY DEF StopShape
<1> QED BY <1>2, <1>3, <1>4, <1>5, <1>6, <1>7

\* addToBatch: the request is new to every batch, and the batch it joins, its
\* own or the one in the map, has been taken by nobody.
LEMMA CoAddToBatch ==
  ASSUME CoIInv, NEW r \in Reqs, AddToBatch(r) PROVE CoIInv'
<1> USE CoordinatorAssumption DEF CoordinatorAssumption, CoIInv, TypeOK, TimerOf, Refuses, stopVars
<1>b. PICK b \in Reqs : b = IF batches[BizOf[r]] = None THEN r ELSE batches[BizOf[r]]
  OBVIOUS
<1>1. /\ pc[r] = "add" /\ ~stopped
      /\ pc' = [pc EXCEPT ![r] = "wait"]
      /\ batches' = [batches EXCEPT ![BizOf[r]] = b]
      /\ requests' = [requests EXCEPT ![b] = Append(@, r)]
      /\ timer' = IF b = r THEN [timer EXCEPT ![r] = "on"] ELSE timer
      /\ tg' \in {tg, [tg EXCEPT ![<<"size", r>>] = "take"]}
      /\ UNCHANGED <<ret, resultChan, batch, tries, outcome, stopVars>>
  BY <1>b DEF AddToBatch
<1>2. b \in Reqs /\ BizOf[r] \in Bizs
  OBVIOUS
<1>3. \A x, c \in Reqs : InBatch(x, c)' <=> (InBatch(x, c) \/ (x = r /\ c = b))
  BY <1>1, <1>2, AppendAdds
<1>4. \A c \in Reqs : ~InBatch(r, c)
  BY <1>1 DEF FreshShape
<1>5. \A c \in Reqs : ~InBatch(c, r)
  BY <1>4 DEF BatchShape
<1>6. \A g \in Triggers : batch[g] # b \/ batch[g] = None
  BY <1>b, <1>4, <1>5 DEF OwnerShape, BatchShape
<1>7. b = r \/ InBatch(b, b)
  BY <1>b DEF BatchShape
<1>8. TypeOK'
  <2>1. requests' \in [Reqs -> Seq(Reqs)]
    BY <1>1, <1>2
  <2> QED BY <2>1, <1>1, <1>2
<1>9. ResultShape'
  BY <1>1 DEF ResultShape
<1>10. FreshShape'
  <2>1. ASSUME NEW x \in Reqs, pc'[x] \in {"idle", "add"}
        PROVE  /\ timer'[x] = "off"
               /\ tg'[<<"size", x>>] = "none" /\ tg'[<<"timer", x>>] = "none"
               /\ \A c \in Reqs : ~InBatch(x, c)'
    <3>1. x # r /\ pc[x] \in {"idle", "add"}
      BY <2>1, <1>1
    <3>2. <<"size", x>> # <<"size", r>> /\ <<"timer", x>> # <<"size", r>>
      BY <3>1
    <3> QED BY <3>1, <3>2, <1>1, <1>3, TriggerFacts DEF FreshShape
  <2>2. ASSUME NEW x \in Reqs, timer'[x] = "on" PROVE tg'[<<"timer", x>>] = "none"
    <3>1. <<"timer", x>> # <<"size", r>>
      OBVIOUS
    <3> QED BY <2>2, <3>1, <1>1, TriggerFacts DEF FreshShape
  <2> QED BY <2>1, <2>2 DEF FreshShape
<1>11. BatchShape'
  <2>1. ASSUME NEW x \in Reqs, NEW c \in Reqs, NEW d \in Reqs, InBatch(x, c)', InBatch(x, d)'
        PROVE  c = d
    <3>1. (InBatch(x, c) \/ (x = r /\ c = b)) /\ (InBatch(x, d) \/ (x = r /\ d = b))
      BY <2>1, <1>3
    <3> QED BY <3>1, <1>4 DEF BatchShape
  <2>2. \A x, c \in Reqs : InBatch(x, c)' => InBatch(c, c)'
    BY <1>3, <1>7, <1>2 DEF BatchShape
  <2>3. ASSUME NEW z \in Bizs, batches'[z] # None
        PROVE  InBatch(batches[z], batches[z])' /\ BizOf[batches'[z]] = z
    <3>1. CASE z = BizOf[r]
      <4>1. batches'[z] = b /\ InBatch(b, b)'
        BY <3>1, <1>1, <1>2, <1>3, <1>7
      <4>2. BizOf[b] = z
        BY <3>1, <1>b DEF BatchShape
      <4> QED BY <4>1, <4>2 DEF InBatch
    <3>2. CASE z # BizOf[r]
      <4>1. batches'[z] = batches[z] /\ batches[z] \in Reqs
        BY <3>2, <2>3, <1>1, <1>2
      <4>2. InBatch(batches[z], batches[z]) /\ BizOf[batches[z]] = z
        BY <4>1 DEF BatchShape
      <4>3. PICK c \in Reqs : c = batches[z]
        BY <4>1
      <4>4. InBatch(c, c)'
        BY <4>2, <4>3, <1>3
      <4> QED BY <4>1, <4>2, <4>3, <4>4 DEF InBatch
    <3> QED BY <3>1, <3>2
  <2>4. ASSUME NEW g \in Triggers, batch'[g] # None
        PROVE  InBatch(batch[g], batch[g])'
    <3>1. PICK c \in Reqs : c = batch[g] /\ batch'[g] = c
      BY <2>4, <1>1
    <3>2. InBatch(c, c)'
      BY <3>1, <1>3 DEF BatchShape
    <3> QED BY <3>1, <3>2 DEF InBatch
  <2> QED BY <2>1, <2>2, <2>3, <2>4 DEF BatchShape
<1>12. OwnerShape'
  <2>1. \A g \in Triggers : tg'[g] \in {"none", "take"} => batch'[g] = None
    <3>1. tg[<<"size", r>>] = "none"
      BY <1>1 DEF FreshShape
    <3> QED BY ZenonT(60), <3>1, <1>1, TriggerFacts DEF OwnerShape
  <2>2. \A g \in Triggers : tg'[g] \in {"call", "distribute"} => batch'[g] # None
    BY ZenonT(60), <1>1, TriggerFacts DEF OwnerShape
  <2>3. \A f, g \in Triggers : (batch'[g] # None /\ batch'[f] = batch'[g]) => f = g
    BY <1>1 DEF OwnerShape
  <2>4. \A g \in Triggers, z \in Bizs : batch'[g] # None => batches'[z] # batch'[g]
    BY <1>1, <1>2, <1>6 DEF OwnerShape
  <2>5. ASSUME NEW c \in Reqs, InBatch(c, c)'
        PROVE  (\E z \in Bizs : batches'[z] = c) \/ (\E g \in Triggers : batch'[g] = c)
    <3>1. CASE c = b
      BY <3>1, <1>1, <1>2
    <3>2. CASE c # b
      <4>1. InBatch(c, c)
        BY <3>2, <2>5, <1>3
      <4>2. \A z \in Bizs : batches[z] = c => z # BizOf[r]
        BY <3>2, <1>b
      <4> QED BY <4>1, <4>2, <1>1 DEF OwnerShape
    <3> QED BY <3>1, <3>2
  <2> QED BY <2>1, <2>2, <2>3, <2>4, <2>5 DEF OwnerShape
<1>13. StopShape'
  BY <1>1, TriggerFacts DEF StopShape
<1> QED BY <1>8, <1>9, <1>10, <1>11, <1>12, <1>13
\* The select of OnReceive: the result, or stopCh.
LEMMA CoReceive ==
  ASSUME CoIInv, NEW r \in Reqs, ReceiveResult(r) \/ ReceiveStop(r) PROVE CoIInv'
<1> USE CoordinatorAssumption DEF CoordinatorAssumption, CoIInv, TypeOK, Return,
        ReceiveResult, ReceiveStop, batchVars, trigVars, stopVars
<1>1. \A x, c \in Reqs : InBatch(x, c)' <=> InBatch(x, c)
  BY InBatchUnchanged
<1>0. PICK v \in Reqs \union Errors :
        /\ Return(r, v)
        /\ pc[r] = "wait"
        /\ v = resultChan[r] \/ v = "stopped"
  BY DEF Errors
<1>2. TypeOK'
  BY <1>0
<1>3. ResultShape'
  <2>1. v \in Errors \union {r}
    BY <1>0 DEF ResultShape, Errors
  <2> QED BY <2>1, <1>0 DEF ResultShape
<1>4. FreshShape'
  BY <1>0, <1>1 DEF FreshShape
<1>5. BatchShape'
  BY <1>1 DEF BatchShape
<1>6. OwnerShape'
  BY ZenonT(60), <1>1 DEF OwnerShape
<1>7. StopShape'
  BY DEF StopShape
<1> QED BY <1>2, <1>3, <1>4, <1>5, <1>6, <1>7

\* The timer of a batch fires.
LEMMA CoTimerFires ==
  ASSUME CoIInv, NEW r \in Reqs, TimerFires(r) PROVE CoIInv'
<1> USE CoordinatorAssumption DEF CoordinatorAssumption, CoIInv, TypeOK, TimerFires,
        callVars, batchVars, stopVars
<1>1. \A x, c \in Reqs : InBatch(x, c)' <=> InBatch(x, c)
  BY InBatchUnchanged
<1>2. TypeOK'
  BY TriggerFacts
<1>3. ResultShape'
  BY DEF ResultShape
<1>0. tg[<<"timer", r>>] = "none" /\ pc[r] \notin {"idle", "add"}
  BY DEF FreshShape
<1>4. FreshShape'
  <2>1. \A x \in Reqs : <<"size", x>> # <<"timer", r>> /\ (x # r => <<"timer", x>> # <<"timer", r>>)
    OBVIOUS
  <2> QED BY <2>1, <1>0, <1>1, TriggerFacts DEF FreshShape
<1>5. BatchShape'
  BY <1>1 DEF BatchShape
<1>6. OwnerShape'
  BY ZenonT(60), <1>0, <1>1, TriggerFacts DEF OwnerShape
<1>7. StopShape'
  <2>1. \A z \in Bizs : <<"stop", z>> # <<"timer", r>>
    OBVIOUS
  <2> QED BY <2>1, TriggerFacts DEF StopShape
<1> QED BY <1>2, <1>3, <1>4, <1>5, <1>6, <1>7

\* A batch of the map is taken over by one goroutine.
LEMMA CoTake ==
  ASSUME CoIInv, NEW g \in Triggers, Take(g) PROVE CoIInv'
<1> USE CoordinatorAssumption DEF CoordinatorAssumption, CoIInv, TypeOK, Take, Taken,
        callVars, stopVars
<1>1. \A x, c \in Reqs : InBatch(x, c)' <=> InBatch(x, c)
  BY InBatchUnchanged
<1>0. TriggerBiz(g) \in Bizs
  BY TriggerFacts
<1>2. TypeOK'
  BY ZenonT(60), <1>0 DEF Errors
<1>3. ResultShape'
  BY DEF ResultShape
<1>4. FreshShape'
  <2>1. \A f \in Triggers : tg[f] = "none" => tg'[f] = "none"
    OBVIOUS
  <2>2. \A x \in Reqs : timer'[x] = "on" => timer[x] = "on"
    BY <1>0
  <2>3. \A x \in Reqs : timer[x] = "off" => timer'[x] = "off"
    BY <1>0
  <2> QED BY ZenonT(60), <2>1, <2>2, <2>3, <1>1, TriggerFacts DEF FreshShape
<1>a. CASE batches[TriggerBiz(g)] = None
  <2>1. BatchShape'
    BY <1>a, <1>1 DEF BatchShape
  <2>2. OwnerShape'
    <3>1. tg' = [tg EXCEPT ![g] = "done"] /\ UNCHANGED <<batch, batches>>
      BY <1>a
    <3>2. \A f \in Triggers : tg'[f] \in {"none", "take", "call", "distribute"} => tg'[f] = tg[f]
      BY <3>1
    <3> QED BY <3>1, <3>2, <1>1 DEF OwnerShape
  <2>3. StopShape'
    <3>1. \A z \in Bizs : batches[z] # None => <<"stop", z>> # g
      BY <1>a, TriggerFacts
    <3> QED BY <3>1, <1>a, TriggerFacts DEF StopShape
  <2> QED BY <2>1, <2>2, <2>3, <1>2, <1>3, <1>4
<1>b. CASE batches[TriggerBiz(g)] # None
  <2>1. PICK b \in Reqs : b = batches[TriggerBiz(g)]
    BY <1>b, <1>0
  <2>2. /\ batches' = [batches EXCEPT ![TriggerBiz(g)] = None]
        /\ batch' = [batch EXCEPT ![g] = b]
        /\ \/ tg' = [tg EXCEPT ![g] = "call"]
           \/ tg' = [tg EXCEPT ![g] = "distribute"]
    BY <1>b, <2>1
  <2>3. InBatch(b, b) /\ \A z \in Bizs : batches[z] = b => z = TriggerBiz(g)
    BY <1>b, <1>0, <2>1 DEF BatchShape
  <2>4. BatchShape'
    <3>1. ASSUME NEW f \in Triggers, batch'[f] # None
          PROVE  InBatch(batch[f], batch[f])'
      <4>1. PICK c \in Reqs : c = batch'[f]
        BY <3>1, <1>2
      <4>2. InBatch(c, c)
        BY <4>1, <3>1, <2>2, <2>3 DEF BatchShape
      <4> QED BY <4>1, <4>2, <1>1 DEF InBatch
    <3>2. ASSUME NEW z \in Bizs, batches'[z] # None
          PROVE  InBatch(batches[z], batches[z])' /\ BizOf[batches'[z]] = z
      <4>1. PICK c \in Reqs : c = batches'[z]
        BY <3>2, <1>2
      <4>2. c = batches[z]
        BY <4>1, <2>2, <1>0
      <4>3. InBatch(c, c) /\ BizOf[c] = z
        BY <4>2 DEF BatchShape
      <4> QED BY <4>1, <4>3, <1>1 DEF InBatch
    <3> QED BY <3>1, <3>2, <1>1 DEF BatchShape
  <2>5. \A f \in Triggers : batch[f] # b
    BY <2>1, <1>0 DEF OwnerShape
  <2>6. OwnerShape'
    <3>1. ASSUME NEW c \in Reqs, InBatch(c, c)'
          PROVE  (\E z \in Bizs : batches'[z] = c) \/ (\E f \in Triggers : batch'[f] = c)
      <4>1. CASE c = b
        BY <4>1, <2>2
      <4>2. CASE c # b
        <5>1. CASE \E z \in Bizs : batches[z] = c
          <6>1. PICK z \in Bizs : batches[z] = c
            BY <5>1
          <6>2. batches'[z] = c
            BY <6>1, <4>2, <2>1, <2>2
          <6> QED BY <6>2
        <5>2. CASE \E f \in Triggers : batch[f] = c
          <6>1. PICK f \in Triggers : batch[f] = c
            BY <5>2
          <6>2. batch'[f] = c
            BY <6>1, <2>2 DEF OwnerShape
          <6> QED BY <6>2
        <5> QED BY <5>1, <5>2, <3>1, <1>1 DEF OwnerShape
      <4> QED BY <4>1, <4>2
    <3>2. \A f \in Triggers, z \in Bizs : batch'[f] # None => batches'[z] # batch'[f]
      BY <2>2, <2>3, <1>0 DEF OwnerShape
    <3>3. \A e, f \in Triggers : (batch'[f] # None /\ batch'[e] = batch'[f]) => e = f
      BY <2>2, <2>5 DEF OwnerShape
    <3>4. \A f \in Triggers : tg'[f] \in {"none", "take"} => batch'[f] = None
      BY <2>2 DEF OwnerShape
    <3>5. \A f \in Triggers : tg'[f] \in {"call", "distribute"} => batch'[f] # None
      BY <2>2 DEF OwnerShape
    <3> QED BY <3>1, <3>2, <3>3, <3>4, <3>5 DEF OwnerShape
  <2>7. StopShape'
    <3>1. \A z \in Bizs : batches'[z] # None => batches[z] = batches'[z] /\ <<"stop", z>> # g
      BY <2>2, <1>0, TriggerFacts
    <3> QED BY <3>1, <2>2, TriggerFacts DEF StopShape
  <2> QED BY <2>4, <2>6, <2>7, <1>2, <1>3, <1>4
<1> QED BY <1>a, <1>b
\* A call of the backend returns.
LEMMA CoCall ==
  ASSUME CoIInv, NEW g \in Triggers, CallAnswered(g) \/ CallFailed(g) PROVE CoIInv'
<1> USE CoordinatorAssumption DEF CoordinatorAssumption, CoIInv, TypeOK,
        callVars, batchVars, stopVars
<1>0. /\ tg[g] = "call" /\ tg' \in {tg, [tg EXCEPT ![g] = "distribute"]}
      /\ UNCHANGED <<callVars, resultChan, batchVars, timer, batch, stopVars>>
  BY DEF CallAnswered, CallFailed, Outcome
<1>1. \A x, c \in Reqs : InBatch(x, c)' <=> InBatch(x, c)
  BY <1>0, InBatchUnchanged
<1>2. TypeOK'
  <2>1. 0 \in 0..(MaxTries - 1)
    OBVIOUS
  <2>2. tries[g] \in 0..(MaxTries - 1) /\ (TriesLeft(g) => tries[g] + 1 \in 0..(MaxTries - 1))
    BY DEF TriesLeft
  <2>3. tries' \in [Triggers -> 0..(MaxTries - 1)]
    BY <2>1, <2>2 DEF CallAnswered, CallFailed, Outcome
  <2>4. outcome' \in [Triggers -> Errors \union {"ok", None}]
    BY DEF CallAnswered, CallFailed, Outcome, Errors
  <2> QED BY <2>3, <2>4, <1>0
<1>3. ResultShape'
  BY <1>0 DEF ResultShape
<1>4. FreshShape'
  BY ZenonT(60), <1>0, <1>1, TriggerFacts DEF FreshShape
<1>5. BatchShape'
  BY <1>0, <1>1 DEF BatchShape
<1>6. OwnerShape'
  <2>1. \A f \in Triggers : tg'[f] \in {"none", "take"} => tg[f] \in {"none", "take"}
    BY <1>0
  <2>2. \A f \in Triggers : tg'[f] \in {"call", "distribute"} => tg[f] \in {"call", "distribute"}
    BY <1>0
  <2> QED BY <2>1, <2>2, <1>0, <1>1 DEF OwnerShape
<1>7. StopShape'
  BY <1>0, TriggerFacts DEF StopShape
<1> QED BY <1>2, <1>3, <1>4, <1>5, <1>6, <1>7

\* What distributeResults and distributeError put into a request's channel:
\* the request's own response, or the error of Process.
LEMMA Distributed ==
  ASSUME CoIInv, NEW g \in Triggers, Distribute(g), NEW r \in Reqs
  PROVE  \/ resultChan'[r] = resultChan[r]
         \/ resultChan'[r] = r /\ outcome[g] = "ok" /\ InBatch(r, batch[g])
         \/ resultChan'[r] = outcome[g] /\ outcome[g] # "ok"
<1> DEFINE rs == requests[batch[g]]
           Mine == \E i \in 1..Len(rs) : rs[i] = r
<1>1. resultChan'[r] = IF resultChan[r] = None /\ Mine
                         THEN ResponseFor(g, CHOOSE i \in 1..Len(rs) : rs[i] = r)
                         ELSE resultChan[r]
  BY DEF Distribute
<1>2. CASE Mine
  <2>1. PICK i : i = CHOOSE j \in 1..Len(rs) : rs[j] = r
    OBVIOUS
  <2>2. i \in 1..Len(rs) /\ rs[i] = r
    BY <1>2, <2>1
  <2>3. ResponseFor(g, i) = IF outcome[g] = "ok" THEN r ELSE outcome[g]
    BY <2>2 DEF ResponseFor
  <2>4. InBatch(r, batch[g])
    BY <1>2 DEF InBatch
  <2> QED BY <1>1, <2>1, <2>3, <2>4
<1>3. CASE ~Mine
  BY <1>1, <1>3
<1> QED BY <1>2, <1>3

\* distributeResults and distributeError.
LEMMA CoDistribute ==
  ASSUME CoIInv, NEW g \in Triggers, Distribute(g) PROVE CoIInv'
<1> USE CoordinatorAssumption DEF CoordinatorAssumption, CoIInv, TypeOK,
        callVars, batchVars, stopVars
<1>0. /\ tg[g] = "distribute" /\ tg' = [tg EXCEPT ![g] = "done"]
      /\ outcome' = [outcome EXCEPT ![g] = None]
      /\ resultChan' = [x \in Reqs |-> resultChan'[x]]
      /\ UNCHANGED <<callVars, batchVars, timer, batch, tries, stopVars>>
  BY DEF Distribute
<1>1. \A x, c \in Reqs : InBatch(x, c)' <=> InBatch(x, c)
  BY <1>0, InBatchUnchanged
<1>3. ResultShape'
  <2>1. \A r \in Reqs : resultChan'[r] \in Errors \union {r, None}
    <3>1. outcome[g] \in Errors \union {"ok", None}
      OBVIOUS
    <3> QED BY <3>1, Distributed DEF ResultShape
  <2> QED BY <1>0, <2>1 DEF ResultShape
<1>2. TypeOK'
  <2>1. \A r \in Reqs : resultChan'[r] \in Reqs \union Errors \union {None}
    BY <1>3 DEF ResultShape
  <2> QED BY <1>0, <2>1
<1>4. FreshShape'
  BY <1>0, <1>1, TriggerFacts DEF FreshShape
<1>5. BatchShape'
  BY <1>0, <1>1 DEF BatchShape
<1>6. OwnerShape'
  <2>1. \A f \in Triggers : tg'[f] \in {"none", "take", "call", "distribute"} => tg'[f] = tg[f]
    BY <1>0
  <2> QED BY <2>1, <1>0, <1>1 DEF OwnerShape
<1>7. StopShape'
  BY <1>0, TriggerFacts DEF StopShape
<1> QED BY <1>2, <1>3, <1>4, <1>5, <1>6, <1>7

\* Stop begins: from now on nothing enters the map, and each batch in it has a
\* goroutine of Stop to come.
LEMMA CoStopBegin ==
  ASSUME CoIInv, StopBegin PROVE CoIInv'
<1> USE CoordinatorAssumption DEF CoordinatorAssumption, CoIInv, TypeOK, StopBegin,
        callVars, batchVars, stopVars
<1>1. \A x, c \in Reqs : InBatch(x, c)' <=> InBatch(x, c)
  BY InBatchUnchanged
<1>2. TypeOK'
  OBVIOUS
<1>3. ResultShape'
  BY DEF ResultShape
<1>0. \A g \in Triggers : \/ tg'[g] = tg[g]
                          \/ tg[g] = "none" /\ tg'[g] = "take" /\ \E z \in pending' : g = <<"stop", z>>
  BY DEF StopShape, Triggers
<1>4. FreshShape'
  <2>1. \A x \in Reqs : tg'[<<"size", x>>] = tg[<<"size", x>>] /\ tg'[<<"timer", x>>] = tg[<<"timer", x>>]
    BY TriggerFacts
  <2> QED BY ZenonT(60), <2>1, <1>1 DEF FreshShape
<1>5. BatchShape'
  BY <1>1 DEF BatchShape
<1>6. OwnerShape'
  <2>1. \A g \in Triggers : \/ tg'[g] = tg[g]
                            \/ tg[g] = "none" /\ tg'[g] = "take"
    BY <1>0
  <2>2. \A g \in Triggers : tg'[g] \in {"none", "take"} => tg[g] \in {"none", "take"}
    BY <2>1
  <2>3. \A g \in Triggers : tg'[g] \in {"call", "distribute"} => tg[g] \in {"call", "distribute"}
    BY <2>1
  <2> QED BY ZenonT(60), <2>2, <2>3, <1>1 DEF OwnerShape
<1>7. StopShape'
  BY TriggerFacts DEF StopShape
<1> QED BY <1>2, <1>3, <1>4, <1>5, <1>6, <1>7

\* Stop ends: the map that it replaces is empty already.
LEMMA CoStopEnd ==
  ASSUME CoIInv, StopEnd PROVE CoIInv'
<1> USE CoordinatorAssumption DEF CoordinatorAssumption, CoIInv, TypeOK, StopEnd,
        callVars, trigVars
<1>1. \A x, c \in Reqs : InBatch(x, c)' <=> InBatch(x, c)
  BY InBatchUnchanged
<1>2. TypeOK'
  OBVIOUS
<1>0. \A z \in Bizs : batches[z] = None
  BY DEF StopShape
<1>3. ResultShape'
  BY DEF ResultShape
<1>4. FreshShape'
  BY <1>1 DEF FreshShape
<1>5. BatchShape'
  BY <1>1 DEF BatchShape
<1>6. OwnerShape'
  BY <1>0, <1>1 DEF OwnerShape
<1>7. StopShape'
  BY <1>0 DEF StopShape
<1> QED BY <1>2, <1>3, <1>4, <1>5, <1>6, <1>7
-----------------------------------------------------------------------------
(* The handler and the backend.                                            *)

\* The actions of the coordinator.
CoAct ==
    \/ \E r \in Reqs : OnReceive(r) \/ Call(r) \/ TimerFires(r)
    \/ \E g \in Triggers : Take(g) \/ Distribute(g) \/ CallAnswered(g) \/ CallFailed(g)
    \/ StopBegin \/ StopEnd

\* A step of the whole is a step of the coordinator, or leaves it alone.
LEMMA StepOfCoordinator == ASSUME [BatchNext]_allVars PROVE CoAct \/ UNCHANGED vars
  BY DEF BatchNext, CoAct, Handler, CacheMessage, CacheFails, Forward, ForwardReturns,
         DeleteCacheMessage, Goroutines, Answered, Failed, BatchFinished, allVars

\* The coordinator's invariant is inductive.
LEMMA CoInductive == ASSUME CoIInv, [BatchNext]_allVars PROVE CoIInv'
<1>1. CASE CoAct
  BY <1>1, CoOnReceive, CoAddRefused, CoAddToBatch, CoReceive, CoTimerFires, CoTake, CoCall,
     CoDistribute, CoStopBegin, CoStopEnd DEF CoAct, Call
<1>2. CASE UNCHANGED vars
  <2> USE <1>2 DEF CoIInv, vars, callVars, batchVars, trigVars, stopVars
  <2>1. TypeOK'
    BY DEF TypeOK
  <2>2. ResultShape' /\ StopShape'
    BY DEF ResultShape, StopShape
  <2>3. FreshShape' /\ BatchShape' /\ OwnerShape'
    BY DEF FreshShape, BatchShape, OwnerShape, InBatch
  <2> QED BY <2>1, <2>2, <2>3
<1> QED BY <1>1, <1>2, StepOfCoordinator

\* The types of the handler's state.
LEMMA BatchTyped == ASSUME CoIInv, BatchTypeOK, [BatchNext]_allVars PROVE BatchTypeOK'
<1> USE BatchUpstreamAssumption DEF BatchUpstreamAssumption, BatchTypeOK, CoIInv
<1>1. TypeOK'
  BY CoInductive
<1>2. h' \in [Reqs -> {"idle", "forward", "delete", "done"}]
  BY DEF BatchNext, Handler, CacheMessage, CacheFails, Forward, ForwardReturns, Forwarded,
         SendUpstreamMessageAck, Fails, Goto, DeleteCacheMessage, Goroutines, Answered, Failed,
         BatchFinished, allVars, handlerVars
<1>3. cache' \in SUBSET Keys /\ acked' \in SUBSET Keys /\ spoilt' \in SUBSET Keys
  BY DEF BatchNext, Handler, CacheMessage, CacheFails, Forward, ForwardReturns, Forwarded,
         SendUpstreamMessageAck, Fails, Goto, DeleteCacheMessage, Goroutines, Answered, Failed,
         BatchFinished, allVars, handlerVars
<1>4. handled' \in SUBSET Keys
  <2>1. ASSUME NEW g \in Triggers, tg[g] = "call" PROVE KeysOf(g) \in SUBSET Keys
    <3>1. batch[g] \in Reqs /\ requests[batch[g]] \in Seq(Reqs)
      BY <2>1 DEF OwnerShape, TypeOK
    <3> QED BY <3>1 DEF KeysOf
  <2>2. ASSUME NEW g \in Triggers, Answered(g) \/ Failed(g) PROVE handled' \in SUBSET Keys
    BY <2>1, <2>2 DEF Answered, Failed, CallAnswered, CallFailed
  <2> QED BY <2>2 DEF BatchNext, Handler, CacheMessage, CacheFails, Forward, ForwardReturns,
         DeleteCacheMessage, Goroutines, BatchFinished, allVars, handlerVars
<1> QED BY <1>1, <1>2, <1>3, <1>4

\* What the backend has processed stays so.
LEMMA HandledGrows == ASSUME [BatchNext]_allVars PROVE handled \subseteq handled'
  BY DEF BatchNext, Handler, CacheMessage, CacheFails, Forward, ForwardReturns,
         DeleteCacheMessage, Goroutines, Answered, Failed, BatchFinished, allVars, handlerVars

\* What a call returned stays so.
LEMMA RetStays ==
  ASSUME CoIInv, [BatchNext]_allVars, NEW r \in Reqs PROVE ret'[r] = ret[r] \/ ret[r] = None
  BY ZenonT(60), StepOfCoordinator DEF CoAct, Call, OnReceive, Return, AddRefused, AddToBatch, ReceiveResult,
     ReceiveStop, TimerFires, Take, Distribute, CallAnswered, CallFailed, StopBegin, StopEnd,
     callVars, vars, CoIInv, TypeOK, ResultShape

\* A batch that a goroutine has taken stays its batch and gets no new requests.
LEMMA TakenKept ==
  ASSUME CoIInv, [BatchNext]_allVars, NEW g \in Triggers, NEW c \in Reqs, batch[g] = c
  PROVE  batch'[g] = c /\ \A x \in Reqs : InBatch(x, c)' <=> InBatch(x, c)
<1> USE CoordinatorAssumption DEF CoordinatorAssumption, CoIInv, TypeOK
<1>1. batch'[g] = c
  <2>1. tg[g] \notin {"none", "take"}
    BY DEF OwnerShape
  <2> QED BY <2>1, StepOfCoordinator DEF CoAct, Call, OnReceive, AddRefused, AddToBatch,
             ReceiveResult, ReceiveStop, TimerFires, Take, Distribute, CallAnswered, CallFailed,
             StopBegin, StopEnd, trigVars, vars
<1>2. ASSUME NEW r \in Reqs, AddToBatch(r) PROVE \A x \in Reqs : InBatch(x, c)' <=> InBatch(x, c)
  <2>1. PICK b \in Reqs : b = IF batches[BizOf[r]] = None THEN r ELSE batches[BizOf[r]]
    OBVIOUS
  <2>2. pc[r] = "add" /\ requests' = [requests EXCEPT ![b] = Append(@, r)]
    BY <1>2, <2>1 DEF AddToBatch
  <2>3. ~InBatch(r, r)
    BY <2>2 DEF FreshShape
  <2>4. c # b
    BY <2>1, <2>3 DEF OwnerShape, BatchShape
  <2> QED BY ZenonT(60), <2>2, <2>4, AppendAdds
<1>3. CASE UNCHANGED requests
  BY <1>1, <1>3, InBatchUnchanged
<1> QED BY <1>1, <1>2, <1>3, StepOfCoordinator DEF CoAct, Call, OnReceive, AddRefused,
           ReceiveResult, ReceiveStop, TimerFires, Take, Distribute, CallAnswered, CallFailed,
           StopBegin, StopEnd, batchVars, vars

\* The keys of a batch are those of the requests in it.
LEMMA KeysOfBatch ==
  ASSUME CoIInv, NEW g \in Triggers, NEW r \in Reqs, InBatch(r, batch[g])
  PROVE  KeyOf[r] \in KeysOf(g)
<1>1. PICK i \in 1..Len(requests[batch[g]]) : requests[batch[g]][i] = r
  BY DEF InBatch
<1> QED BY <1>1 DEF KeysOf

\* The results that wait to be distributed.
LEMMA OutcomesHandled ==
  ASSUME CoIInv, HandledShape, [BatchNext]_allVars, NEW g \in Triggers, tg'[g] = "distribute"
  PROVE  /\ outcome'[g] \in Errors \union {"ok"}
         /\ outcome'[g] = "ok" => \A r \in Reqs : InBatch(r, batch[g])' => KeyOf[r] \in handled'
<1> USE DEF CoIInv, TypeOK
<1>1. CASE tg[g] = "distribute"
  <2>1. outcome'[g] = outcome[g]
    BY ZenonT(60), <1>1, StepOfCoordinator DEF CoAct, Call, OnReceive, AddRefused, AddToBatch, ReceiveResult,
       ReceiveStop, TimerFires, Take, Distribute, CallAnswered, CallFailed, Outcome, StopBegin,
       StopEnd, trigVars, vars
  <2>2. PICK c \in Reqs : batch[g] = c
    BY <1>1 DEF OwnerShape
  <2>3. batch'[g] = c /\ \A r \in Reqs : InBatch(r, c)' <=> InBatch(r, c)
    BY <2>2, TakenKept
  <2>4. \A r \in Reqs : InBatch(r, batch[g])' => InBatch(r, batch[g])
    BY <2>2, <2>3 DEF InBatch
  <2> QED BY <1>1, <2>1, <2>4, HandledGrows DEF HandledShape
<1>2. CASE tg[g] # "distribute"
  <2>1. \/ Take(g) /\ outcome'[g] = "unknownBizID"
        \/ Answered(g)
        \/ Failed(g) /\ outcome'[g] = "maxRetries"
    <3>1. ASSUME NEW f \in Triggers, f # g, Take(f) \/ Distribute(f) \/ CallAnswered(f) \/ CallFailed(f)
          PROVE  FALSE
      BY <3>1, <1>2 DEF Take, Distribute, CallAnswered, CallFailed, Outcome
    <3>2. ASSUME Take(g) PROVE outcome'[g] = "unknownBizID"
      BY <3>2, <1>2 DEF Take
    <3>3. ASSUME Failed(g) PROVE outcome'[g] = "maxRetries"
      BY <3>3, <1>2 DEF Failed, CallFailed, Outcome
    <3>4. ~Distribute(g)
      BY <1>2 DEF Distribute
    <3>5. ASSUME NEW r \in Reqs, OnReceive(r) \/ Call(r) \/ TimerFires(r) PROVE FALSE
      BY <3>5, <1>2 DEF OnReceive, Call, AddRefused, AddToBatch, ReceiveResult, ReceiveStop,
         TimerFires, trigVars
    <3>6. ~StopBegin /\ ~StopEnd
      BY <1>2 DEF StopBegin, StopEnd, trigVars
    <3>7. ~UNCHANGED vars
      BY <1>2 DEF vars, trigVars
    <3> QED BY <3>1, <3>2, <3>3, <3>4, <3>5, <3>6, <3>7 DEF BatchNext, Handler, CacheMessage,
               CacheFails, Forward, ForwardReturns, DeleteCacheMessage, Goroutines, Answered,
               Failed, BatchFinished, allVars
  <2>2. ASSUME Answered(g), outcome'[g] = "ok", NEW r \in Reqs, InBatch(r, batch[g])'
        PROVE  KeyOf[r] \in handled'
    <3>1. UNCHANGED <<requests, batch>> /\ handled' = handled \union KeysOf(g)
      BY <2>2 DEF Answered, CallAnswered, batchVars
    <3>2. InBatch(r, batch[g])
      BY <3>1, <2>2 DEF InBatch
    <3> QED BY <3>1, <3>2, KeysOfBatch
  <2>3. ASSUME Answered(g) PROVE outcome'[g] \in {"ok", "mismatch"}
    BY <2>3 DEF Answered, CallAnswered, Outcome
  <2> QED BY <2>1, <2>2, <2>3 DEF Errors
<1> QED BY <1>1, <1>2

\* The response in a channel, or returned, is of a processed request.
LEMMA ResponsesHandled ==
  ASSUME CoIInv, HandledShape, [BatchNext]_allVars, NEW r \in Reqs, resultChan'[r] = r \/ ret'[r] = r
  PROVE  KeyOf[r] \in handled'
<1> USE CoordinatorAssumption DEF CoordinatorAssumption, CoIInv, TypeOK
<1>1. r \notin Errors
  OBVIOUS
<1>2. CASE resultChan[r] = r \/ ret[r] = r
  BY <1>2, HandledGrows DEF HandledShape
<1>3. CASE resultChan[r] # r /\ ret[r] # r
  <2>1. ASSUME NEW g \in Triggers, Distribute(g) PROVE KeyOf[r] \in handled'
    <3>1. ret'[r] = ret[r] /\ tg[g] = "distribute"
      BY <2>1 DEF Distribute, callVars
    <3>2. outcome[g] \in Errors \union {"ok"}
      BY <3>1 DEF HandledShape
    <3>3. outcome[g] = "ok" /\ InBatch(r, batch[g])
      BY <3>1, <3>2, <2>1, <1>1, <1>3, Distributed
    <3> QED BY <3>1, <3>3, HandledGrows DEF HandledShape
  <2>2. ASSUME NEW x \in Reqs, OnReceive(x) \/ AddRefused(x) \/ AddToBatch(x) \/ ReceiveResult(x)
                                \/ ReceiveStop(x) \/ TimerFires(x)
        PROVE  FALSE
    <3>1. "stopped" \in Errors
      BY DEF Errors
    <3> QED BY <3>1, <2>2, <1>1, <1>3 DEF OnReceive, AddRefused, AddToBatch, ReceiveResult,
               ReceiveStop, TimerFires, Return, callVars
  <2>3. ASSUME NEW g \in Triggers, Take(g) \/ CallAnswered(g) \/ CallFailed(g) PROVE FALSE
    BY <2>3, <1>3 DEF Take, CallAnswered, CallFailed, callVars
  <2>4. ~StopBegin /\ ~StopEnd /\ ~UNCHANGED vars
    BY <1>3 DEF StopBegin, StopEnd, vars, callVars
  <2> QED BY <2>1, <2>2, <2>3, <2>4, StepOfCoordinator DEF CoAct, Call
<1> QED BY <1>2, <1>3

\* The handler acknowledges a message only after a response to it.
LEMMA AcksHandled ==
  ASSUME CoIInv, HandledShape, [BatchNext]_allVars PROVE AckMeansHandled'
<1> USE DEF AckMeansHandled
<1>1. CASE acked' = acked
  BY <1>1, HandledGrows DEF HandledShape
<1>2. ASSUME NEW r \in Reqs, ForwardReturns(r) PROVE AckMeansHandled'
  <2>1. CASE ret[r] \in Errors
    BY <2>1, <1>1, <1>2 DEF ForwardReturns, Forwarded
  <2>2. CASE ret[r] \notin Errors
    <3>1. ret[r] = r
      BY <2>2, <1>2 DEF ForwardReturns, CoIInv, ResultShape
    <3>2. acked' \subseteq acked \union {KeyOf[r]}
      BY <2>2, <1>2 DEF ForwardReturns, Forwarded, SendUpstreamMessageAck
    <3> QED BY <3>1, <3>2, HandledGrows DEF HandledShape
  <2> QED BY <2>1, <2>2
<1> QED BY <1>1, <1>2 DEF BatchNext, Handler, CacheMessage, CacheFails, Forward,
           DeleteCacheMessage, Goroutines, Answered, Failed, BatchFinished, allVars, handlerVars

\* Responses stand for processed requests, and so do acknowledgements.
LEMMA HandledInductive ==
  ASSUME CoIInv, HandledShape, [BatchNext]_allVars PROVE HandledShape'
<1>1. \A g \in Triggers : tg'[g] = "distribute" => outcome'[g] \in Errors \union {"ok"}
  BY OutcomesHandled
<1>2. ASSUME NEW g \in Triggers, tg'[g] = "distribute", outcome'[g] = "ok",
             NEW r \in Reqs, InBatch(r, batch[g])'
      PROVE  KeyOf[r] \in handled'
  BY <1>2, OutcomesHandled
<1>3. \A r \in Reqs : (resultChan'[r] = r \/ ret'[r] = r) => KeyOf[r] \in handled'
  BY ResponsesHandled
<1> QED BY <1>1, <1>2, <1>3, AcksHandled DEF HandledShape

\* A key in the cache stays accounted for.
LEMMA ShutOutInductive ==
  ASSUME CoIInv, BatchTypeOK, HandledShape, ShutOutByStopOrMismatch, [BatchNext]_allVars
  PROVE  ShutOutByStopOrMismatch'
<1> USE CoordinatorAssumption, BatchUpstreamAssumption
    DEF CoordinatorAssumption, BatchUpstreamAssumption, BatchTypeOK
<1> SUFFICES ASSUME NEW k \in cache'
             PROVE  \/ Working(k)' \/ k \in handled' \/ k \in spoilt'
                    \/ \E r \in Reqs : KeyOf[r] = k /\ ret'[r] \in {"stopped", "mismatch"}
  BY DEF ShutOutByStopOrMismatch
<1>1. \A r \in Reqs : ret[r] \in {"stopped", "mismatch"} => ret'[r] = ret[r]
  BY RetStays DEF Errors
<1>2. CASE k \in cache /\ UNCHANGED h /\ spoilt \subseteq spoilt'
  <2>1. Working(k) => Working(k)'
    BY <1>2 DEF Working
  <2> QED BY <2>1, <1>1, <1>2, HandledGrows DEF ShutOutByStopOrMismatch
<1>3. ASSUME NEW r \in Reqs, CacheMessage(r)
      PROVE  \/ Working(k)' \/ k \in handled' \/ k \in spoilt'
             \/ \E x \in Reqs : KeyOf[x] = k /\ ret'[x] \in {"stopped", "mismatch"}
  <2>1. CASE k \in cache
    <3>1. Working(k) => Working(k)'
      BY <1>3, <2>1 DEF Working, CacheMessage, Unacknowledged, Goto
    <3> QED BY <3>1, <1>1, <1>3, <2>1, HandledGrows DEF ShutOutByStopOrMismatch, CacheMessage
  <2>2. CASE k \notin cache
    <3>1. KeyOf[r] = k /\ h'[r] = "forward"
      BY <1>3, <2>2 DEF CacheMessage, Goto
    <3> QED BY <3>1 DEF Working
  <2> QED BY <2>1, <2>2
<1>4. ASSUME NEW r \in Reqs, CacheFails(r)
      PROVE  \/ Working(k)' \/ k \in handled' \/ k \in spoilt'
             \/ \E x \in Reqs : KeyOf[x] = k /\ ret'[x] \in {"stopped", "mismatch"}
  <2>1. CASE k \in cache
    <3>1. Working(k) => Working(k)'
      BY <1>4, <2>1 DEF Working, CacheFails, Unacknowledged, Goto
    <3>2. spoilt \subseteq spoilt'
      BY <1>4 DEF CacheFails
    <3> QED BY <3>1, <3>2, <1>1, <2>1, HandledGrows DEF ShutOutByStopOrMismatch
  <2>2. CASE k \notin cache
    BY <1>4, <2>2 DEF CacheFails
  <2> QED BY <2>1, <2>2
<1>5. ASSUME NEW r \in Reqs, ForwardReturns(r)
      PROVE  \/ Working(k)' \/ k \in handled' \/ k \in spoilt'
             \/ \E x \in Reqs : KeyOf[x] = k /\ ret'[x] \in {"stopped", "mismatch"}
  <2>1. UNCHANGED <<cache, handled, spoilt, ret>> /\ h[r] = "forward" /\ pc[r] = "done"
    BY <1>5 DEF ForwardReturns, vars, callVars
  <2>2. CASE KeyOf[r] # k
    <3>1. Working(k) => Working(k)'
      BY <1>5, <2>2 DEF Working, ForwardReturns, Forwarded, SendUpstreamMessageAck, Fails, Goto
    <3> QED BY <3>1, <2>1 DEF ShutOutByStopOrMismatch
  <2>3. CASE KeyOf[r] = k
    <3>1. CASE ret[r] = r
      BY <3>1, <2>1, <2>3 DEF HandledShape
    <3>2. CASE ret[r] \in {"stopped", "mismatch"}
      BY <3>2, <2>1, <2>3
    <3>3. CASE ret[r] \in {"unknownBizID", "maxRetries"}
      <4>1. h'[r] = "delete"
        BY <3>3, <1>5 DEF ForwardReturns, Forwarded, Fails, Goto, shouldDeleteCacheOnError, Errors
      <4> QED BY <4>1, <2>3 DEF Working
    <3> QED BY <3>1, <3>2, <3>3, <2>1 DEF CoIInv, ResultShape, Errors
  <2> QED BY <2>2, <2>3
<1>6. ASSUME NEW r \in Reqs, DeleteCacheMessage(r)
      PROVE  \/ Working(k)' \/ k \in handled' \/ k \in spoilt'
             \/ \E x \in Reqs : KeyOf[x] = k /\ ret'[x] \in {"stopped", "mismatch"}
  <2>1. UNCHANGED <<handled, ret>> /\ spoilt \subseteq spoilt' /\ k \in cache
    BY <1>6 DEF DeleteCacheMessage, vars, callVars
  <2>2. CASE KeyOf[r] # k
    <3>1. Working(k) => Working(k)'
      BY <1>6, <2>2 DEF Working, DeleteCacheMessage, Goto
    <3> QED BY <3>1, <2>1 DEF ShutOutByStopOrMismatch
  <2>3. CASE KeyOf[r] = k
    BY <1>6, <2>3 DEF DeleteCacheMessage
  <2> QED BY <2>2, <2>3
<1> QED BY <1>2, <1>3, <1>4, <1>5, <1>6 DEF BatchNext, Handler, Forward, Goroutines, Answered,
           Failed, BatchFinished, allVars, handlerVars
-----------------------------------------------------------------------------
(* The theorems.                                                           *)

\* The invariant holds of every behaviour.
LEMMA BatchInvariant == BatchSpec => []BatchIInv
<1>1. BatchInit => BatchIInv
  <2> SUFFICES ASSUME BatchInit PROVE BatchIInv
    OBVIOUS
  <2>1. CoIInv
    BY CoInitially DEF BatchInit
  <2>2. BatchTypeOK
    BY <2>1 DEF BatchInit, BatchTypeOK, CoIInv
  <2>3. HandledShape
    BY CoordinatorAssumption DEF BatchInit, Init, HandledShape, AckMeansHandled, CoordinatorAssumption
  <2>4. ShutOutByStopOrMismatch
    BY DEF BatchInit, ShutOutByStopOrMismatch
  <2> QED BY <2>1, <2>2, <2>3, <2>4 DEF BatchIInv
<1>2. BatchIInv /\ [BatchNext]_allVars => BatchIInv'
  BY CoInductive, BatchTyped, HandledInductive, ShutOutInductive DEF BatchIInv
<1> QED BY <1>1, <1>2, PTL DEF BatchSpec

\* Every request that addToBatch accepts is in one batch, and the batch is in
\* the coordinator's map or with one triggerBatch goroutine, whichever of the
\* full batch, the timer and Stop comes first: none is lost when Stop replaces
\* the map, and none is sent to the backend twice.
THEOREM BatchOwnedOnce == BatchSpec => []OwnedOnce
<1>1. BatchIInv => OwnedOnce
  <2> SUFFICES ASSUME BatchIInv, NEW r \in Reqs
               PROVE  /\ Cardinality({b \in Reqs : InBatch(r, b)}) <= 1
                      /\ \A b \in Reqs : InBatch(r, b) => Cardinality(Owners(b)) = 1
    BY DEF OwnedOnce
  <2> USE DEF BatchIInv, CoIInv
  <2>1. Cardinality({b \in Reqs : InBatch(r, b)}) <= 1
    <3>1. CASE \A b \in Reqs : ~InBatch(r, b)
      <4>1. {b \in Reqs : InBatch(r, b)} = {}
        BY <3>1
      <4> QED BY <4>1, FS_EmptySet
    <3>2. CASE \E b \in Reqs : InBatch(r, b)
      <4>1. PICK b \in Reqs : InBatch(r, b)
        BY <3>2
      <4>2. {c \in Reqs : InBatch(r, c)} = {b}
        BY <4>1 DEF BatchShape
      <4> QED BY <4>2, FS_Singleton
    <3> QED BY <3>1, <3>2
  <2>2. ASSUME NEW b \in Reqs, InBatch(r, b) PROVE Cardinality(Owners(b)) = 1
    <3> USE CoordinatorAssumption DEF CoordinatorAssumption
    <3>1. InBatch(b, b) /\ b # None
      BY <2>2 DEF BatchShape
    <3>2. CASE \E z \in Bizs : batches[z] = b
      <4>1. PICK z \in Bizs : batches[z] = b
        BY <3>2
      <4>2. Owners(b) = {z}
        BY <4>1, <3>1 DEF Owners, BatchShape, OwnerShape
      <4> QED BY <4>2, FS_Singleton
    <3>3. CASE \E g \in Triggers : batch[g] = b
      <4>1. PICK g \in Triggers : batch[g] = b
        BY <3>3
      <4>2. Owners(b) = {g}
        BY <4>1, <3>1 DEF Owners, OwnerShape
      <4> QED BY <4>2, FS_Singleton
    <3> QED BY <3>1, <3>2, <3>3 DEF OwnerShape
  <2> QED BY <2>1, <2>2
<1> QED BY <1>1, BatchInvariant, PTL

\* The batch handler acknowledges only messages that were in a batch which the
\* backend has processed.
THEOREM BatchAckMeansHandled == BatchSpec => []AckMeansHandled
<1>1. BatchIInv => AckMeansHandled
  BY DEF BatchIInv, HandledShape
<1> QED BY <1>1, BatchInvariant, PTL

\* A message whose entry stays in the idempotency cache although the backend
\* never had it, so that its repetitions are dropped, met a failure of the
\* cache, the coordinator's Stop or a mismatched response: the handler deletes
\* the entry after every other error.
THEOREM BatchShutOut == BatchSpec => []ShutOutByStopOrMismatch
<1>1. BatchIInv => ShutOutByStopOrMismatch
  BY DEF BatchIInv
<1> QED BY <1>1, BatchInvariant, PTL
=============================================================================
