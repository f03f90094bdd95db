---------------------------- MODULE SSEHubProofs ----------------------------
(***************************************************************************)
(* Theorems about SSEHub, for any producers, scripts, streams and buffer   *)
(* capacity: a send never meets a closed channel, the registered hub is    *)
(* the only open one, and SSEHub implements EventFeed.                     *)
(***************************************************************************)
EXTENDS SSEHub, TLAPS

\* What GetOrCreate returns, and does to the registry.
LEMMA GetOrCreateRegistry ==
    ASSUME IInv, GetOrCreate, closed' = closed
    PROVE  /\ Found \in Hubs /\ current' \in Hubs \cup {None}
           /\ made' \in 0..MaxHubs
           /\ regLock' = regLock
           /\ RegistryInv'
<1>1. MaxHubs \in Nat /\ made \in 0..MaxHubs /\ Found \in Hubs
  BY ScriptAssumption DEF GetOrCreate, IInv, TypeOK
<1>2. CASE current = None
  <2>1. /\ current' = made + 1 /\ made' = made + 1 /\ regLock' = regLock
        /\ made + 1 \in 1..MaxHubs /\ Found = made + 1
    BY <1>1, <1>2 DEF GetOrCreate, Found, Hubs
  <2>2. regLock = None /\ ~closed[made + 1] /\ \A h \in 1..made : closed[h]
    <3>1. regLock = None
      BY DEF GetOrCreate
    <3>2. made + 1 \in Hubs /\ made + 1 > made /\ None \notin 1..made
      BY <1>1, <2>1, ScriptAssumption DEF Hubs
    <3>3. ~closed[made + 1]
      BY <3>2 DEF IInv, RegistryInv
    <3>4. \A h \in 1..made : closed[h]
      BY <1>2, <3>2 DEF IInv, RegistryInv, OneOpenHub
    <3> QED BY <3>1, <3>3, <3>4
  <2>3. \A h \in 1..(made + 1) : h \in 1..made \/ h = made + 1
    BY <1>1
  <2>4. \A h \in Hubs : h > made + 1 => ~closed[h]
    BY <1>1 DEF IInv, RegistryInv, Hubs
  <2>5. OneOpenHub'
    BY <2>1, <2>2, <2>3 DEF OneOpenHub
  <2> QED
    BY <1>1, <2>1, <2>2, <2>4, <2>5 DEF RegistryInv, Hubs
<1>3. CASE current # None
  BY <1>1, <1>3 DEF GetOrCreate, IInv, TypeOK, RegistryInv, OneOpenHub, Found, Hubs
<1> QED
  BY <1>2, <1>3

\* Steps that leave the registry and its hubs as they are.
LEMMA RegistryFrame ==
    ASSUME IInv, UNCHANGED <<regVars, closed>>
    PROVE  RegistryInv'
BY DEF IInv, RegistryInv, OneOpenHub, regVars

\* The event of a push under way.
LEMMA PushedEvent ==
    ASSUME TypeOK, NEW p \in Producers, at[p] \in Pos(p)
    PROVE  <<p, at[p]>> \in Events
BY DEF Events

\* What is taken from a buffer is an event, and what is left still fits.
LEMMA TakenTyped ==
    ASSUME TypeOK, NEW h \in Hubs, ch[h] # <<>>
    PROVE  /\ Head(ch[h]) \in Events
           /\ Taken(ch[h]) \in Seq(Events) /\ Len(Taken(ch[h])) <= Cap
<1>1. ch[h] \in Seq(Events) /\ Len(ch[h]) <= Cap
  BY DEF TypeOK
<1> DEFINE q == ch[h]
<1>2. Head(q) \in Events /\ Tail(q) \in Seq(Events) /\ Len(Tail(q)) = Len(q) - 1
  BY <1>1
<1> QED
  BY <1>1, <1>2, ScriptAssumption DEF Taken

\* A buffer that is not full has room for one more event.
LEMMA EnqueueTyped ==
    ASSUME TypeOK, NEW h \in Hubs, Len(ch[h]) # Cap, NEW e \in Events
    PROVE  Enqueue(ch[h], e) \in Seq(Events) /\ Len(Enqueue(ch[h], e)) <= Cap
<1>1. ch[h] \in Seq(Events) /\ Len(ch[h]) <= Cap
  BY DEF TypeOK
<1> QED
  BY <1>1, ScriptAssumption DEF Enqueue

LEMMA InitIInv == Init => IInv
<1> SUFFICES ASSUME Init PROVE IInv
  OBVIOUS
<1>1. TypeOK
  BY ScriptAssumption DEF Init, TypeOK, Events
<1>2. RegistryInv
  BY ScriptAssumption DEF Init, RegistryInv, OneOpenHub, Hubs
<1>3. \A p \in Producers : ProducerInv(p)
  BY DEF Init, ProducerInv
<1>4. \A s \in Streams : StreamInv(s)
  BY ScriptAssumption DEF Init, StreamInv
<1> QED
  BY <1>1, <1>2, <1>3, <1>4 DEF IInv

-----------------------------------------------------------------------------
(* Producers. *)

\* No step of a producer touches a stream.
LEMMA ProduceStreams ==
    ASSUME IInv, NEW p \in Producers, StartRun(p) \/ Produce(p)
    PROVE  /\ UNCHANGED strVars /\ closed' = closed
           /\ \A s \in Streams : StreamInv(s)'
<1>1. UNCHANGED strVars /\ closed' = closed
  BY DEF StartRun, Produce, PushCall, PushNow, PushFull, DrainTest, DrainRecv,
     DrainSend, RunEnd
<1>2. regLock' = regLock
  BY DEF StartRun, Produce, PushCall, PushNow, PushFull, DrainTest, DrainRecv,
     DrainSend, RunEnd, GetOrCreate, regVars
<1> QED
  BY <1>1, <1>2 DEF IInv, StreamInv, strVars

\* Lookups of the registry: the start of a run, and the push of an approval request.
LEMMA LookupIInv ==
    ASSUME IInv, NEW p \in Producers, StartRun(p) \/ PushCall(p)
    PROVE  IInv'
<1>1. UNCHANGED <<strVars, closed>> /\ \A s \in Streams : StreamInv(s)'
  BY ProduceStreams DEF Produce
<1>2. CASE StartRun(p)
  <2>1. /\ Found \in Hubs /\ RegistryInv'
        /\ current' \in Hubs \cup {None} /\ made' \in 0..MaxHubs /\ regLock' = regLock
    BY <1>1, <1>2, GetOrCreateRegistry DEF StartRun
  <2>2. TypeOK'
    BY <1>2, <2>1 DEF StartRun, IInv, TypeOK, strVars
  <2>3. \A q \in Producers : ProducerInv(q)'
    BY <1>2, <2>1 DEF StartRun, IInv, TypeOK, ProducerInv
  <2> QED
    BY <1>1, <2>1, <2>2, <2>3 DEF IInv
<1>3. CASE PushCall(p) /\ GetOrCreate /\ target' = [target EXCEPT ![p] = Found]
  <2>1. /\ Found \in Hubs /\ RegistryInv'
        /\ current' \in Hubs \cup {None} /\ made' \in 0..MaxHubs /\ regLock' = regLock
    BY <1>1, <1>3, GetOrCreateRegistry
  <2>2. TypeOK'
    BY <1>3, <2>1 DEF PushCall, IInv, TypeOK, strVars
  <2>3. \A q \in Producers : ProducerInv(q)'
    BY <1>3, <2>1 DEF PushCall, IInv, TypeOK, ProducerInv
  <2> QED
    BY <1>1, <2>1, <2>2, <2>3 DEF IInv
<1>4. CASE PushCall(p) /\ UNCHANGED regVars /\ target' = [target EXCEPT ![p] = hub[p]]
  <2>1. hub[p] \in Hubs
    BY <1>4 DEF PushCall, IInv, ProducerInv
  <2>2. TypeOK'
    BY <1>4, <2>1 DEF PushCall, IInv, TypeOK, strVars, regVars
  <2>3. \A q \in Producers : ProducerInv(q)'
    BY <1>4, <2>1 DEF PushCall, IInv, TypeOK, ProducerInv
  <2> QED
    BY <1>1, <1>4, <2>2, <2>3, RegistryFrame DEF IInv
<1> QED
  BY <1>2, <1>3, <1>4 DEF PushCall

\* The critical sections of Push.
LEMMA PushTypeOK ==
    ASSUME IInv, NEW p \in Producers,
           \/ PushNow(p) \/ PushFull(p) \/ DrainTest(p) \/ DrainRecv(p)
           \/ DrainSend(p) \/ RunEnd(p)
    PROVE  TypeOK'
<1> USE DEF IInv, ProducerInv
<1>1. CASE PushNow(p)
  <2> DEFINE h == target[p]
             q == Enqueue(ch[h], <<p, at[p]>>)
  <2>1. h \in Hubs /\ <<p, at[p]>> \in Events
    BY <1>1, PushedEvent DEF PushNow
  <2>2. \/ ch' = ch
        \/ ch' = [ch EXCEPT ![h] = q] /\ q \in Seq(Events) /\ Len(q) <= Cap
    BY <1>1, <2>1, EnqueueTyped DEF PushNow, IsFull
  <2>3. ch' \in [Hubs -> Seq(Events)] /\ \A g \in Hubs : Len(ch'[g]) <= Cap
    <3> HIDE DEF q
    <3>1. CASE ch' = ch
      BY <3>1 DEF TypeOK
    <3>2. CASE ch' = [ch EXCEPT ![h] = q] /\ q \in Seq(Events) /\ Len(q) <= Cap
      BY <2>1, <3>2 DEF TypeOK
    <3> QED BY <2>2, <3>1, <3>2
  <2> QED
    BY <1>1, <2>3 DEF PushNow, TypeOK, regVars, strVars
<1>2. CASE PushFull(p)
  BY <1>2 DEF PushFull, TypeOK, regVars, strVars
<1>3. CASE DrainTest(p) \/ RunEnd(p)
  <2>0. pc' = [pc EXCEPT ![p] = "recv"] \/ pc' = [pc EXCEPT ![p] = "done"]
    BY <1>3, Zenon DEF DrainTest, RunEnd
  <2>1. pc' \in [Producers -> {"idle", "next", "push", "drain", "recv", "done"}]
    BY <2>0 DEF TypeOK
  <2>2. UNCHANGED <<regVars, ch, closed, hubLock, hub, target, at, strVars, discarded>>
    BY <1>3 DEF DrainTest, RunEnd
  <2>3. UNCHANGED <<current, made, regLock, spc, shub, got, why>>
    BY <2>2 DEF regVars, strVars
  <2>4. ch' \in [Hubs -> Seq(Events)] /\ \A g \in Hubs : Len(ch'[g]) <= Cap
    BY <2>2 DEF TypeOK
  <2> QED
    BY <2>1, <2>2, <2>3, <2>4 DEF TypeOK
<1>4. CASE DrainRecv(p)
  <2> DEFINE h == target[p]
             q == Taken(ch[h])
             e == Head(ch[h])
  <2>1. h \in Hubs
    BY <1>4 DEF DrainRecv
  <2>2. e \in Events /\ q \in Seq(Events) /\ Len(q) <= Cap
    BY <1>4, <2>1, TakenTyped DEF DrainRecv
  <2>3. ch' = [ch EXCEPT ![h] = q] /\ discarded' = discarded \cup {<<e, p>>}
    BY <1>4 DEF DrainRecv
  <2> HIDE DEF q, e
  <2>4. ch' \in [Hubs -> Seq(Events)] /\ \A g \in Hubs : Len(ch'[g]) <= Cap
    BY <2>1, <2>2, <2>3 DEF TypeOK
  <2>5. discarded' \in SUBSET (Events \X Producers)
    BY <2>2, <2>3 DEF TypeOK
  <2> QED
    BY <1>4, <2>4, <2>5 DEF DrainRecv, TypeOK, regVars, strVars
<1>5. CASE DrainSend(p)
  <2> DEFINE h == target[p]
             q == Enqueue(ch[h], <<p, at[p]>>)
  <2>1. h \in Hubs /\ <<p, at[p]>> \in Events
    BY <1>5, PushedEvent DEF DrainSend
  <2>2. q \in Seq(Events) /\ Len(q) <= Cap
    BY <1>5, <2>1, EnqueueTyped, ScriptAssumption DEF DrainSend
  <2>3. ch' = [ch EXCEPT ![h] = q]
    BY <1>5 DEF DrainSend
  <2>4. ch' \in [Hubs -> Seq(Events)] /\ \A g \in Hubs : Len(ch'[g]) <= Cap
    <3> HIDE DEF q
    <3> QED BY <2>1, <2>2, <2>3 DEF TypeOK
  <2> QED
    <3>1. /\ pc' \in [Producers -> {"idle", "next", "push", "drain", "recv", "done"}]
          /\ hubLock' \in [Hubs -> Producers \cup {None}]
          /\ at' \in [Producers -> Nat \ {0}]
      BY <1>5 DEF DrainSend, TypeOK
    <3>2. UNCHANGED <<regVars, closed, hub, target, strVars, discarded>>
      BY <1>5 DEF DrainSend
    <3> QED BY <2>4, <3>1, <3>2 DEF TypeOK, regVars, strVars
<1> QED
  BY <1>1, <1>2, <1>3, <1>4, <1>5

LEMMA PushProducers ==
    ASSUME IInv, NEW p \in Producers,
           \/ PushNow(p) \/ PushFull(p) \/ DrainTest(p) \/ DrainRecv(p)
           \/ DrainSend(p) \/ RunEnd(p),
           NEW q \in Producers
    PROVE  ProducerInv(q)'
<1> USE DEF IInv, TypeOK, ProducerInv
<1>1. CASE PushNow(p)
  BY <1>1 DEF PushNow
<1>2. CASE PushFull(p)
  BY <1>2, ScriptAssumption DEF PushFull
<1>3. CASE DrainTest(p) \/ DrainRecv(p) \/ RunEnd(p)
  BY <1>3 DEF DrainTest, DrainRecv, RunEnd
<1>4. CASE DrainSend(p)
  BY <1>4, ScriptAssumption DEF DrainSend
<1> QED
  BY <1>1, <1>2, <1>3, <1>4

LEMMA ProduceIInv ==
    ASSUME IInv, NEW p \in Producers, StartRun(p) \/ Produce(p)
    PROVE  IInv'
<1>1. CASE StartRun(p) \/ PushCall(p)
  BY <1>1, LookupIInv
<1>2. CASE \/ PushNow(p) \/ PushFull(p) \/ DrainTest(p) \/ DrainRecv(p)
           \/ DrainSend(p) \/ RunEnd(p)
  <2>1. UNCHANGED <<regVars, closed>>
    BY <1>2 DEF PushNow, PushFull, DrainTest, DrainRecv, DrainSend, RunEnd
  <2> QED
    BY <1>2, <2>1, ProduceStreams, RegistryFrame, PushTypeOK, PushProducers DEF IInv
<1> QED
  BY <1>1, <1>2 DEF Produce

-----------------------------------------------------------------------------
(* Streams. *)

\* Steps of a stream that leave the registry alone.
LEMMA StreamIInv ==
    ASSUME IInv, NEW s \in Streams, Receive(s) \/ SeeClosed(s) \/ Disconnect(s)
    PROVE  IInv'
<1> USE DEF IInv
<1>1. UNCHANGED <<regVars, closed, hubLock, prodVars, shub, discarded>>
  BY DEF Receive, SeeClosed, Disconnect
<1>2. RegistryInv'
  BY <1>1, RegistryFrame
<1>3. \A p \in Producers : ProducerInv(p)'
  BY <1>1 DEF ProducerInv, prodVars
<1>4. /\ spc' \in [Streams -> {"idle", "open", "del1", "del1x", "del2", "del2x", "ended"}]
      /\ why' \in [Streams -> {"none", "queue_drained", "closed", "disconnect"}]
      /\ spc[s] = "open" /\ spc'[s] \in {"open", "del1", "del2"}
      /\ \A q \in Streams \ {s} : spc'[q] = spc[q]
  <2>1. CASE Receive(s)
    BY <2>1 DEF Receive, TypeOK
  <2>2. CASE SeeClosed(s) \/ Disconnect(s)
    BY <2>2 DEF SeeClosed, Disconnect, TypeOK
  <2> QED BY <2>1, <2>2
<1>5. \A q \in Streams : StreamInv(q)'
  BY <1>1, <1>4 DEF StreamInv, TypeOK, regVars
<1>6. /\ ch' \in [Hubs -> Seq(Events)] /\ \A g \in Hubs : Len(ch'[g]) <= Cap
      /\ got' \in [Streams -> Seq(Events)]
  <2>1. CASE Receive(s)
    <3> DEFINE h == shub[s]
               q == Taken(ch[h])
               e == Head(ch[h])
    <3>1. h \in Hubs
      BY <2>1 DEF Receive, StreamInv
    <3>2. e \in Events /\ q \in Seq(Events) /\ Len(q) <= Cap
      BY <2>1, <3>1, TakenTyped DEF Receive
    <3>3. ch' = [ch EXCEPT ![h] = q] /\ got' = [got EXCEPT ![s] = Append(@, e)]
      BY <2>1 DEF Receive
    <3> HIDE DEF q, e
    <3>4. ch' \in [Hubs -> Seq(Events)] /\ \A g \in Hubs : Len(ch'[g]) <= Cap
      BY <3>1, <3>2, <3>3 DEF TypeOK
    <3>5. Append(got[s], e) \in Seq(Events)
      BY <3>2 DEF TypeOK
    <3>6. got' \in [Streams -> Seq(Events)]
      BY <3>3, <3>5 DEF TypeOK
    <3> QED BY <3>4, <3>6
  <2>2. CASE SeeClosed(s) \/ Disconnect(s)
    <3>1. ch' = ch /\ got' = got
      BY <2>2 DEF SeeClosed, Disconnect
    <3> QED BY <3>1 DEF TypeOK
  <2> QED BY <2>1, <2>2
<1>7. TypeOK'
  BY <1>1, <1>4, <1>6 DEF TypeOK, regVars, prodVars
<1> QED
  BY <1>2, <1>3, <1>5, <1>7

LEMMA OpenIInv ==
    ASSUME IInv, NEW s \in Streams, Open(s)
    PROVE  IInv'
<1>1. /\ Found \in Hubs /\ RegistryInv'
      /\ current' \in Hubs \cup {None} /\ made' \in 0..MaxHubs /\ regLock' = regLock
  BY GetOrCreateRegistry DEF Open
<1>2. UNCHANGED <<ch, closed, hubLock, prodVars, got, why, discarded>>
  BY DEF Open
<1>3. /\ spc[s] = "idle" /\ spc' = [spc EXCEPT ![s] = "open"]
      /\ shub' = [shub EXCEPT ![s] = Found]
  BY DEF Open
<1>4. ch' \in [Hubs -> Seq(Events)] /\ \A g \in Hubs : Len(ch'[g]) <= Cap
  BY <1>2 DEF IInv, TypeOK
<1>5. TypeOK'
  BY <1>1, <1>2, <1>3, <1>4 DEF IInv, TypeOK, prodVars
<1>6. \A p \in Producers : ProducerInv(p)'
  BY <1>2 DEF IInv, ProducerInv, prodVars
<1>7. \A q \in Streams : StreamInv(q)'
  BY <1>1, <1>3 DEF IInv, TypeOK, StreamInv
<1> QED
  BY <1>1, <1>5, <1>6, <1>7 DEF IInv

\* registry.Delete: nobody but the holder of r.mu is between its two steps, and no
\* producer holds the mutex of the hub that is closed.
LEMMA DeleteIInv ==
    ASSUME IInv, NEW s \in Streams, DeleteLock(s) \/ DeleteClose(s)
    PROVE  IInv'
<1> USE DEF IInv
<1>1. UNCHANGED <<made, ch, hubLock, prodVars, shub, got, why, discarded>>
  BY DEF DeleteLock, DeleteClose
<1>2. ch' \in [Hubs -> Seq(Events)] /\ \A g \in Hubs : Len(ch'[g]) <= Cap
  BY <1>1 DEF TypeOK
<1>3. CASE DeleteLock(s)
  <2>1. /\ current' = current /\ closed' = closed
        /\ regLock = None /\ regLock' \in {None, s}
        /\ regLock' = s => current # None
        /\ spc' \in [Streams -> {"idle", "open", "del1", "del1x", "del2", "del2x", "ended"}]
        /\ spc'[s] # "open" /\ (regLock' = s <=> spc'[s] \in {"del1x", "del2x"})
        /\ \A q \in Streams \ {s} : spc'[q] = spc[q]
    BY <1>3, ScriptAssumption DEF DeleteLock, TypeOK, AfterDelete, Held
  <2>2. TypeOK'
    BY <1>1, <1>2, <2>1 DEF TypeOK, prodVars
  <2>3. RegistryInv'
    BY <1>1, <2>1 DEF RegistryInv, OneOpenHub
  <2>4. \A p \in Producers : ProducerInv(p)'
    BY <1>1, <2>1 DEF ProducerInv, prodVars
  <2>5. \A q \in Streams : StreamInv(q)'
    BY <1>1, <2>1, ScriptAssumption DEF StreamInv
  <2> QED BY <2>2, <2>3, <2>4, <2>5
<1>4. CASE DeleteClose(s)
  <2>1. current \in Hubs /\ current <= made /\ hubLock[current] = None
    BY <1>4, ScriptAssumption DEF DeleteClose, CanClose, RegistryInv, TypeOK
  <2>2. /\ closed' = [closed EXCEPT ![current] = TRUE]
        /\ current' = None /\ regLock = s /\ regLock' = None
        /\ spc' \in [Streams -> {"idle", "open", "del1", "del1x", "del2", "del2x", "ended"}]
        /\ spc'[s] \in {"del2", "ended"}
        /\ \A q \in Streams \ {s} : spc'[q] = spc[q]
    BY <1>4 DEF DeleteClose, ClosedByDelete, TypeOK
  <2>3. TypeOK'
    BY <1>1, <1>2, <2>1, <2>2 DEF TypeOK, prodVars
  <2>4. RegistryInv'
    <3>1. OneOpenHub'
      BY <1>1, <2>1, <2>2, ScriptAssumption DEF RegistryInv, OneOpenHub, TypeOK, Hubs
    <3>2. \A h \in Hubs : h > made => ~closed'[h]
      BY <2>1, <2>2, ScriptAssumption DEF RegistryInv, TypeOK, Hubs
    <3> QED BY <1>1, <2>2, <3>1, <3>2 DEF RegistryInv
  <2>5. \A p \in Producers : ProducerInv(p)'
    BY <1>1, <2>1, <2>2, ScriptAssumption DEF ProducerInv, TypeOK, prodVars
  <2>6. \A q \in Streams : StreamInv(q)'
    BY <1>1, <2>2, ScriptAssumption DEF StreamInv
  <2> QED BY <2>3, <2>4, <2>5, <2>6
<1> QED
  BY <1>3, <1>4

LEMMA NextIInv == IInv /\ [Next]_vars => IInv'
<1> SUFFICES ASSUME IInv, [Next]_vars PROVE IInv'
  OBVIOUS
<1>1. CASE UNCHANGED vars
  BY <1>1 DEF vars, regVars, prodVars, strVars, IInv, TypeOK, RegistryInv, OneOpenHub,
     ProducerInv, StreamInv
<1> QED
  BY <1>1, ProduceIInv, StreamIInv, OpenIInv, DeleteIInv DEF Next, Serve, Quiescent

-----------------------------------------------------------------------------
(* The theorems. *)

\* Every reachable state satisfies the inductive invariant of hubs, locks, producers
\* and streams.
THEOREM HubCorrect == Spec => []IInv
<1> QED
  BY InitIInv, NextIInv, PTL DEF Spec

\* Every variable has its type; in particular Push never fills a buffer past Cap.
THEOREM TypeCorrect == Spec => []TypeOK
<1>1. IInv => TypeOK
  BY DEF IInv
<1> QED
  BY <1>1, HubCorrect, PTL

\* Push and Close: the closed test, the drain and the send are under one mutex, so no
\* send meets a closed channel.
THEOREM NoSendOnClosedHolds == Spec => []NoSendOnClosed
<1>1. IInv => NoSendOnClosed
  BY DEF IInv, ProducerInv, NoSendOnClosed
<1> QED
  BY <1>1, HubCorrect, PTL

\* GetOrCreate and Delete: whatever streams come and go, the registered hub is the only
\* open one of the conversation.
THEOREM OneOpenHubHolds == Spec => []OneOpenHub
<1>1. IInv => OneOpenHub
  BY DEF IInv, RegistryInv
<1> QED
  BY <1>1, HubCorrect, PTL

-----------------------------------------------------------------------------
(* The feed: for any producers, streams, scripts and capacity, no event is received  *)
(* twice, and a client gets a producer's events in the order they were pushed. An    *)
(* event enters one buffer behind every earlier one of its producer, leaves it for   *)
(* one client or for good, and a stream receives from one hub all its life.          *)

Elems(q) == {q[i] : i \in DOMAIN q}

Sorted(q) ==
    \A i, j \in DOMAIN q : i < j /\ q[i][1] = q[j][1] => q[i][2] < q[j][2]

Emitted(e) == e[2] < at[e[1]]

Before(e, f) == e[1] = f[1] => e[2] < f[2]

\* The inductive part: buffers are sorted, disjoint, hold only emitted events that no
\* client has, and what a stream got precedes all that its hub holds.
BuffersInv ==
    /\ \A h \in Hubs : Sorted(ch[h])
    /\ \A h \in Hubs : \A e \in Elems(ch[h]) :
          Emitted(e) /\ \A s \in Streams : e \notin Elems(got[s])
    /\ \A h, k \in Hubs : h # k => Elems(ch[h]) \cap Elems(ch[k]) = {}

ClientsInv ==
    /\ \A s \in Streams : \A e \in Elems(got[s]) : Emitted(e)
    /\ \A s \in Streams : spc[s] = "idle" => got[s] = <<>>
    /\ \A s \in Streams : spc[s] = "open" =>
          \A e \in Elems(got[s]), f \in Elems(ch[shub[s]]) : Before(e, f)

FeedInv == BuffersInv /\ ClientsInv

-----------------------------------------------------------------------------
(* Sequences of events. *)

LEMMA EventParts ==
    ASSUME NEW e \in Events
    PROVE  e[1] \in Producers /\ e[2] \in Nat /\ e = <<e[1], e[2]>>
<1>1. PICK p \in Producers, i \in UNION {Pos(q) : q \in Producers} : e = <<p, i>>
  BY DEF Events
<1>2. i \in Nat
  <2>1. PICK q \in Producers : i \in DOMAIN Script[q]
    BY <1>1 DEF Pos
  <2> QED BY <2>1, ScriptAssumption
<1> QED
  BY <1>1, <1>2

\* Appending e to a sequence whose elements all precede it.
LEMMA AppendFacts ==
    ASSUME NEW q \in Seq(Events), NEW e \in Events,
           Sorted(q), \A f \in Elems(q) : Before(f, e)
    PROVE  Sorted(Append(q, e)) /\ Elems(Append(q, e)) = Elems(q) \cup {e}
<1> DEFINE r == Append(q, e)
<1>1. /\ Len(q) \in Nat /\ DOMAIN q = 1..Len(q) /\ DOMAIN r = 1..(Len(q) + 1)
      /\ \A i \in 1..Len(q) : r[i] = q[i]
      /\ r[Len(q) + 1] = e
  OBVIOUS
<1>2. \A i \in DOMAIN r : i \in 1..Len(q) \/ i = Len(q) + 1
  BY <1>1
<1> HIDE DEF r
<1>3. Elems(r) = Elems(q) \cup {e}
  BY <1>1, <1>2 DEF Elems
<1>4. Sorted(r)
  <2> SUFFICES ASSUME NEW i \in DOMAIN r, NEW j \in DOMAIN r, i < j, r[i][1] = r[j][1]
               PROVE  r[i][2] < r[j][2]
    BY DEF Sorted
  <2>1. i \in 1..Len(q) /\ r[i] = q[i] /\ q[i] \in Elems(q)
    BY <1>1, <1>2 DEF Elems
  <2>2. CASE j \in 1..Len(q)
    BY <1>1, <2>1, <2>2 DEF Sorted
  <2>3. CASE j = Len(q) + 1
    BY <1>1, <2>1, <2>3 DEF Before
  <2> QED BY <1>2, <2>2, <2>3
<1> QED
  BY <1>3, <1>4 DEF r

\* Taking the first element of a sorted sequence.
LEMMA TakeFacts ==
    ASSUME NEW q \in Seq(Events), q # <<>>, Sorted(q)
    PROVE  /\ Head(q) \in Elems(q) /\ Sorted(Tail(q))
           /\ Elems(Tail(q)) \subseteq Elems(q)
           /\ \A f \in Elems(Tail(q)) : Before(Head(q), f) /\ f # Head(q)
<1> DEFINE r == Tail(q)
           e == Head(q)
<1>1. /\ Len(q) \in Nat \ {0} /\ DOMAIN q = 1..Len(q) /\ DOMAIN r = 1..(Len(q) - 1)
      /\ e = q[1] /\ \A i \in 1..(Len(q) - 1) : r[i] = q[i + 1]
  OBVIOUS
<1>2. \A i \in 1..(Len(q) - 1) : i + 1 \in 1..Len(q) /\ 1 < i + 1
  BY <1>1
<1>3. 1 \in 1..Len(q)
  BY <1>1
<1> HIDE DEF r, e
<1>4. e \in Elems(q) /\ Elems(r) \subseteq Elems(q)
  BY <1>1, <1>2, <1>3 DEF Elems
<1>5. Sorted(r)
  <2> SUFFICES ASSUME NEW i \in DOMAIN r, NEW j \in DOMAIN r, i < j, r[i][1] = r[j][1]
               PROVE  r[i][2] < r[j][2]
    BY DEF Sorted
  <2>1. i + 1 \in DOMAIN q /\ j + 1 \in DOMAIN q /\ i + 1 < j + 1
    BY <1>1, <1>2
  <2> QED BY <1>1, <2>1 DEF Sorted
<1>6. \A f \in Elems(r) : Before(e, f) /\ f # e
  <2> SUFFICES ASSUME NEW i \in DOMAIN r PROVE Before(e, r[i]) /\ r[i] # e
    BY DEF Elems
  <2>1. r[i] = q[i + 1] /\ i + 1 \in DOMAIN q /\ 1 \in DOMAIN q /\ 1 < i + 1
    BY <1>1, <1>2, <1>3
  <2>2. Before(e, r[i])
    BY <1>1, <2>1 DEF Sorted, Before
  <2>3. e \in Events
    BY <1>1, <1>3
  <2>4. e[2] \in Nat
    BY <2>3, EventParts
  <2> QED BY <2>2, <2>4 DEF Before
<1> QED
  BY <1>4, <1>5, <1>6 DEF r, e

-----------------------------------------------------------------------------
(* Every step is a step of the feed, or a stutter, and keeps the invariant. *)

\* Steps that move no event.
LEMMA QuietStep ==
    ASSUME FeedInv, UNCHANGED <<ch, at, got>>,
           \A s \in Streams : /\ spc'[s] = "idle" => spc[s] = "idle"
                              /\ spc'[s] = "open" =>
                                    \/ spc[s] = "idle"
                                    \/ spc[s] = "open" /\ shub'[s] = shub[s]
    PROVE  FeedInv' /\ UNCHANGED Feed!vars
<1>1. BuffersInv'
  BY DEF FeedInv, BuffersInv, Emitted
<1>2. ClientsInv'
  <2>1. \A s \in Streams : \A e \in Elems(got'[s]) : Emitted(e)'
    BY DEF FeedInv, ClientsInv, Emitted
  <2>2. \A s \in Streams : spc'[s] = "idle" => got'[s] = <<>>
    BY DEF FeedInv, ClientsInv
  <2>3. ASSUME NEW s \in Streams, spc'[s] = "open"
        PROVE  \A e \in Elems(got'[s]), f \in Elems(ch'[shub'[s]]) : Before(e, f)
    <3>1. CASE spc[s] = "idle"
      <4>1. got'[s] = <<>>
        BY <3>1 DEF FeedInv, ClientsInv
      <4> QED BY <4>1 DEF Elems
    <3>2. CASE spc[s] = "open" /\ shub'[s] = shub[s]
      BY <3>2 DEF FeedInv, ClientsInv
    <3> QED BY <2>3, <3>1, <3>2
  <2> QED BY <2>1, <2>2, <2>3 DEF ClientsInv
<1> QED
  BY <1>1, <1>2 DEF FeedInv, Feed!vars

\* A push: the event is behind all that its producer ever emitted.
LEMMA EmitStep ==
    ASSUME TypeOK, FeedInv, NEW p \in Producers, at[p] \in Pos(p), NEW h \in Hubs,
           at' = [at EXCEPT ![p] = @ + 1], UNCHANGED <<got, spc, shub>>,
           ch' = ch \/ ch' = [ch EXCEPT ![h] = Enqueue(@, <<p, at[p]>>)],
           \A s \in Streams : spc[s] = "open" => shub[s] \in Hubs
    PROVE  FeedInv' /\ Feed!Emit(p)
<1> DEFINE e == <<p, at[p]>>
           r == Enqueue(ch[h], e)
<1>1. /\ ch \in [Hubs -> Seq(Events)] /\ at \in [Producers -> Nat \ {0}]
      /\ got \in [Streams -> Seq(Events)] /\ e \in Events
  BY PushedEvent DEF TypeOK
<1>2. at' \in [Producers -> Nat \ {0}] /\ at'[p] = at[p] + 1
      /\ \A q \in Producers : at[q] <= at'[q]
  BY <1>1
<1>3. \A f \in Events : Emitted(f) => Emitted(f)'
  <2> TAKE f \in Events
  <2>1. f[1] \in Producers /\ f[2] \in Nat
    BY EventParts
  <2> QED BY <1>1, <1>2, <2>1 DEF Emitted
<1>4. \A s \in Streams : Elems(got[s]) \subseteq Events
  BY <1>1 DEF Elems
<1>5. \A k \in Hubs : Elems(ch[k]) \subseteq Events
  BY <1>1 DEF Elems
<1>6. e[2] < at'[e[1]] /\ \A f \in Events : Emitted(f) => Before(f, e) /\ f # e
  <2>1. e[2] < at'[e[1]]
    BY <1>1, <1>2
  <2>2. ASSUME NEW f \in Events, Emitted(f) PROVE Before(f, e) /\ f # e
    <3>1. f[2] \in Nat /\ f[2] < at[f[1]] /\ at[p] \in Nat
      BY <1>1, <2>2, EventParts DEF Emitted
    <3> QED BY <3>1 DEF Before
  <2> QED BY <2>1, <2>2
<1>7. Sorted(r) /\ Elems(r) = Elems(ch[h]) \cup {e}
  <2>1. \A f \in Elems(ch[h]) : Before(f, e)
    BY <1>5, <1>6 DEF FeedInv, BuffersInv
  <2>2. ch[h] \in Seq(Events) /\ Sorted(ch[h])
    BY <1>1 DEF FeedInv, BuffersInv
  <2> HIDE DEF e
  <2> QED BY <1>1, <2>1, <2>2, AppendFacts DEF Enqueue
<1>8. /\ \A k \in Hubs : Sorted(ch'[k])
      /\ \A k \in Hubs : Elems(ch'[k]) \subseteq Elems(ch[k]) \cup {e}
      /\ \A k \in Hubs : k # h => Elems(ch'[k]) = Elems(ch[k])
  <2>1. CASE ch' = ch
    BY <2>1 DEF FeedInv, BuffersInv
  <2>2. CASE ch' = [ch EXCEPT ![h] = r]
    <3> HIDE DEF r
    <3>1. ch'[h] = r /\ \A k \in Hubs : k # h => ch'[k] = ch[k]
      BY <1>1, <2>2
    <3> QED BY <1>7, <3>1 DEF FeedInv, BuffersInv
  <2> QED BY <2>1, <2>2
<1>9. \A k \in Hubs : e \notin Elems(ch[k])
  BY <1>5, <1>6 DEF FeedInv, BuffersInv
<1>10. \A s \in Streams : e \notin Elems(got[s])
  BY <1>4, <1>6 DEF FeedInv, ClientsInv
<1> HIDE DEF e, r
<1>11. BuffersInv'
  <2>1. \A k \in Hubs : \A f \in Elems(ch'[k]) :
           Emitted(f)' /\ \A s \in Streams : f \notin Elems(got'[s])
    <3> TAKE k \in Hubs
    <3> TAKE f \in Elems(ch'[k])
    <3>1. CASE f = e
      BY <1>6, <1>10, <3>1 DEF Emitted
    <3>2. CASE f \in Elems(ch[k])
      BY <1>3, <1>5, <3>2 DEF FeedInv, BuffersInv
    <3> QED BY <1>8, <3>1, <3>2
  <2>2. \A k, l \in Hubs : k # l => Elems(ch'[k]) \cap Elems(ch'[l]) = {}
    BY <1>8, <1>9 DEF FeedInv, BuffersInv
  <2> QED BY <1>8, <2>1, <2>2 DEF BuffersInv
<1>12. ClientsInv'
  <2>1. \A s \in Streams : \A f \in Elems(got'[s]) : Emitted(f)'
    BY <1>3, <1>4 DEF FeedInv, ClientsInv
  <2>2. \A s \in Streams : spc'[s] = "idle" => got'[s] = <<>>
    BY DEF FeedInv, ClientsInv
  <2>3. ASSUME NEW s \in Streams, spc'[s] = "open",
               NEW f \in Elems(got'[s]), NEW g \in Elems(ch'[shub'[s]])
        PROVE  Before(f, g)
    <3>1. f \in Elems(got[s]) /\ f \in Events /\ Emitted(f) /\ shub[s] \in Hubs
      BY <1>4, <2>3 DEF FeedInv, ClientsInv
    <3>2. CASE g = e
      BY <1>6, <3>1, <3>2
    <3>3. CASE g \in Elems(ch[shub[s]])
      BY <2>3, <3>1, <3>3 DEF FeedInv, ClientsInv
    <3> QED BY <1>8, <2>3, <3>1, <3>2, <3>3
  <2> QED BY <2>1, <2>2, <2>3 DEF ClientsInv
<1> QED
  BY <1>11, <1>12 DEF FeedInv, Feed!Emit

\* What taking an event from a buffer does to all buffers.
LEMMA TakeBuffers ==
    ASSUME TypeOK, FeedInv, NEW h \in Hubs, ch[h] # <<>>,
           ch' = [ch EXCEPT ![h] = Taken(@)], at' = at
    PROVE  /\ Head(ch[h]) \in Elems(ch[h]) /\ Head(ch[h]) \in Events
           /\ \A k \in Hubs : Sorted(ch'[k]) /\ Elems(ch'[k]) \subseteq Elems(ch[k])
           /\ \A f \in Elems(ch'[h]) : Before(Head(ch[h]), f)
           /\ \A k \in Hubs : Head(ch[h]) \notin Elems(ch'[k])
<1> DEFINE q == ch[h]
           e == Head(q)
<1>1. ch \in [Hubs -> Seq(Events)] /\ q \in Seq(Events) /\ Sorted(q) /\ q # <<>>
  BY DEF TypeOK, FeedInv, BuffersInv
<1>2. /\ e \in Elems(q) /\ Sorted(Tail(q)) /\ Elems(Tail(q)) \subseteq Elems(q)
      /\ \A f \in Elems(Tail(q)) : Before(e, f) /\ f # e
  <2> HIDE DEF q
  <2> QED BY <1>1, TakeFacts
<1>3. e \in Events
  BY <1>1
<1>4. ch'[h] = Tail(q) /\ \A k \in Hubs : k # h => ch'[k] = ch[k]
  BY <1>1 DEF Taken
<1> HIDE DEF e
<1>5. \A k \in Hubs : Sorted(ch'[k]) /\ Elems(ch'[k]) \subseteq Elems(ch[k])
  BY <1>2, <1>4 DEF FeedInv, BuffersInv
<1>6. \A k \in Hubs : e \notin Elems(ch'[k])
  BY <1>2, <1>4 DEF FeedInv, BuffersInv
<1> QED
  BY <1>2, <1>3, <1>4, <1>5, <1>6 DEF e

LEMMA TakenBuffersInv ==
    ASSUME FeedInv, at' = at,
           \A k \in Hubs : Sorted(ch'[k]) /\ Elems(ch'[k]) \subseteq Elems(ch[k]),
           NEW e, \A k \in Hubs : e \notin Elems(ch'[k]),
           \A s \in Streams : Elems(got'[s]) \subseteq Elems(got[s]) \cup {e}
    PROVE  BuffersInv'
<1>1. \A k \in Hubs : \A f \in Elems(ch'[k]) :
         Emitted(f)' /\ \A s \in Streams : f \notin Elems(got'[s])
  BY DEF FeedInv, BuffersInv, Emitted
<1>2. \A k, l \in Hubs : k # l => Elems(ch'[k]) \cap Elems(ch'[l]) = {}
  BY DEF FeedInv, BuffersInv
<1> QED
  BY <1>1, <1>2 DEF BuffersInv

\* An eviction: the feed sees nothing.
LEMMA EvictStep ==
    ASSUME TypeOK, FeedInv, NEW h \in Hubs, ch[h] # <<>>,
           ch' = [ch EXCEPT ![h] = Taken(@)], UNCHANGED <<at, got, spc, shub>>,
           \A s \in Streams : spc[s] = "open" => shub[s] \in Hubs
    PROVE  FeedInv' /\ UNCHANGED Feed!vars
<1>1. /\ \A k \in Hubs : Sorted(ch'[k]) /\ Elems(ch'[k]) \subseteq Elems(ch[k])
      /\ \A k \in Hubs : Head(ch[h]) \notin Elems(ch'[k])
  BY TakeBuffers
<1>2. BuffersInv'
  BY <1>1, TakenBuffersInv
<1>3. ClientsInv'
  <2>1. \A s \in Streams : \A e \in Elems(got'[s]) : Emitted(e)'
    BY DEF FeedInv, ClientsInv, Emitted
  <2>2. \A s \in Streams : spc'[s] = "idle" => got'[s] = <<>>
    BY DEF FeedInv, ClientsInv
  <2>3. \A s \in Streams : spc'[s] = "open" =>
           \A e \in Elems(got'[s]), f \in Elems(ch'[shub'[s]]) : Before(e, f)
    BY <1>1 DEF FeedInv, ClientsInv
  <2> QED BY <2>1, <2>2, <2>3 DEF ClientsInv
<1> QED
  BY <1>2, <1>3 DEF FeedInv, Feed!vars

\* A receive: an emitted event that no client has goes to one client.
LEMMA DeliverStep ==
    ASSUME TypeOK, FeedInv, NEW s \in Streams, spc[s] = "open", shub[s] \in Hubs,
           ch[shub[s]] # <<>>, ch' = [ch EXCEPT ![shub[s]] = Taken(@)],
           got' = [got EXCEPT ![s] = Append(@, Head(ch[shub[s]]))],
           UNCHANGED <<at, shub>>,
           \A t \in Streams : /\ spc'[t] = "idle" => t # s /\ spc[t] = "idle"
                              /\ spc'[t] = "open" => spc[t] = "open" /\ shub[t] \in Hubs
    PROVE  FeedInv' /\ Feed!Next
<1> DEFINE h == shub[s]
           e == Head(ch[h])
<1>1. /\ e \in Elems(ch[h]) /\ e \in Events
      /\ \A k \in Hubs : Sorted(ch'[k]) /\ Elems(ch'[k]) \subseteq Elems(ch[k])
      /\ \A f \in Elems(ch'[h]) : Before(e, f)
      /\ \A k \in Hubs : e \notin Elems(ch'[k])
  BY TakeBuffers
<1>2. Emitted(e) /\ \A t \in Streams : e \notin Elems(got[t])
  BY <1>1 DEF FeedInv, BuffersInv
<1>3. \A f \in Elems(got[s]) : Before(f, e)
  BY <1>1 DEF FeedInv, ClientsInv
<1>4. e[1] \in Producers /\ e[2] \in Nat /\ e = <<e[1], e[2]>>
  BY <1>1, EventParts
<1>5. got \in [Streams -> Seq(Events)] /\ at \in [Producers -> Nat \ {0}]
  BY DEF TypeOK
<1>6. got' = [got EXCEPT ![s] = Append(@, e)]
  OBVIOUS
<1> HIDE DEF e
<1>7. /\ Elems(got'[s]) = Elems(got[s]) \cup {e}
      /\ \A t \in Streams : t # s => got'[t] = got[t]
  <2>1. got[s] \in Seq(Events) /\ got'[s] = Append(got[s], e)
    BY <1>5, <1>6
  <2> DEFINE q == got[s]
  <2>2. /\ Len(q) \in Nat /\ DOMAIN q = 1..Len(q)
        /\ DOMAIN Append(q, e) = 1..(Len(q) + 1)
        /\ \A i \in 1..Len(q) : Append(q, e)[i] = q[i]
        /\ Append(q, e)[Len(q) + 1] = e
    BY <1>1, <2>1
  <2>3. \A i \in 1..(Len(q) + 1) : i \in 1..Len(q) \/ i = Len(q) + 1
    BY <2>2
  <2> HIDE DEF q
  <2>4. Elems(Append(q, e)) = Elems(q) \cup {e}
    BY <2>2, <2>3 DEF Elems
  <2> QED BY <1>5, <1>6, <2>1, <2>4 DEF q
<1>8. Feed!Deliver(s, e[1], e[2])
  <2>1. e[2] < at[e[1]]
    BY <1>2 DEF Emitted
  <2>2. ~Feed!Delivered(<<e[1], e[2]>>)
    BY <1>2, <1>4 DEF Feed!Delivered, Elems
  <2>3. \A i \in DOMAIN got[s] : got[s][i][1] = e[1] => got[s][i][2] < e[2]
    <3> TAKE i \in DOMAIN got[s]
    <3>1. got[s][i] \in Elems(got[s])
      BY DEF Elems
    <3> QED BY <1>3, <3>1 DEF Before
  <2>4. got' = [got EXCEPT ![s] = Append(@, <<e[1], e[2]>>)]
    BY <1>4, <1>6
  <2> QED BY <2>1, <2>2, <2>3, <2>4 DEF Feed!Deliver
<1>9. e[2] \in 1..(at[e[1]] - 1)
  <2>1. e[2] >= 1
    <3>1. PICK p \in Producers, i \in UNION {Pos(q) : q \in Producers} : e = <<p, i>>
      BY <1>1 DEF Events
    <3>2. PICK q \in Producers : i \in DOMAIN Script[q]
      BY <3>1 DEF Pos
    <3>3. Script[q] \in Seq(Kinds)
      BY ScriptAssumption
    <3>4. i >= 1
      BY <3>2, <3>3
    <3> QED BY <3>1, <3>4
  <2> QED BY <1>2, <1>4, <1>5, <2>1 DEF Emitted
<1>10. BuffersInv'
  <2>1. \A t \in Streams : Elems(got'[t]) \subseteq Elems(got[t]) \cup {e}
    BY <1>7
  <2> QED BY <1>1, <2>1, TakenBuffersInv
<1>11. ClientsInv'
  <2>1. \A t \in Streams : \A f \in Elems(got'[t]) : Emitted(f)'
    BY <1>2, <1>7 DEF FeedInv, ClientsInv, Emitted
  <2>2. \A t \in Streams : spc'[t] = "idle" => got'[t] = <<>>
    BY <1>7 DEF FeedInv, ClientsInv
  <2>3. ASSUME NEW t \in Streams, spc'[t] = "open",
               NEW f \in Elems(got'[t]), NEW g \in Elems(ch'[shub'[t]])
        PROVE  Before(f, g)
    <3>1. spc[t] = "open" /\ shub[t] \in Hubs /\ g \in Elems(ch[shub[t]])
      BY <1>1, <2>3
    <3>2. CASE f \in Elems(got[t])
      BY <3>1, <3>2 DEF FeedInv, ClientsInv
    <3>3. CASE t = s /\ f = e
      BY <1>1, <2>3, <3>3
    <3> QED BY <1>7, <2>3, <3>2, <3>3
  <2> QED BY <2>1, <2>2, <2>3 DEF ClientsInv
<1> QED
  BY <1>4, <1>8, <1>9, <1>10, <1>11 DEF FeedInv, Feed!Next

-----------------------------------------------------------------------------

LEMMA InitFeed == Init => FeedInv /\ Feed!Init
<1> SUFFICES ASSUME Init PROVE FeedInv /\ Feed!Init
  OBVIOUS
<1>1. Elems(<<>>) = {} /\ Sorted(<<>>)
  BY DEF Elems, Sorted
<1>2. \A h \in Hubs : ch[h] = <<>>
  BY DEF Init
<1>3. \A s \in Streams : got[s] = <<>> /\ spc[s] = "idle"
  BY DEF Init
<1>4. FeedInv
  BY <1>1, <1>2, <1>3 DEF FeedInv, BuffersInv, ClientsInv
<1> QED
  BY <1>4 DEF Init, Feed!Init

LEMMA FeedNext ==
    ASSUME IInv, FeedInv, [Next]_vars
    PROVE  FeedInv' /\ [Feed!Next]_Feed!vars
<1>0. TypeOK /\ \A t \in Streams : spc[t] = "open" => shub[t] \in Hubs
  BY DEF IInv, StreamInv
<1>1. CASE UNCHANGED vars \/ Quiescent
  <2>1. UNCHANGED <<ch, at, got, spc, shub>>
    BY <1>1 DEF vars, Quiescent, strVars, prodVars
  <2> QED BY <2>1, QuietStep
<1>2. ASSUME NEW p \in Producers, StartRun(p) \/ PushCall(p) \/ PushFull(p)
                                     \/ DrainTest(p) \/ RunEnd(p)
      PROVE  FeedInv' /\ [Feed!Next]_Feed!vars
  <2>1. UNCHANGED <<ch, at, got, spc, shub>>
    BY <1>2 DEF StartRun, PushCall, PushFull, DrainTest, RunEnd, strVars
  <2> QED BY <2>1, QuietStep
<1>3. ASSUME NEW p \in Producers, PushNow(p) \/ DrainSend(p)
      PROVE  FeedInv' /\ [Feed!Next]_Feed!vars
  <2>1. target[p] \in Hubs /\ at[p] \in Pos(p)
    BY <1>3 DEF IInv, ProducerInv, PushNow, DrainSend
  <2>2. /\ at' = [at EXCEPT ![p] = @ + 1] /\ UNCHANGED <<got, spc, shub>>
        /\ ch' = ch \/ ch' = [ch EXCEPT ![target[p]] = Enqueue(@, <<p, at[p]>>)]
    BY <1>3 DEF PushNow, DrainSend, strVars
  <2>3. FeedInv' /\ Feed!Emit(p)
    BY <1>0, <2>1, <2>2, EmitStep
  <2> QED BY <2>3 DEF Feed!Next
<1>4. ASSUME NEW p \in Producers, DrainRecv(p)
      PROVE  FeedInv' /\ [Feed!Next]_Feed!vars
  <2>1. target[p] \in Hubs
    BY <1>4 DEF IInv, ProducerInv, DrainRecv
  <2>2. /\ ch[target[p]] # <<>> /\ ch' = [ch EXCEPT ![target[p]] = Taken(@)]
        /\ UNCHANGED <<at, got, spc, shub>>
    BY <1>4 DEF DrainRecv, strVars
  <2> QED BY <1>0, <2>1, <2>2, EvictStep
<1>5. ASSUME NEW s \in Streams, Open(s) \/ SeeClosed(s) \/ Disconnect(s)
                                   \/ DeleteLock(s) \/ DeleteClose(s)
      PROVE  FeedInv' /\ [Feed!Next]_Feed!vars
  <2>1. UNCHANGED <<ch, at, got>>
    BY <1>5 DEF Open, SeeClosed, Disconnect, DeleteLock, DeleteClose, prodVars
  <2>2. /\ \A t \in Streams \ {s} : spc'[t] = spc[t] /\ shub'[t] = shub[t]
        /\ spc'[s] # "idle" /\ (spc'[s] = "open" => spc[s] = "idle")
    <3> USE <1>0 DEF TypeOK
    <3>1. CASE Open(s)
      BY <3>1 DEF Open
    <3>2. CASE SeeClosed(s) \/ Disconnect(s)
      BY <3>2 DEF SeeClosed, Disconnect
    <3>3. CASE DeleteLock(s)
      <4>1. spc' = [spc EXCEPT ![s] = AfterDelete(@)] \/ spc' = [spc EXCEPT ![s] = Held(@)]
        BY <3>3 DEF DeleteLock
      <4>2. shub' = shub
        BY <3>3 DEF DeleteLock
      <4> QED BY <4>1, <4>2 DEF AfterDelete, Held
    <3>4. CASE DeleteClose(s)
      BY <3>4 DEF DeleteClose
    <3> QED BY <1>5, <3>1, <3>2, <3>3, <3>4
  <2> QED BY <2>1, <2>2, QuietStep
<1>6. ASSUME NEW s \in Streams, Receive(s)
      PROVE  FeedInv' /\ [Feed!Next]_Feed!vars
  <2>1. /\ spc[s] = "open" /\ ch[shub[s]] # <<>> /\ shub[s] \in Hubs
        /\ ch' = [ch EXCEPT ![shub[s]] = Taken(@)]
        /\ got' = [got EXCEPT ![s] = Append(@, Head(ch[shub[s]]))]
        /\ UNCHANGED <<at, shub>>
    BY <1>0, <1>6 DEF Receive, prodVars
  <2>2. \A t \in Streams : /\ spc'[t] = "idle" => t # s /\ spc[t] = "idle"
                           /\ spc'[t] = "open" => spc[t] = "open" /\ shub[t] \in Hubs
    BY <1>0, <1>6 DEF Receive, TypeOK
  <2>3. FeedInv' /\ Feed!Next
    BY <1>0, <2>1, <2>2, DeliverStep
  <2> QED BY <2>3
<1> QED
  BY <1>1, <1>2, <1>3, <1>4, <1>5, <1>6 DEF Next, Produce, Serve

\* Whatever a full buffer evicts and whichever hub a run or a client holds, Push,
\* the stream handler and Delete keep the promise of EventFeed.
THEOREM FeedHolds == Spec => FeedImplemented
<1>1. Init => FeedInv /\ Feed!Init
  BY InitFeed
<1>2. IInv /\ FeedInv /\ [Next]_vars => FeedInv' /\ [Feed!Next]_Feed!vars
  BY FeedNext
<1>3. Spec => []IInv
  BY HubCorrect
<1> QED
  BY <1>1, <1>2, <1>3, PTL DEF Spec, FeedImplemented, Feed!Spec
=============================================================================
