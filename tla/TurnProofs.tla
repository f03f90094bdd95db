----------------------------- MODULE TurnProofs -----------------------------
(***************************************************************************)
(* Theorems about Turn, for any runs, subagents, clients and buffer size:  *)
(* a turn is a behaviour of both modules it composes, so what is proved of *)
(* them holds, and a client that gets a run's queue_drained has been told  *)
(* of the run's subagents, unless an Add overtook a Drain.                 *)
(***************************************************************************)
EXTENDS Turn, DispatchProofs

Procs   == Runs \cup Subs
Scripts == [p \in Procs |-> IF p \in Runs THEN RunScript ELSE SubScript]

\* The hub's theorems, of the hub of Turn.
HP == INSTANCE SSEHubProofs WITH pc <- hpc, Producers <- Procs, Script <- Scripts

PartsInv == IInv /\ HP!IInv /\ HP!FeedInv

-----------------------------------------------------------------------------
(* Turn's hub is a hub. *)

\* What SSEHub assumes of its constants.
LEMMA HubAssumption ==
    /\ Cap \in Nat \ {0}
    /\ MaxHubs \in Nat
    /\ None \notin Procs \cup Streams \cup 1..MaxHubs
    /\ \A p \in Procs : Scripts[p] \in Seq(HP!Kinds)
<1>1. RunScript \in Seq(HP!Kinds) /\ SubScript \in Seq(HP!Kinds)
  BY DEF RunScript, SubScript, HP!Kinds
<1>2. \A p \in Procs : Scripts[p] \in Seq(HP!Kinds)
  BY <1>1 DEF Scripts
<1>3. None \notin Procs
  BY ConstantsAssumption DEF Procs
<1> QED BY <1>2, <1>3, TurnAssumption

\* A run pushes two events, a subagent one, and neither is an approval request.
LEMMA ScriptFacts ==
    /\ \A r \in Runs : HP!Pos(r) = {1, 2}
    /\ \A s \in Subs : HP!Pos(s) = {1}
    /\ \A p \in Procs : \A i \in HP!Pos(p) : Scripts[p][i] # "approval_requested"
<1>1. ASSUME NEW r \in Runs
      PROVE  HP!Pos(r) = {1, 2} /\ \A i \in HP!Pos(r) : Scripts[r][i] # "approval_requested"
  <2>1. Scripts[r] = <<"round_done", "queue_drained">>
    BY DEF Scripts, Procs, RunScript
  <2> QED BY <2>1 DEF HP!Pos
<1>2. ASSUME NEW s \in Subs
      PROVE  HP!Pos(s) = {1} /\ \A i \in HP!Pos(s) : Scripts[s][i] # "approval_requested"
  <2>1. Scripts[s] = <<"thread_status">>
    BY TurnAssumption DEF Scripts, Procs, SubScript
  <2> QED BY <2>1 DEF HP!Pos
<1> QED BY <1>1, <1>2 DEF Procs

\* Turn's actions of the hub are those the hub's theorems are about.
LEMMA SameStart == ASSUME NEW p \in Procs, H!StartRun(p) PROVE HP!StartRun(p)
BY DEF H!StartRun, HP!StartRun, H!GetOrCreate, HP!GetOrCreate, H!Found, HP!Found,
   H!Hubs, HP!Hubs, H!strVars, HP!strVars

LEMMA SameProduce == ASSUME NEW p \in Procs, H!Produce(p) PROVE HP!Produce(p)
BY DEF H!Produce, HP!Produce, H!PushCall, HP!PushCall, H!PushNow, HP!PushNow,
   H!PushFull, HP!PushFull, H!DrainTest, HP!DrainTest, H!DrainRecv, HP!DrainRecv,
   H!DrainSend, HP!DrainSend, H!RunEnd, HP!RunEnd, H!GetOrCreate, HP!GetOrCreate,
   H!Found, HP!Found, H!Hubs, HP!Hubs, H!strVars, HP!strVars, H!regVars, HP!regVars,
   H!Pos, HP!Pos, H!Enqueue, HP!Enqueue, H!IsFull, HP!IsFull, H!Taken, HP!Taken,
   Scripts, Procs

LEMMA SameStream ==
    ASSUME NEW c \in Streams
    PROVE  /\ H!Open(c) => HP!Open(c)
           /\ H!Disconnect(c) => HP!Disconnect(c)
           /\ H!Serve(c) => HP!Serve(c)
<1>1. /\ H!Open(c) => HP!Open(c)
      /\ H!Disconnect(c) => HP!Disconnect(c)
  BY DEF H!Open, HP!Open, H!Disconnect, HP!Disconnect, H!GetOrCreate, HP!GetOrCreate,
     H!Found, HP!Found, H!Hubs, HP!Hubs, H!prodVars, HP!prodVars, H!regVars, HP!regVars
<1>2. H!Receive(c) => HP!Receive(c)
  BY DEF H!Receive, HP!Receive, H!Taken, HP!Taken, H!Kind, HP!Kind, Scripts, Procs,
     H!prodVars, HP!prodVars, H!regVars, HP!regVars
<1>3. H!SeeClosed(c) => HP!SeeClosed(c)
  BY DEF H!SeeClosed, HP!SeeClosed, H!prodVars, HP!prodVars, H!regVars, HP!regVars
<1>4. H!DeleteLock(c) => HP!DeleteLock(c)
  BY DEF H!DeleteLock, HP!DeleteLock, H!AfterDelete, HP!AfterDelete, H!Held, HP!Held,
     H!prodVars, HP!prodVars
<1>5. H!DeleteClose(c) => HP!DeleteClose(c)
  BY DEF H!DeleteClose, HP!DeleteClose, H!CanClose, HP!CanClose,
     H!ClosedByDelete, HP!ClosedByDelete, H!prodVars, HP!prodVars
<1> QED BY <1>1, <1>2, <1>3, <1>4, <1>5 DEF H!Serve, HP!Serve

LEMMA SameInit == H!Init => HP!Init
BY DEF H!Init, HP!Init, H!Hubs, HP!Hubs, Procs

-----------------------------------------------------------------------------
(* Every step of Turn is one of each module, or changes nothing there. *)

LEMMA HubSteps ==
    /\ \A p \in Procs : H!StartRun(p) \/ H!Produce(p) => HP!Next
    /\ \A c \in Streams : H!Serve(c) \/ H!Open(c) \/ H!Disconnect(c) => HP!Next
    /\ UNCHANGED hubVars => UNCHANGED HP!vars
<1>1. \A p \in Procs : H!StartRun(p) \/ H!Produce(p) => HP!Next
  BY SameStart, SameProduce DEF HP!Next
<1>2. \A c \in Streams : H!Serve(c) \/ H!Open(c) \/ H!Disconnect(c) => HP!Next
  BY SameStream DEF HP!Next
<1>3. UNCHANGED hubVars => UNCHANGED HP!vars
  BY DEF hubVars, HP!vars, HP!regVars, HP!prodVars, HP!strVars
<1> QED BY <1>1, <1>2, <1>3

LEMMA PartSteps ==
    ASSUME [TurnNext]_turnVars
    PROVE  [Next]_vars /\ [HP!Next]_(HP!vars)
<1>0. Runs \subseteq Procs /\ Subs \subseteq Procs
  BY DEF Procs
<1>1. CASE UNCHANGED turnVars
  BY <1>1, HubSteps DEF turnVars
<1>2. ASSUME proc = "up", NEW r \in Runs, Begin(r) \/ Producing(r)
      PROVE  [Next]_vars /\ [HP!Next]_(HP!vars)
  <2>1. CASE Begin(r)
    BY <1>0, <1>2, <2>1, HubSteps DEF Begin, Next
  <2>2. CASE RunGoesOn(r)
    BY <1>2, <2>2, HubSteps DEF RunGoesOn, Next
  <2>3. CASE RunPushes(r)
    BY <1>0, <2>3, HubSteps DEF RunPushes
  <2> QED BY <1>2, <2>1, <2>2, <2>3 DEF Producing
<1>3. ASSUME proc = "up", NEW s \in Subs, Reporting(s)
      PROVE  [Next]_vars /\ [HP!Next]_(HP!vars)
  <2>1. CASE SubBegin(s)
    BY <1>0, <2>1, HubSteps DEF SubBegin
  <2>2. CASE SubSettles(s)
    BY <1>3, <2>2, HubSteps DEF SubSettles, Next, SubStep
  <2>3. CASE SubPushes(s)
    BY <1>0, <2>3, HubSteps DEF SubPushes
  <2>4. CASE SubReports(s)
    BY <1>3, <2>4, HubSteps DEF SubReports, Next, SubStep
  <2> QED BY <1>3, <2>1, <2>2, <2>3, <2>4 DEF Reporting
<1>4. ASSUME NEW c \in Streams, ClientStep(c)
      PROVE  [Next]_vars /\ [HP!Next]_(HP!vars)
  BY <1>4, HubSteps DEF ClientStep, ServeStep
<1>5. CASE TurnOver
  BY <1>5, HubSteps DEF TurnOver, turnVars
<1> QED BY <1>1, <1>2, <1>3, <1>4, <1>5 DEF TurnNext

\* The parts' invariants, in one piece.
LEMMA PartsKept ==
    ASSUME PartsInv, [TurnNext]_turnVars
    PROVE  PartsInv'
<1>1. [Next]_vars /\ [HP!Next]_(HP!vars)
  BY PartSteps
<1>2. IInv'
  BY <1>1, NextIInv DEF PartsInv
<1>3. HP!IInv'
  BY <1>1, HP!NextIInv, HubAssumption DEF PartsInv
<1>4. HP!FeedInv'
  BY <1>1, HP!FeedNext, HubAssumption DEF PartsInv
<1> QED BY <1>2, <1>3, <1>4 DEF PartsInv

LEMMA PartsInit == TurnInit => PartsInv
<1> SUFFICES ASSUME TurnInit PROVE PartsInv
  OBVIOUS
<1>1. HP!Init
  BY SameInit DEF TurnInit
<1>2. IInv
  BY InitIInv DEF TurnInit
<1>3. HP!IInv
  BY <1>1, HP!InitIInv, HubAssumption
<1>4. HP!FeedInv
  BY <1>1, HP!InitFeed, HubAssumption
<1> QED BY <1>2, <1>3, <1>4 DEF PartsInv

-----------------------------------------------------------------------------
(* What the steps of producers and streams do, as far as Turn depends on it. *)

LEMMA HubFacts ==
    ASSUME HP!IInv
    PROVE  /\ hpc \in [Procs -> {"idle", "next", "push", "drain", "recv", "done"}]
           /\ hub \in [Procs -> (1..MaxHubs) \cup {None}]
           /\ at \in [Procs -> Nat \ {0}]
           /\ target \in [Procs -> (1..MaxHubs) \cup {None}]
           /\ made \in Nat /\ MaxHubs \in Nat /\ made <= MaxHubs
           /\ closed \in [1..MaxHubs -> BOOLEAN]
           /\ ch \in [1..MaxHubs -> Seq(HP!Events)]
           /\ got \in [Streams -> Seq(HP!Events)]
           /\ None \notin 1..MaxHubs
           /\ \A h \in 1..made : ~closed[h] => h = current
BY HubAssumption DEF HP!IInv, HP!TypeOK, HP!Hubs, HP!RegistryInv, HP!OneOpenHub

\* A goroutine that looks the hub up gets the one that is open, if there is one.
LEMMA StartEffect ==
    ASSUME HP!IInv, NEW p \in Procs, H!StartRun(p)
    PROVE  /\ hpc[p] = "idle" /\ hpc' = [hpc EXCEPT ![p] = "next"]
           /\ \E h \in 1..made' : /\ hub' = [hub EXCEPT ![p] = h]
                                  /\ \A k \in 1..made : ~closed[k] => h = k
           /\ made' \in Nat /\ made <= made'
           /\ UNCHANGED <<ch, closed, target, at, got, discarded>>
<1>1. /\ hpc[p] = "idle" /\ hpc' = [hpc EXCEPT ![p] = "next"]
      /\ hub' = [hub EXCEPT ![p] = H!Found] /\ H!Found \in H!Hubs
      /\ made' = IF current = None THEN made + 1 ELSE made
      /\ UNCHANGED <<ch, closed, target, at, got, discarded>>
  BY DEF H!StartRun, H!GetOrCreate, H!strVars
<1>2. made' \in Nat /\ made <= made'
  BY <1>1, HubFacts
<1>3. H!Found \in 1..made'
  <2>1. current # None => current \in 1..made
    BY HubFacts DEF HP!IInv, HP!TypeOK, HP!Hubs, HP!RegistryInv
  <2> QED BY <1>1, <2>1, HubFacts DEF H!Found
<1>4. \A k \in 1..made : ~closed[k] => H!Found = k
  BY HubFacts DEF H!Found
<1> QED BY <1>1, <1>2, <1>3, <1>4

Evicts == UNCHANGED at /\ (ch' = ch \/ discarded' # {})

Sends(p) ==
    /\ at[p] \in HP!Pos(p) /\ hpc'[p] = "next" /\ at' = [at EXCEPT ![p] = @ + 1]
    /\ discarded' = discarded
    /\ \/ closed[hub[p]] /\ ch' = ch
       \/ ~closed[hub[p]] /\ ch' = [ch EXCEPT ![hub[p]] = Append(@, <<p, at[p]>>)]

\* A step of a push, or the end of a producer: its event goes to the hub it was given.
LEMMA ProduceEffect ==
    ASSUME HP!IInv, NEW p \in Procs, H!Produce(p), PushesTo(p)
    PROVE  /\ hpc[p] # "idle" /\ hpc'[p] # "idle"
           /\ \A q \in Procs \ {p} : hpc'[q] = hpc[q] /\ target'[q] = target[q]
           /\ UNCHANGED <<hub, made, closed, got>> /\ PushesTo(p)'
           /\ discarded \subseteq discarded'
           /\ hpc'[p] = "done" => at[p] \notin HP!Pos(p)
           /\ Evicts \/ Sends(p)
<1> USE HubFacts DEF PushesTo
<1>0. HP!Produce(p)
  BY SameProduce
<1>1. CASE HP!PushCall(p)
  <2>1. UNCHANGED <<current, made, regLock>> /\ target' = [target EXCEPT ![p] = hub[p]]
    BY <1>1, ScriptFacts DEF HP!PushCall, HP!regVars
  <2> QED BY <1>1, <2>1 DEF HP!PushCall, HP!strVars, Evicts
<1>2. CASE HP!PushNow(p)
  <2>1. at[p] \in HP!Pos(p)
    BY <1>2 DEF HP!PushNow, HP!IInv, HP!ProducerInv
  <2> QED BY <1>2, <2>1 DEF HP!PushNow, HP!Enqueue, HP!strVars, HP!regVars, Sends
<1>3. CASE HP!PushFull(p) \/ HP!DrainTest(p) \/ HP!RunEnd(p)
  BY <1>3 DEF HP!PushFull, HP!DrainTest, HP!RunEnd, HP!strVars, HP!regVars, Evicts
<1>4. CASE HP!DrainRecv(p)
  BY <1>4 DEF HP!DrainRecv, HP!strVars, HP!regVars, Evicts
<1>5. CASE HP!DrainSend(p)
  <2>1. at[p] \in HP!Pos(p) /\ ~closed[hub[p]]
    BY <1>5 DEF HP!DrainSend, HP!IInv, HP!ProducerInv
  <2> QED BY <1>5, <2>1 DEF HP!DrainSend, HP!Enqueue, HP!strVars, HP!regVars, Sends
<1> QED BY <1>0, <1>1, <1>2, <1>3, <1>4, <1>5 DEF HP!Produce

Takes(c, h) ==
    /\ h \in 1..MaxHubs /\ ch[h] # <<>>
    /\ ch' = [ch EXCEPT ![h] = Tail(@)]
    /\ got' = [got EXCEPT ![c] = Append(@, Head(ch[h]))]

\* A stream takes an event from a buffer, or closes hubs, and moves no producer.
LEMMA StreamEffect ==
    ASSUME HP!IInv, NEW c \in Streams, H!Serve(c) \/ H!Open(c) \/ H!Disconnect(c)
    PROVE  /\ UNCHANGED <<hpc, hub, target, at, discarded>>
           /\ made' \in Nat /\ made <= made'
           /\ \A h \in 1..MaxHubs : closed[h] => closed'[h]
           /\ UNCHANGED <<ch, got>> \/ \E h \in 1..MaxHubs : Takes(c, h)
<1> USE HubFacts
<1>0. HP!Serve(c) \/ HP!Open(c) \/ HP!Disconnect(c)
  BY SameStream
<1>1. CASE HP!Receive(c)
  <2>1. shub[c] \in 1..MaxHubs
    BY <1>1 DEF HP!Receive, HP!IInv, HP!StreamInv, HP!Hubs
  <2>2. Takes(c, shub[c])
    BY <1>1, <2>1 DEF HP!Receive, HP!Taken, Takes
  <2> QED BY <1>1, <2>1, <2>2 DEF HP!Receive, HP!prodVars, HP!regVars
<1>2. CASE HP!SeeClosed(c) \/ HP!Disconnect(c)
  BY <1>2 DEF HP!SeeClosed, HP!Disconnect, HP!prodVars, HP!regVars
<1>3. CASE HP!DeleteLock(c)
  BY <1>3 DEF HP!DeleteLock, HP!prodVars
<1>4. CASE HP!DeleteClose(c)
  BY <1>4 DEF HP!DeleteClose, HP!ClosedByDelete, HP!prodVars
<1>5. CASE HP!Open(c)
  <2>1. made' = IF current = None THEN made + 1 ELSE made
    BY <1>5 DEF HP!Open, HP!GetOrCreate
  <2> QED BY <1>5, <2>1 DEF HP!Open, HP!prodVars
<1> QED BY <1>0, <1>1, <1>2, <1>3, <1>4, <1>5 DEF HP!Serve

-----------------------------------------------------------------------------
(* What the steps of runs and subagents do, as far as Turn depends on it. *)

Creates(r, s) ==
    /\ status[s] = "none" /\ status' = [status EXCEPT ![s] = "running"]
    /\ owner' = [owner EXCEPT ![s] = r] /\ arg' = [arg EXCEPT ![r] = s]
    /\ pc[r] = "loop" /\ pc'[r] = "adding" /\ sub' = sub

Adds(r, s) ==
    /\ pc[r] = "adding" /\ arg[r] = s /\ pc'[r] = "loop"
    /\ sub' = [sub EXCEPT ![s] = "running"] /\ UNCHANGED <<status, owner>>

\* A run creates a row, starts its subagent, or does nothing to subagents; and it ends
\* its turn with end_turn only if no subagent is in flight.
LEMMA RunStepEffect ==
    ASSUME IInv, NEW r \in Runs, RunStep(r)
    PROVE  /\ pc[r] \in Active /\ pc'[r] # "idle"
           /\ \A q \in Runs \ {r} : pc'[q] = pc[q] /\ arg'[q] = arg[q]
           /\ \/ \E s \in Subs : Creates(r, s) \/ Adds(r, s)
              \/ pc[r] # "adding" /\ UNCHANGED <<status, owner, sub>>
           /\ raced => raced'
           /\ pc[r] = "check" /\ pc'[r] = "done" => raced \/ InFlight = {}
<1> DEFINE Moves == /\ pc[r] \in Active /\ pc'[r] # "idle"
                    /\ \A q \in Runs \ {r} : pc'[q] = pc[q] /\ arg'[q] = arg[q]
                    /\ raced => raced'
<1> USE DEF IInv, TypeOK, Active, RunPcs, Goto, subVars, registry
<1>1. ASSUME NEW s \in Subs, DispatchCreate(r, s)
      PROVE  Creates(r, s) /\ Moves /\ pc[r] # "check"
  BY <1>1 DEF DispatchCreate, Creates
<1>2. ASSUME NEW s \in Subs, Add(r, s)
      PROVE  Adds(r, s) /\ Moves /\ pc[r] # "check"
  BY <1>2 DEF Add, Adds
<1>3. CASE \E s \in Subs : DispatchCreate(r, s) \/ Add(r, s)
  <2> HIDE DEF Moves
  <2>1. Moves /\ pc[r] # "check" /\ \E s \in Subs : Creates(r, s) \/ Adds(r, s)
    BY <1>1, <1>2, <1>3
  <2> QED BY <2>1 DEF Moves
<1>4. CASE EndTurn(r) \/ OtherStop(r) \/ RunError(r)
  BY <1>4 DEF EndTurn, OtherStop, RunError
<1>5. CASE CheckPending(r)
  <2>1. pc'[r] = "done" => ~(pending > 0)
    BY <1>5 DEF CheckPending, HasPending
  <2>2. raced \/ InFlight = {} \/ pending > 0
    BY FiniteParts DEF FanInInv, RegistryInv
  <2> QED BY <1>5, <2>1, <2>2 DEF CheckPending
<1>6. CASE WaitFetch(r) \/ WaitEnter(r)
  BY <1>6 DEF WaitFetch, WaitEnter, WaitPasses
<1>7. CASE WaitReturn(r)
  BY <1>7 DEF WaitReturn, WaitPasses
<1>8. CASE Drain(r) \/ PersistFanIn(r)
  BY <1>8 DEF Drain, PersistFanIn
<1> QED BY <1>3, <1>4, <1>5, <1>6, <1>7, <1>8 DEF RunStep, FanInStep

LEMMA SubStepEffect ==
    ASSUME IInv, NEW s \in Subs
    PROVE  /\ Settle(s) =>
                /\ sub[s] = "running" /\ sub' = [sub EXCEPT ![s] = "closing"]
                /\ UNCHANGED <<owner, arg, pc, raced>> /\ refused \subseteq refused'
                /\ \A x \in Subs \ {s} : status'[x] = status[x]
                /\ status'[s] # "none" /\ (s \in refused' \/ status'[s] \in Terminal)
           /\ PushReturns(s) =>
                /\ sub[s] = "closing" /\ sub' = [sub EXCEPT ![s] = "pushed"]
                /\ UNCHANGED <<owner, arg, pc, status, raced, refused>>
           /\ DoneRecord(s) =>
                /\ sub[s] = "pushed" /\ sub' = [sub EXCEPT ![s] = "recorded"]
                /\ UNCHANGED <<owner, arg, pc, status, raced, refused>>
           /\ DoneSignal(s) =>
                /\ sub[s] = "recorded" /\ sub' = [sub EXCEPT ![s] = "gone"]
                /\ UNCHANGED <<owner, arg, status, raced, refused>>
                /\ \A r \in Runs : pc'[r] = pc[r] \/ (pc[r] = "wait" /\ pc'[r] = "woken")
<1> USE DEF IInv, TypeOK
<1>1. Settle(s) => status[s] # "none"
  BY DEF Settle, RowInv
<1>2. Settle(s) =>
        /\ sub[s] = "running" /\ sub' = [sub EXCEPT ![s] = "closing"]
        /\ UNCHANGED <<owner, arg, pc, raced>> /\ refused \subseteq refused'
        /\ \A x \in Subs \ {s} : status'[x] = status[x]
        /\ status'[s] # "none" /\ (s \in refused' \/ status'[s] \in Terminal)
  BY <1>1 DEF Settle, runVars, registry, Terminal
<1>3. PushReturns(s) =>
        /\ sub[s] = "closing" /\ sub' = [sub EXCEPT ![s] = "pushed"]
        /\ UNCHANGED <<owner, arg, pc, status, raced, refused>>
  BY DEF PushReturns, runVars, registry
<1>4. DoneRecord(s) =>
        /\ sub[s] = "pushed" /\ sub' = [sub EXCEPT ![s] = "recorded"]
        /\ UNCHANGED <<owner, arg, pc, status, raced, refused>>
  BY DEF DoneRecord, runVars
<1>5. DoneSignal(s) =>
        /\ sub[s] = "recorded" /\ sub' = [sub EXCEPT ![s] = "gone"]
        /\ UNCHANGED <<owner, arg, status, raced, refused>>
        /\ \A r \in Runs : pc'[r] = pc[r] \/ (pc[r] = "wait" /\ pc'[r] = "woken")
  BY DEF DoneSignal
<1> QED BY <1>2, <1>3, <1>4, <1>5

-----------------------------------------------------------------------------
(* Mail: what stays true of the events. *)

NobodyHas(e) == ~Received(e) /\ \A h \in 1..MaxHubs : ~Ahead(e, ch[h], Len(ch[h]) + 1)

\* An event is in a buffer or received only once it was pushed.
LEMMA PushedOnly ==
    ASSUME PartsInv, NEW p \in Procs, NEW i \in Nat, at[p] <= i
    PROVE  NobodyHas(<<p, i>>)
<1> DEFINE e == <<p, i>>
<1>1. ~(e[2] < at[e[1]])
  BY HubFacts DEF PartsInv
<1>2. \A h \in 1..MaxHubs : \A k \in DOMAIN ch[h] : ch[h][k] # e
  BY <1>1 DEF PartsInv, HP!FeedInv, HP!BuffersInv, HP!Emitted, HP!Elems, HP!Hubs
<1>3. \A c \in Streams : \A k \in DOMAIN got[c] : got[c][k] # e
  BY <1>1 DEF PartsInv, HP!FeedInv, HP!ClientsInv, HP!Emitted, HP!Elems
<1> QED BY <1>2, <1>3 DEF NobodyHas, Received, Ahead

\* Steps that move no event, if nobody can have the last event of a run that ends.
LEMMA MailStays ==
    ASSUME MailInv, UNCHANGED <<ch, got, at>>, HP!IInv,
           \A s \in Subs : at[s] # 1 => /\ hub'[s] = hub[s] /\ hub[s] \in 1..MaxHubs
                                        /\ closed[hub[s]] => closed'[hub[s]],
           \A s \in Subs : Awaited(s)' =>
              \/ owner[s] = owner'[s] /\ Awaited(s)
              \/ NobodyHas(<<owner'[s], 2>>)
    PROVE  MailInv'
<1>1. ASSUME NEW s \in Subs, at[s] # 1, ~closed'[hub'[s]]
      PROVE  Arrived(<<s, 1>>, hub[s])'
  <2>1. Arrived(<<s, 1>>, hub[s])
    BY <1>1 DEF MailInv
  <2>2. hub'[s] = hub[s]
    BY <1>1
  <2> QED BY <2>1, <2>2 DEF Arrived, Received, Ahead
<1>2. ASSUME NEW s \in Subs, Awaited(s)'
      PROVE  /\ Received(<<owner'[s], 2>>) => Received(<<s, 1>>)
             /\ \A h \in 1..MaxHubs : \A n \in DOMAIN ch[h] :
                   ch[h][n] = <<owner'[s], 2>> => Received(<<s, 1>>) \/ Ahead(<<s, 1>>, ch[h], n)
  <2>1. CASE owner[s] = owner'[s] /\ Awaited(s)
    BY <2>1 DEF MailInv
  <2>2. CASE NobodyHas(<<owner'[s], 2>>)
    <3>1. ASSUME NEW h \in 1..MaxHubs, NEW n \in DOMAIN ch[h] PROVE n < Len(ch[h]) + 1
      <4>1. ch[h] \in Seq(HP!Events)
        BY HubFacts
      <4> QED BY <4>1
    <3> QED BY <2>2, <3>1 DEF NobodyHas, Ahead
  <2> QED BY <1>2, <2>1, <2>2
<1>3. \A e : Received(e)' <=> Received(e)
  BY DEF Received
<1> QED BY <1>1, <1>2, <1>3 DEF MailInv

\* What is ahead in a sequence when an event is added at its end or taken from its front.
LEMMA AppendAhead ==
    ASSUME NEW q \in Seq(HP!Events), NEW x \in HP!Events
    PROVE  /\ \A e, n : Ahead(e, q, n) => Ahead(e, Append(q, x), n)
           /\ \A e : Ahead(e, q, Len(q) + 1) =>
                 Ahead(e, Append(q, x), Len(Append(q, x)) + 1)
           /\ Ahead(x, Append(q, x), Len(Append(q, x)) + 1)
           /\ \A n \in DOMAIN Append(q, x) :
                 \/ n \in DOMAIN q /\ Append(q, x)[n] = q[n]
                 \/ n = Len(q) + 1 /\ Append(q, x)[n] = x
<1> DEFINE m == Len(q)
           t == Append(q, x)
<1>1. /\ m \in Nat /\ DOMAIN q = 1..m /\ Len(t) = m + 1 /\ DOMAIN t = 1..(m + 1)
      /\ t[m + 1] = x /\ \A i \in 1..m : t[i] = q[i]
  OBVIOUS
<1> HIDE DEF m, t
<1>2. \A e, n : Ahead(e, q, n) => Ahead(e, t, n)
  BY <1>1 DEF Ahead
<1>3. \A e : Ahead(e, q, m + 1) => Ahead(e, t, Len(t) + 1)
  BY <1>1 DEF Ahead
<1>4. Ahead(x, t, Len(t) + 1)
  BY <1>1 DEF Ahead
<1>5. \A n \in DOMAIN t : (n \in DOMAIN q /\ t[n] = q[n]) \/ (n = m + 1 /\ t[n] = x)
  BY <1>1
<1> QED BY <1>2, <1>3, <1>4, <1>5 DEF m, t

LEMMA TailAhead ==
    ASSUME NEW q \in Seq(HP!Events), q # <<>>
    PROVE  /\ \A e, n : n \in Nat /\ Ahead(e, q, n + 1) => e = Head(q) \/ Ahead(e, Tail(q), n)
           /\ \A e : Ahead(e, q, Len(q) + 1) =>
                 e = Head(q) \/ Ahead(e, Tail(q), Len(Tail(q)) + 1)
           /\ \A n \in DOMAIN Tail(q) : /\ n \in Nat /\ n + 1 \in DOMAIN q
                                        /\ Tail(q)[n] = q[n + 1]
           /\ 1 \in DOMAIN q /\ Head(q) = q[1] /\ \A e : ~Ahead(e, q, 1)
<1> DEFINE m == Len(q)
           t == Tail(q)
<1>1. /\ m \in Nat \ {0} /\ DOMAIN q = 1..m /\ Len(t) = m - 1 /\ DOMAIN t = 1..(m - 1)
      /\ Head(q) = q[1] /\ \A i \in 1..(m - 1) : t[i] = q[i + 1]
  OBVIOUS
<1> HIDE DEF m, t
<1>2. ASSUME NEW e, NEW n \in Nat, Ahead(e, q, n + 1), e # Head(q)
      PROVE  Ahead(e, t, n)
  <2>1. PICK i \in 1..m : i < n + 1 /\ q[i] = e
    BY <1>1, <1>2 DEF Ahead
  <2>2. i # 1 /\ i - 1 \in 1..(m - 1) /\ i - 1 < n
    BY <1>1, <1>2, <2>1
  <2>3. t[i - 1] = e
    BY <1>1, <2>1, <2>2
  <2> QED BY <1>1, <2>2, <2>3 DEF Ahead
<1>3. \A e : Ahead(e, q, m + 1) => e = Head(q) \/ Ahead(e, t, Len(t) + 1)
  BY <1>1, <1>2
<1>4. \A n \in DOMAIN t : n \in Nat /\ n + 1 \in DOMAIN q /\ t[n] = q[n + 1]
  BY <1>1
<1>5. 1 \in DOMAIN q /\ \A e : ~Ahead(e, q, 1)
  BY <1>1 DEF Ahead
<1> QED BY <1>1, <1>2, <1>3, <1>4, <1>5 DEF m, t

\* A subagent that has pushed has a hub.
LEMMA PushedHub ==
    ASSUME PartsInv, GoroutineInv, NEW s \in Subs, at[s] # 1
    PROVE  sub[s] \notin {"unused", "running"} /\ hpc[s] # "idle" /\ hub[s] \in 1..MaxHubs
<1>1. sub[s] \in {"closing", "pushed", "recorded", "gone"} /\ hpc[s] # "idle"
  BY DEF GoroutineInv, SubPlace, PartsInv, IInv, TypeOK, SubPcs
<1>2. hub[s] \in 1..made
  BY <1>1 DEF GoroutineInv, PushesTo
<1> QED BY <1>1, <1>2, HubFacts DEF PartsInv

LEMMA MailSent ==
    ASSUME PartsInv, GoroutineInv, MailInv, NEW p \in Procs, Sends(p), hub[p] \in 1..MaxHubs,
           UNCHANGED <<hub, closed, got, owner, ended, raced>>
    PROVE  MailInv'
<1>1. \A e : Received(e)' <=> Received(e)
  BY DEF Received
<1>2. /\ \A q \in Procs \ {p} : at'[q] = at[q]
      /\ Subs \subseteq Procs /\ Runs \subseteq Procs
  BY HubFacts DEF Sends, Procs, PartsInv
<1>3. CASE closed[hub[p]] /\ ch' = ch
  <2>1. ASSUME NEW s \in Subs, at'[s] # 1, ~closed'[hub'[s]]
        PROVE  Received(<<s, 1>>) \/ Ahead(<<s, 1>>, ch[hub[s]], Len(ch[hub[s]]) + 1)
    <3>1. s # p
      BY <1>3, <2>1
    <3> QED BY <1>2, <2>1, <3>1 DEF MailInv, Arrived
  <2> QED BY <1>1, <1>3, <2>1 DEF MailInv, Arrived, Awaited
<1>4. CASE ~closed[hub[p]] /\ ch' = [ch EXCEPT ![hub[p]] = Append(@, <<p, at[p]>>)]
  <2> DEFINE h == hub[p]
             x == <<p, at[p]>>
  <2>1. /\ x \in HP!Events /\ ch[h] \in Seq(HP!Events) /\ ch'[h] = Append(ch[h], x)
        /\ \A k \in 1..MaxHubs \ {h} : ch'[k] = ch[k]
    <3>1. x \in HP!Events
      BY DEF Sends, HP!Events
    <3> QED BY <1>4, <3>1, HubFacts DEF PartsInv
  <2>2. /\ \A e, n : Ahead(e, ch[h], n) => Ahead(e, ch'[h], n)
        /\ \A e : Ahead(e, ch[h], Len(ch[h]) + 1) => Ahead(e, ch'[h], Len(ch'[h]) + 1)
        /\ Ahead(x, ch'[h], Len(ch'[h]) + 1)
        /\ \A n \in DOMAIN ch'[h] :
              \/ n \in DOMAIN ch[h] /\ ch'[h][n] = ch[h][n]
              \/ n = Len(ch[h]) + 1 /\ ch'[h][n] = x
    <3> DEFINE q == ch[h]
    <3> HIDE DEF x, q
    <3>1. q \in Seq(HP!Events) /\ x \in HP!Events
      BY <2>1 DEF q
    <3>2. /\ \A e, n : Ahead(e, q, n) => Ahead(e, Append(q, x), n)
          /\ \A e : Ahead(e, q, Len(q) + 1) =>
                Ahead(e, Append(q, x), Len(Append(q, x)) + 1)
          /\ Ahead(x, Append(q, x), Len(Append(q, x)) + 1)
          /\ \A n \in DOMAIN Append(q, x) :
                \/ n \in DOMAIN q /\ Append(q, x)[n] = q[n]
                \/ n = Len(q) + 1 /\ Append(q, x)[n] = x
      BY <3>1, AppendAhead
    <3>3. ch'[h] = Append(q, x)
      BY <2>1 DEF q
    <3> QED BY <3>2, <3>3 DEF q
  <2> HIDE DEF h, x
  <2>3. ASSUME NEW s \in Subs, at'[s] # 1, ~closed'[hub'[s]]
        PROVE  Received(<<s, 1>>) \/ Ahead(<<s, 1>>, ch'[hub[s]], Len(ch'[hub[s]]) + 1)
    <3>1. CASE s = p
      <4>1. x = <<s, 1>> /\ hub[s] = h
        BY <3>1, ScriptFacts DEF Sends, x, h
      <4> QED BY <2>2, <4>1
    <3>2. CASE s # p
      <4>1. Received(<<s, 1>>) \/ Ahead(<<s, 1>>, ch[hub[s]], Len(ch[hub[s]]) + 1)
        BY <1>2, <2>3, <3>2 DEF MailInv, Arrived
      <4>2. hub[s] \in 1..MaxHubs
        BY <1>2, <2>3, <3>2, PushedHub
      <4> QED BY <2>1, <2>2, <4>1, <4>2
    <3> QED BY <3>1, <3>2
  <2>4. ASSUME NEW s \in Subs, Awaited(s),
               NEW k \in 1..MaxHubs, NEW n \in DOMAIN ch'[k], ch'[k][n] = <<owner[s], 2>>
        PROVE  Received(<<s, 1>>) \/ Ahead(<<s, 1>>, ch'[k], n)
    <3>1. CASE n \in DOMAIN ch[k] /\ ch'[k][n] = ch[k][n]
      <4>1. Received(<<s, 1>>) \/ Ahead(<<s, 1>>, ch[k], n)
        BY <2>4, <3>1 DEF MailInv
      <4> QED BY <2>1, <2>2, <4>1
    <3>2. CASE k = h /\ n = Len(ch[h]) + 1 /\ ch'[k][n] = x
      <4>1. p = owner[s]
        BY <2>4, <3>2 DEF x
      <4>2. sub[s] \in {"recorded", "gone"} /\ hpc[s] = "done" /\ at[s] # 1
        BY <2>4 DEF GoroutineInv, OwnerInv, SubPlace, Awaited
      <4>3. hub[s] = h /\ ~closed[hub[s]]
        BY <1>4, <2>4, <4>1, <4>2 DEF GoroutineInv, OwnerInv, Awaited, h
      <4>4. Received(<<s, 1>>) \/ Ahead(<<s, 1>>, ch[h], Len(ch[h]) + 1)
        BY <4>2, <4>3 DEF MailInv, Arrived
      <4> QED BY <2>2, <3>2, <4>4
    <3> QED BY <2>1, <2>2, <2>4, <3>1, <3>2
  <2> QED BY <1>1, <2>3, <2>4 DEF MailInv, Arrived, Awaited
<1> QED BY <1>3, <1>4 DEF Sends

LEMMA MailTaken ==
    ASSUME PartsInv, GoroutineInv, MailInv, NEW c \in Streams, NEW h \in 1..MaxHubs, Takes(c, h),
           UNCHANGED <<hub, at, owner, ended, raced>>,
           \A k \in 1..MaxHubs : closed[k] => closed'[k]
    PROVE  MailInv'
<1> DEFINE q == ch[h]
           f == Head(q)
           t == Tail(q)
<1>1. /\ q \in Seq(HP!Events) /\ q # <<>> /\ f \in HP!Events /\ ch'[h] = t
      /\ \A k \in 1..MaxHubs \ {h} : ch'[k] = ch[k]
      /\ got[c] \in Seq(HP!Events) /\ got'[c] = Append(got[c], f)
      /\ \A d \in Streams \ {c} : got'[d] = got[d]
  <2>1. ch \in [1..MaxHubs -> Seq(HP!Events)] /\ got \in [Streams -> Seq(HP!Events)]
    BY HubFacts DEF PartsInv
  <2>2. q \in Seq(HP!Events) /\ q # <<>> /\ ch'[h] = t
    BY <2>1 DEF Takes
  <2>3. f \in HP!Events
    BY <2>2
  <2> QED BY <2>1, <2>2, <2>3 DEF Takes
<1> HIDE DEF q, f, t
<1>2. /\ \A e, n : n \in Nat /\ Ahead(e, q, n + 1) => e = f \/ Ahead(e, t, n)
      /\ \A e : Ahead(e, q, Len(q) + 1) => e = f \/ Ahead(e, t, Len(t) + 1)
      /\ \A n \in DOMAIN t : n \in Nat /\ n + 1 \in DOMAIN q /\ t[n] = q[n + 1]
      /\ 1 \in DOMAIN q /\ f = q[1] /\ \A e : ~Ahead(e, q, 1)
  BY <1>1, TailAhead DEF f, t
<1>3. \A e : Received(e)' <=> Received(e) \/ e = f
  <2> DEFINE g == got[c]
             m == Len(g)
  <2>1. /\ m \in Nat /\ DOMAIN g = 1..m /\ DOMAIN Append(g, f) = 1..(m + 1)
        /\ Append(g, f)[m + 1] = f /\ \A i \in 1..m : Append(g, f)[i] = g[i]
    BY <1>1
  <2>2. /\ m \in Nat /\ DOMAIN got[c] = 1..m /\ DOMAIN got'[c] = 1..(m + 1)
        /\ got'[c][m + 1] = f /\ \A i \in 1..m : got'[c][i] = got[c][i]
    BY <1>1, <2>1
  <2> HIDE DEF g, m
  <2>3. ASSUME NEW e, NEW d \in Streams, NEW i \in DOMAIN got'[d], got'[d][i] = e
        PROVE  Received(e) \/ e = f
    <3>1. CASE d = c
      <4>1. e = f \/ (i \in DOMAIN got[c] /\ got[c][i] = e)
        BY <2>2, <2>3, <3>1
      <4> QED BY <4>1 DEF Received
    <3>2. CASE d # c
      BY <1>1, <2>3, <3>2 DEF Received
    <3> QED BY <3>1, <3>2
  <2>4. ASSUME NEW e, NEW d \in Streams, NEW i \in DOMAIN got[d], got[d][i] = e
        PROVE  \E k \in Streams : \E j \in DOMAIN got'[k] : got'[k][j] = e
    BY <1>1, <2>2, <2>4
  <2>5. \E j \in DOMAIN got'[c] : got'[c][j] = f
    BY <2>2
  <2> QED BY <2>3, <2>4, <2>5 DEF Received
<1>4. ASSUME NEW s \in Subs, at'[s] # 1, ~closed'[hub'[s]]
      PROVE  \/ Received(<<s, 1>>) \/ <<s, 1>> = f
             \/ Ahead(<<s, 1>>, ch'[hub[s]], Len(ch'[hub[s]]) + 1)
  <2>1. hub[s] \in 1..MaxHubs /\ ~closed[hub[s]]
    BY <1>4, PushedHub
  <2>2. Received(<<s, 1>>) \/ Ahead(<<s, 1>>, ch[hub[s]], Len(ch[hub[s]]) + 1)
    BY <1>4, <2>1 DEF MailInv, Arrived
  <2> QED BY <1>1, <1>2, <2>1, <2>2 DEF q
<1>5. ASSUME NEW s \in Subs, Awaited(s)
      PROVE  /\ <<owner[s], 2>> = f => Received(<<s, 1>>)
             /\ \A k \in 1..MaxHubs : \A n \in DOMAIN ch'[k] :
                   ch'[k][n] = <<owner[s], 2>> =>
                      Received(<<s, 1>>) \/ <<s, 1>> = f \/ Ahead(<<s, 1>>, ch'[k], n)
  <2>1. \A k \in 1..MaxHubs : \A n \in DOMAIN ch[k] :
          ch[k][n] = <<owner[s], 2>> => Received(<<s, 1>>) \/ Ahead(<<s, 1>>, ch[k], n)
    BY <1>5 DEF MailInv
  <2>2. <<owner[s], 2>> = f => Received(<<s, 1>>)
    BY <1>2, <2>1 DEF q
  <2>3. ASSUME NEW n \in DOMAIN t, t[n] = <<owner[s], 2>>
        PROVE  Received(<<s, 1>>) \/ <<s, 1>> = f \/ Ahead(<<s, 1>>, t, n)
    <3>1. n \in Nat /\ n + 1 \in DOMAIN q /\ q[n + 1] = <<owner[s], 2>>
      BY <1>2, <2>3
    <3>2. Received(<<s, 1>>) \/ Ahead(<<s, 1>>, q, n + 1)
      BY <2>1, <3>1 DEF q
    <3> QED BY <1>2, <3>1, <3>2
  <2> QED BY <1>1, <2>1, <2>2, <2>3
<1>6. \A s \in Subs : Awaited(s) =>
        (Received(<<owner[s], 2>>) => Received(<<s, 1>>))
  BY DEF MailInv
<1> QED BY <1>3, <1>4, <1>5, <1>6 DEF MailInv, Arrived, Awaited

-----------------------------------------------------------------------------
(* Goroutines: where each is in both modules. *)

\* A lookup by p: hubs are added, nobody else moves.
LEMMA LookupKeeps ==
    ASSUME PartsInv, GoroutineInv, NEW p \in Procs, H!StartRun(p), UNCHANGED <<sub, status, owner, arg, ended, raced, refused>>,
           \A q \in Runs \ {p} : pc'[q] = pc[q],
           p \in Runs => pc[p] = "idle" /\ pc'[p] \in {"loop"},
           p \in Subs => sub[p] = "running"
    PROVE  GoroutineInv'
<1>0. /\ Runs \subseteq Procs /\ Subs \subseteq Procs /\ Runs \cap Subs = {}
      /\ None \notin Runs /\ owner \in [Subs -> Runs \cup {None}]
      /\ pc \in [Runs -> RunPcs]
  BY TurnAssumption, ConstantsAssumption DEF Procs, PartsInv, IInv, TypeOK
<1>1. PICK h \in 1..made' : /\ hub' = [hub EXCEPT ![p] = h]
                            /\ \A k \in 1..made : ~closed[k] => h = k
  BY StartEffect DEF PartsInv
<1>2. /\ hpc[p] = "idle" /\ hpc' = [hpc EXCEPT ![p] = "next"]
      /\ made' \in Nat /\ made \in Nat /\ made <= made'
      /\ UNCHANGED <<ch, closed, target, at, got, discarded>>
  BY StartEffect, HubFacts DEF PartsInv
<1>3. /\ hpc'[p] = "next" /\ hub'[p] = h
      /\ \A q \in Procs \ {p} : hpc'[q] = hpc[q] /\ hub'[q] = hub[q]
  BY <1>1, <1>2, HubFacts DEF PartsInv
<1>4. \A q \in Procs : PushesTo(q)'
  BY <1>2, <1>3 DEF GoroutineInv, PushesTo, Procs
<1>5. \A r \in Runs : RunPlace(r)'
  <2> SUFFICES ASSUME NEW r \in Runs PROVE RunPlace(r)'
    OBVIOUS
  <2>1. CASE r = p
    BY <1>0, <1>2, <1>3, <2>1 DEF GoroutineInv, PushesTo, RunPlace, InLoop, MayPush
  <2>2. CASE r # p
    BY <1>0, <1>2, <1>3, <2>2 DEF GoroutineInv, RunPlace, InLoop, MayPush
  <2> QED BY <2>1, <2>2
<1>6. \A s \in Subs : SubPlace(s)'
  BY <1>0, <1>2, <1>3 DEF GoroutineInv, SubPlace
<1>7. ASSUME NEW s \in Subs PROVE OwnerInv(s)'
  <2>1. CASE owner[s] = None
    BY <2>1 DEF GoroutineInv, OwnerInv, Awaited
  <2>2. CASE owner[s] # None
    <3> DEFINE r == owner[s]
    <3>1. r \in Runs /\ r # p /\ pc[r] # "idle" /\ hpc[r] # "idle" /\ hub[r] \in 1..made
      BY <1>0, <2>2 DEF GoroutineInv, OwnerInv, RunPlace, PushesTo
    <3>2. hub'[r] = hub[r] /\ pc'[r] = pc[r]
      BY <1>0, <1>3, <3>1
    <3>3. hpc'[s] # "idle" /\ ~closed[hub[r]] => hub'[s] = hub[r]
      <4>1. CASE s = p
        BY <1>1, <1>3, <3>1, <4>1
      <4>2. CASE s # p
        BY <1>0, <1>3, <2>2, <4>2 DEF GoroutineInv, OwnerInv
      <4> QED BY <4>1, <4>2
    <3> QED BY <1>2, <2>2, <3>2, <3>3 DEF GoroutineInv, OwnerInv, Awaited
  <2> QED BY <2>1, <2>2
<1>8. ended' \in [Runs -> {"none", "end_turn", "other", "failed"}]
  BY DEF GoroutineInv
<1> QED BY <1>4, <1>5, <1>6, <1>7, <1>8 DEF GoroutineInv, Procs

\* A push by p: its own place in the hub changes, and nothing of Dispatch.
LEMMA PushKeeps ==
    ASSUME PartsInv, GoroutineInv, NEW p \in Procs, H!Produce(p), UNCHANGED <<vars, ended>>,
           p \in Runs => MayPush(p),
           p \in Subs => sub[p] = "closing"
    PROVE  GoroutineInv'
<1>0. /\ Runs \subseteq Procs /\ Subs \subseteq Procs /\ Runs \cap Subs = {}
      /\ None \notin Runs /\ owner \in [Subs -> Runs \cup {None}]
      /\ at \in [Procs -> Nat \ {0}]
      /\ UNCHANGED <<pc, arg, sub, status, owner, raced, refused>>
  BY TurnAssumption, ConstantsAssumption, HubFacts
  DEF Procs, PartsInv, IInv, TypeOK, vars, runVars, subVars, registry
<1>1. PushesTo(p)
  BY DEF GoroutineInv, Procs
<1>2. /\ hpc[p] # "idle" /\ hpc'[p] # "idle"
      /\ \A q \in Procs \ {p} : hpc'[q] = hpc[q] /\ target'[q] = target[q]
      /\ UNCHANGED <<hub, made, closed, got>> /\ PushesTo(p)'
      /\ hpc'[p] = "done" => at[p] \notin HP!Pos(p)
      /\ Evicts \/ Sends(p)
  BY <1>1, ProduceEffect DEF PartsInv
<1>3. /\ \A q \in Procs \ {p} : at'[q] = at[q]
      /\ hpc'[p] = "done" => at'[p] = at[p]
  BY <1>0, <1>2 DEF Evicts, Sends
<1>4. \A q \in Procs : PushesTo(q)'
  BY <1>2, <1>3 DEF GoroutineInv, PushesTo, Procs
<1>5. ASSUME NEW r \in Runs PROVE RunPlace(r)'
  <2>1. CASE r = p
    BY <1>0, <1>2, <2>1 DEF GoroutineInv, RunPlace, MayPush
  <2>2. CASE r # p
    BY <1>0, <1>2, <1>3, <2>2 DEF GoroutineInv, RunPlace, MayPush, InLoop
  <2> QED BY <2>1, <2>2
<1>6. ASSUME NEW s \in Subs PROVE SubPlace(s)'
  <2>1. CASE s = p
    <3>1. hpc'[s] = "done" => at'[s] # 1
      BY <1>2, <1>3, <2>1, ScriptFacts
    <3> QED BY <1>0, <1>2, <2>1, <3>1 DEF GoroutineInv, SubPlace
  <2>2. CASE s # p
    BY <1>0, <1>2, <1>3, <2>2 DEF GoroutineInv, SubPlace
  <2> QED BY <2>1, <2>2
<1>7. \A s \in Subs : OwnerInv(s)'
  BY <1>0, <1>2 DEF GoroutineInv, OwnerInv, Awaited
<1> QED BY <1>4, <1>5, <1>6, <1>7 DEF GoroutineInv, Procs

\* A step of a stream moves no producer; it may close hubs and add one.
LEMMA StreamKeeps ==
    ASSUME PartsInv, GoroutineInv,
           UNCHANGED <<pc, arg, sub, status, owner, ended, raced, refused>>,
           UNCHANGED <<hpc, hub, target, at>>, made' \in Nat, made <= made',
           \A h \in 1..MaxHubs : closed[h] => closed'[h]
    PROVE  GoroutineInv'
<1>0. made \in Nat /\ made <= MaxHubs /\ MaxHubs \in Nat
      /\ owner \in [Subs -> Runs \cup {None}]
  BY HubFacts DEF PartsInv, IInv, TypeOK
<1>1. \A q \in Procs : PushesTo(q)'
  BY <1>0 DEF GoroutineInv, PushesTo, Procs
<1>2. \A r \in Runs : RunPlace(r)'
  BY DEF GoroutineInv, RunPlace, MayPush, InLoop
<1>3. \A s \in Subs : SubPlace(s)'
  BY DEF GoroutineInv, SubPlace
<1>4. ASSUME NEW s \in Subs PROVE OwnerInv(s)'
  <2>1. owner[s] # None => hub[owner[s]] \in 1..MaxHubs
    BY <1>0 DEF GoroutineInv, OwnerInv, RunPlace, PushesTo
  <2> QED BY <2>1 DEF GoroutineInv, OwnerInv, Awaited
<1> QED BY <1>1, <1>2, <1>3, <1>4 DEF GoroutineInv, Procs

\* Steps of Dispatch leave the hub as it is.
LEMMA HubStays ==
    ASSUME GoroutineInv, UNCHANGED hubVars
    PROVE  \A q \in Procs : PushesTo(q)'
BY DEF GoroutineInv, PushesTo, hubVars, Procs

LEMMA RunKeepsRefused == ASSUME NEW r \in Runs, RunStep(r) PROVE UNCHANGED refused
BY DEF RunStep, FanInStep, DispatchCreate, Add, EndTurn, CheckPending, WaitFetch, WaitEnter,
   WaitReturn, Drain, PersistFanIn, OtherStop, RunError, subVars

\* A run in its loop: who it owns, and what it knows of them when it ends its turn.
LEMMA RunKeeps ==
    ASSUME PartsInv, GoroutineInv, NEW r \in Runs, RunGoesOn(r)
    PROVE  GoroutineInv'
<1>0. /\ owner \in [Subs -> Runs \cup {None}] /\ None \notin Runs
      /\ sub \in [Subs -> SubPcs] /\ status \in [Subs -> Terminal \cup {"none", "running"}]
      /\ pc \in [Runs -> RunPcs] /\ arg \in [Runs -> Subs \cup {None}]
      /\ UNCHANGED <<hpc, at, hub, closed>> /\ UNCHANGED refused
      /\ \A s \in Subs : status[s] = "none" => sub[s] = "unused"
  <2>1. UNCHANGED refused
    BY RunKeepsRefused DEF RunGoesOn
  <2> QED BY <2>1, ConstantsAssumption DEF PartsInv, IInv, TypeOK, RowInv, RunGoesOn, hubVars
<1>1. /\ pc[r] \in Active /\ pc'[r] # "idle"
      /\ \A q \in Runs \ {r} : pc'[q] = pc[q] /\ arg'[q] = arg[q]
      /\ \/ \E s \in Subs : Creates(r, s) \/ Adds(r, s)
         \/ pc[r] # "adding" /\ UNCHANGED <<status, owner, sub>>
      /\ raced => raced'
      /\ pc[r] = "check" /\ pc'[r] = "done" => raced \/ InFlight = {}
  BY RunStepEffect DEF RunGoesOn, PartsInv
<1>2. /\ ended' \in [Runs -> {"none", "end_turn", "other", "failed"}]
      /\ \A q \in Runs \ {r} : ended'[q] = ended[q]
      /\ ended[r] = "none"
      /\ ended'[r] # "none" => pc'[r] \in {"done", "failed"}
      /\ ended'[r] = "end_turn" => pc[r] = "check" /\ pc'[r] = "done"
  BY <1>1 DEF RunGoesOn, EndedBy, GoroutineInv, RunPlace, MayPush, Active
<1>3. \A q \in Procs : PushesTo(q)'
  BY HubStays DEF RunGoesOn
<1>4. ASSUME NEW q \in Runs PROVE RunPlace(q)'
  <2>1. CASE q = r
    BY <1>0, <1>1, <1>2, <2>1 DEF GoroutineInv, RunPlace, InLoop, MayPush, Active, RunGoesOn
  <2>2. CASE q # r
    BY <1>0, <1>1, <1>2, <2>2 DEF GoroutineInv, RunPlace, InLoop, MayPush
  <2> QED BY <2>1, <2>2
<1>5. CASE \E x \in Subs : Creates(r, x)
  <2>1. PICK x \in Subs : Creates(r, x)
    BY <1>5
  <2>2. /\ status'[x] = "running" /\ owner'[x] = r /\ sub' = sub /\ arg'[r] = x
        /\ sub[x] = "unused" /\ hpc[x] = "idle" /\ pc[r] = "loop" /\ pc'[r] = "adding"
        /\ \A s \in Subs \ {x} : status'[s] = status[s] /\ owner'[s] = owner[s]
    BY <1>0, <2>1 DEF Creates, GoroutineInv, SubPlace
  <2>3. \A s \in Subs : SubPlace(s)'
    BY <1>0, <2>2 DEF GoroutineInv, SubPlace
  <2>4. ASSUME NEW s \in Subs PROVE OwnerInv(s)'
    <3>1. CASE s = x
      BY <1>0, <1>2, <2>2, <3>1 DEF OwnerInv, Awaited
    <3>2. CASE s # x /\ owner[s] # r
      BY <1>0, <1>1, <1>2, <2>2, <3>2 DEF GoroutineInv, OwnerInv, Awaited
    <3>3. CASE s # x /\ owner[s] = r
      BY <1>0, <1>1, <1>2, <2>2, <3>3 DEF GoroutineInv, OwnerInv, Awaited
    <3> QED BY <3>1, <3>2, <3>3
  <2> QED BY <1>2, <1>3, <1>4, <2>3, <2>4 DEF GoroutineInv, Procs
<1>6. CASE \E x \in Subs : Adds(r, x)
  <2>1. PICK x \in Subs : Adds(r, x)
    BY <1>6
  <2>2. /\ UNCHANGED <<status, owner>> /\ sub'[x] = "running" /\ arg[r] = x
        /\ pc[r] = "adding" /\ pc'[r] = "loop"
        /\ \A s \in Subs \ {x} : sub'[s] = sub[s]
    BY <1>0, <2>1 DEF Adds
  <2>3. sub[x] = "unused" /\ status[x] # "none"
    BY <1>0, <2>2 DEF PartsInv, IInv, RowInv, TypeOK
  <2>4. \A s \in Subs : SubPlace(s)'
    BY <1>0, <2>2, <2>3 DEF GoroutineInv, SubPlace
  <2>5. ASSUME NEW s \in Subs PROVE OwnerInv(s)'
    <3>1. CASE owner[s] = None
      BY <2>2, <3>1 DEF GoroutineInv, OwnerInv, Awaited
    <3>2. CASE owner[s] # None
      <4>1. owner[s] \in Runs
        BY <1>0, <3>2
      <4>2. pc'[owner[s]] # "idle" /\ (sub'[s] = "unused" => owner[s] # r)
        BY <1>1, <2>2, <3>2, <4>1 DEF GoroutineInv, OwnerInv
      <4>3. Awaited(s)' => sub'[s] \in {"recorded", "gone"}
        BY <1>1, <1>2, <2>2, <2>3, <3>2, <4>1 DEF GoroutineInv, OwnerInv, Awaited
      <4> QED BY <1>0, <1>1, <2>2, <3>2, <4>1, <4>2, <4>3 DEF GoroutineInv, OwnerInv
    <3> QED BY <3>1, <3>2
  <2> QED BY <1>2, <1>3, <1>4, <2>4, <2>5 DEF GoroutineInv, Procs
<1>7. CASE pc[r] # "adding" /\ UNCHANGED <<status, owner, sub>>
  <2>1. \A s \in Subs : SubPlace(s)'
    BY <1>0, <1>7 DEF GoroutineInv, SubPlace
  <2>2. ASSUME NEW s \in Subs PROVE OwnerInv(s)'
    <3>1. CASE owner[s] # r
      BY <1>0, <1>1, <1>2, <1>7, <3>1 DEF GoroutineInv, OwnerInv, Awaited
    <3>2. CASE owner[s] = r
      <4>1. sub[s] # "unused"
        BY <1>0, <1>7, <3>2 DEF GoroutineInv, OwnerInv
      <4>2. Awaited(s)' => sub[s] \in {"recorded", "gone"}
        BY <1>0, <1>1, <1>2, <1>7, <3>2, <4>1 DEF InFlight, SubPcs, Awaited
      <4> QED BY <1>0, <1>1, <1>7, <3>2, <4>1, <4>2 DEF GoroutineInv, OwnerInv
    <3> QED BY <3>1, <3>2
  <2> QED BY <1>2, <1>3, <1>4, <2>1, <2>2 DEF GoroutineInv, Procs
<1> QED BY <1>1, <1>5, <1>6, <1>7

\* A subagent settles its row, or calls Done.
LEMMA SubKeeps ==
    ASSUME PartsInv, GoroutineInv, NEW s \in Subs, SubSettles(s) \/ SubReports(s)
    PROVE  GoroutineInv'
<1>0. /\ owner \in [Subs -> Runs \cup {None}] /\ None \notin Runs
      /\ sub \in [Subs -> SubPcs] /\ pc \in [Runs -> RunPcs]
      /\ UNCHANGED <<hpc, at, hub, closed, ended>> /\ UNCHANGED hubVars
      /\ \A x \in Subs : status[x] = "none" => sub[x] = "unused"
  BY ConstantsAssumption
  DEF PartsInv, IInv, TypeOK, RowInv, SubSettles, SubReports, hubVars
<1>1. \A q \in Procs : PushesTo(q)'
  BY <1>0, HubStays
<1>2. /\ UNCHANGED <<owner, arg, raced>> /\ refused \subseteq refused'
      /\ \A r \in Runs : pc'[r] = pc[r] \/ (pc[r] = "wait" /\ pc'[r] = "woken")
      /\ \A x \in Subs \ {s} : sub'[x] = sub[x] /\ status'[x] = status[x]
      /\ status'[s] # "none" /\ status[s] # "none"
      /\ \/ /\ sub[s] = "running" /\ sub'[s] = "closing" /\ hpc[s] = "next"
            /\ s \in refused' \/ status'[s] \in Terminal
         \/ /\ sub[s] = "closing" /\ sub'[s] = "pushed" /\ hpc[s] = "done"
            /\ status' = status
         \/ /\ sub[s] = "pushed" /\ sub'[s] = "recorded" /\ status' = status
         \/ /\ sub[s] = "recorded" /\ sub'[s] = "gone" /\ status' = status
  BY <1>0, SubStepEffect DEF SubSettles, SubReports, DoneStep, PushReturned, PartsInv
<1>3. \A r \in Runs : RunPlace(r)'
  BY <1>0, <1>2 DEF GoroutineInv, RunPlace, InLoop, MayPush
<1>4. ASSUME NEW x \in Subs PROVE SubPlace(x)'
  <2>1. CASE x = s
    BY <1>0, <1>2, <2>1 DEF GoroutineInv, SubPlace
  <2>2. CASE x # s
    BY <1>0, <1>2, <2>2 DEF GoroutineInv, SubPlace
  <2> QED BY <2>1, <2>2
<1>5. ASSUME NEW x \in Subs PROVE OwnerInv(x)'
  <2>1. CASE x = s
    BY <1>0, <1>2, <2>1 DEF GoroutineInv, OwnerInv, Awaited
  <2>2. CASE x # s
    BY <1>0, <1>2, <2>2 DEF GoroutineInv, OwnerInv, Awaited
  <2> QED BY <2>1, <2>2
<1>6. ended' \in [Runs -> {"none", "end_turn", "other", "failed"}]
  BY <1>0 DEF GoroutineInv
<1> QED BY <1>1, <1>3, <1>4, <1>5, <1>6 DEF GoroutineInv, Procs

\* The mail when nothing moves but a lookup, a step of Dispatch, or a stream's handler
\* that closes hubs: nobody's turn is known to have ended with end_turn but before.
LEMMA MailKept ==
    ASSUME PartsInv, TurnInv, UNCHANGED <<ch, got, at, discarded>>,
           \A s \in Subs : at[s] # 1 => hub'[s] = hub[s],
           \A h \in 1..MaxHubs : closed[h] => closed'[h],
           \A s \in Subs : Awaited(s)' =>
              \/ owner[s] = owner'[s] /\ Awaited(s)
              \/ NobodyHas(<<owner'[s], 2>>)
    PROVE  discarded' = {} => MailInv'
<1> SUFFICES ASSUME discarded = {} PROVE MailInv'
  OBVIOUS
<1>1. MailInv /\ GoroutineInv /\ HP!IInv
  BY DEF TurnInv, PartsInv
<1>2. \A s \in Subs : at[s] # 1 => hub[s] \in 1..MaxHubs
  BY <1>1, PushedHub
<1> QED BY <1>1, <1>2, MailStays

\* The mail when p is in a push.
LEMMA MailPushed ==
    ASSUME PartsInv, TurnInv, NEW p \in Procs, H!Produce(p), UNCHANGED <<owner, ended, raced>>
    PROVE  discarded' = {} => MailInv'
<1>1. PushesTo(p) /\ GoroutineInv
  BY DEF TurnInv, GoroutineInv, Procs
<1>2. /\ hpc[p] # "idle" /\ UNCHANGED <<hub, made, closed, got>>
      /\ discarded \subseteq discarded' /\ (Evicts \/ Sends(p))
  BY <1>1, ProduceEffect DEF PartsInv
<1>3. hub[p] \in 1..MaxHubs
  BY <1>1, <1>2, HubFacts DEF PushesTo, PartsInv
<1> SUFFICES ASSUME discarded' = {} PROVE MailInv'
  OBVIOUS
<1>4. discarded = {} /\ MailInv
  BY <1>2 DEF TurnInv
<1>5. CASE Evicts
  BY <1>2, <1>4, <1>5, MailKept DEF Evicts, Awaited
<1>6. CASE Sends(p)
  BY <1>1, <1>2, <1>3, <1>4, <1>6, MailSent
<1> QED BY <1>2, <1>5, <1>6

\* ... and when a stream serves, opens or leaves.
LEMMA MailStream ==
    ASSUME PartsInv, TurnInv, NEW c \in Streams, H!Serve(c) \/ H!Open(c) \/ H!Disconnect(c),
           UNCHANGED <<owner, ended, raced>>
    PROVE  discarded' = {} => MailInv'
<1>1. /\ UNCHANGED <<hpc, hub, target, at, discarded>>
      /\ \A h \in 1..MaxHubs : closed[h] => closed'[h]
      /\ UNCHANGED <<ch, got>> \/ \E h \in 1..MaxHubs : Takes(c, h)
  BY StreamEffect DEF PartsInv
<1>2. CASE UNCHANGED <<ch, got>>
  BY <1>1, <1>2, MailKept DEF Awaited
<1>3. CASE \E h \in 1..MaxHubs : Takes(c, h)
  BY <1>1, <1>3, MailTaken DEF TurnInv
<1> QED BY <1>1, <1>2, <1>3

-----------------------------------------------------------------------------
(* One lemma per action. *)

LEMMA BeginInv ==
    ASSUME PartsInv, TurnInv, NEW r \in Runs, Begin(r)
    PROVE  TurnInv'
<1>1. /\ r \in Procs /\ pc[r] = "idle" /\ pc' = [pc EXCEPT ![r] = "loop"]
      /\ H!StartRun(r) /\ UNCHANGED <<sub, status, owner, arg, ended, raced, refused>>
      /\ pc \in [Runs -> RunPcs]
  BY DEF Begin, StartRun, Goto, Procs, subVars, registry, PartsInv, IInv, TypeOK
<1>2. GoroutineInv'
  BY <1>1, LookupKeeps, TurnAssumption DEF TurnInv
<1>3. /\ hpc[r] = "idle" /\ UNCHANGED <<ch, closed, at, got, discarded>>
      /\ \E h \in 1..made' : hub' = [hub EXCEPT ![r] = h]
  BY <1>1, StartEffect DEF PartsInv
<1>4. \A s \in Subs : at[s] # 1 => hub'[s] = hub[s]
  BY <1>3, TurnAssumption
<1>5. discarded' = {} => MailInv'
  BY <1>1, <1>3, <1>4, MailKept DEF Awaited
<1> QED BY <1>2, <1>5 DEF TurnInv

LEMMA SubBeginInv ==
    ASSUME PartsInv, TurnInv, NEW s \in Subs, SubBegin(s)
    PROVE  TurnInv'
<1>1. /\ s \in Procs /\ s \notin Runs /\ sub[s] = "running" /\ at[s] = 1
      /\ H!StartRun(s) /\ UNCHANGED <<pc, sub, status, owner, arg, ended, raced, refused>>
  BY TurnAssumption
  DEF SubBegin, Procs, vars, runVars, subVars, registry, TurnInv, GoroutineInv, SubPlace
<1>2. GoroutineInv'
  BY <1>1, LookupKeeps DEF TurnInv
<1>3. /\ UNCHANGED <<ch, closed, at, got, discarded>>
      /\ \E h \in 1..made' : hub' = [hub EXCEPT ![s] = h]
  BY <1>1, StartEffect DEF PartsInv
<1>4. \A x \in Subs : at[x] # 1 => hub'[x] = hub[x]
  BY <1>1, <1>3
<1>5. discarded' = {} => MailInv'
  BY <1>1, <1>3, <1>4, MailKept DEF Awaited
<1> QED BY <1>2, <1>5 DEF TurnInv

\* A run ends its turn with end_turn before its first push.
LEMMA RunGoesOnInv ==
    ASSUME PartsInv, TurnInv, NEW r \in Runs, RunGoesOn(r)
    PROVE  TurnInv'
<1>1. GoroutineInv'
  BY RunKeeps DEF TurnInv
<1>2. /\ at[r] = 1 /\ UNCHANGED hubVars /\ RunStep(r) /\ r \in Procs
      /\ \A q \in Runs \ {r} : ended'[q] = ended[q]
      /\ raced => raced'
  BY RunStepEffect DEF RunGoesOn, InLoop, TurnInv, GoroutineInv, Procs, PartsInv
<1>3. NobodyHas(<<r, 2>>)
  BY <1>2, PushedOnly
<1>4. ASSUME NEW s \in Subs, owner'[s] # r PROVE owner'[s] = owner[s]
  <2>1. /\ owner \in [Subs -> Runs \cup {None}]
        /\ UNCHANGED owner \/ \E x \in Subs : owner' = [owner EXCEPT ![x] = r]
    BY <1>2, RunStepEffect DEF PartsInv, IInv, TypeOK, Creates, Adds
  <2> QED BY <1>4, <2>1
<1>5. \A s \in Subs : owner'[s] # None => owner'[s] \in Runs
  <2>1. IInv' \/ owner' \in [Subs -> Runs \cup {None}]
    <3>1. /\ owner \in [Subs -> Runs \cup {None}]
          /\ UNCHANGED owner \/ \E x \in Subs : owner' = [owner EXCEPT ![x] = r]
      BY <1>2, RunStepEffect DEF PartsInv, IInv, TypeOK, Creates, Adds
    <3> QED BY <3>1
  <2> QED BY <2>1 DEF IInv, TypeOK
<1>6. discarded' = {} => MailInv'
  BY <1>2, <1>3, <1>4, <1>5, MailKept DEF hubVars, Awaited
<1> QED BY <1>1, <1>6 DEF TurnInv

LEMMA SubReportsInv ==
    ASSUME PartsInv, TurnInv, NEW s \in Subs, SubSettles(s) \/ SubReports(s)
    PROVE  TurnInv'
<1>1. GoroutineInv'
  BY SubKeeps DEF TurnInv
<1>2. UNCHANGED hubVars /\ UNCHANGED <<owner, ended, raced>>
  BY SubStepEffect DEF SubSettles, SubReports, DoneStep, PartsInv
<1>3. discarded' = {} => MailInv'
  BY <1>2, MailKept DEF hubVars, Awaited
<1> QED BY <1>1, <1>3 DEF TurnInv

\* A run pushes after its loop, a subagent after its row's update.
LEMMA PushInv ==
    ASSUME PartsInv, TurnInv, NEW p \in Procs,
           \/ p \in Runs /\ RunPushes(p)
           \/ p \in Subs /\ SubPushes(p)
    PROVE  TurnInv'
<1>1. H!Produce(p) /\ UNCHANGED <<vars, ended>> /\ UNCHANGED <<owner, raced>>
  BY DEF RunPushes, SubPushes, vars, subVars, registry
<1>2. PushesTo(p) /\ GoroutineInv
  BY DEF TurnInv, GoroutineInv, Procs
<1>3. hpc[p] # "idle"
  BY <1>1, <1>2, ProduceEffect DEF PartsInv
<1>4. p \in Runs => MayPush(p)
  BY <1>2, <1>3, TurnAssumption DEF RunPushes, GoroutineInv, RunPlace
<1>5. p \in Subs => sub[p] = "closing"
  BY TurnAssumption DEF SubPushes
<1>6. GoroutineInv'
  BY <1>1, <1>2, <1>4, <1>5, PushKeeps
<1>7. discarded' = {} => MailInv'
  BY <1>1, MailPushed
<1> QED BY <1>6, <1>7 DEF TurnInv

LEMMA ClientInv ==
    ASSUME PartsInv, TurnInv, NEW c \in Streams, ClientStep(c)
    PROVE  TurnInv'
<1>1. /\ H!Serve(c) \/ H!Open(c) \/ H!Disconnect(c)
      /\ UNCHANGED <<pc, arg, sub, status, owner, ended, raced, refused>>
  BY DEF ClientStep, ServeStep, vars, runVars, subVars, registry
<1>2. /\ UNCHANGED <<hpc, hub, target, at, discarded>>
      /\ made' \in Nat /\ made <= made'
      /\ \A h \in 1..MaxHubs : closed[h] => closed'[h]
  BY <1>1, StreamEffect DEF PartsInv
<1>3. GoroutineInv'
  BY <1>1, <1>2, StreamKeeps DEF TurnInv
<1>4. discarded' = {} => MailInv'
  BY <1>1, MailStream
<1> QED BY <1>3, <1>4 DEF TurnInv

LEMMA UnchangedInv ==
    ASSUME TurnInv, UNCHANGED turnVars
    PROVE  TurnInv'
<1>1. UNCHANGED vars /\ UNCHANGED hubVars /\ UNCHANGED ended
  BY DEF turnVars
<1>2. /\ UNCHANGED <<hpc, hub, target, at, made, closed, ch, got, discarded, ended>>
      /\ UNCHANGED <<pc, arg, sub, status, owner, raced, refused>>
  BY <1>1 DEF hubVars, vars, runVars, subVars, registry
<1>3. GoroutineInv'
  BY <1>2 DEF TurnInv, GoroutineInv, PushesTo, RunPlace, SubPlace, OwnerInv, Awaited, InLoop, MayPush
<1>4. MailInv => MailInv'
  BY <1>2 DEF MailInv, Awaited, Arrived, Received, Ahead
<1> QED BY <1>2, <1>3, <1>4 DEF TurnInv

LEMMA TurnStep ==
    ASSUME PartsInv, TurnInv, [TurnNext]_turnVars
    PROVE  TurnInv'
<1>1. \A r \in Runs : Begin(r) \/ Producing(r) => TurnInv'
  BY BeginInv, RunGoesOnInv, PushInv DEF Producing, Procs
<1>2. \A s \in Subs : Reporting(s) => TurnInv'
  BY SubBeginInv, SubReportsInv, PushInv DEF Reporting, Procs
<1>3. \A c \in Streams : ClientStep(c) => TurnInv'
  BY ClientInv
<1>4. TurnOver \/ UNCHANGED turnVars => TurnInv'
  BY UnchangedInv DEF TurnOver
<1> QED BY <1>1, <1>2, <1>3, <1>4 DEF TurnNext

LEMMA InitTurn == TurnInit => TurnInv
<1> SUFFICES ASSUME TurnInit PROVE TurnInv
  OBVIOUS
<1>1. /\ ended = [r \in Runs |-> "none"] /\ None \notin Runs
      /\ hpc = [p \in Procs |-> "idle"] /\ at = [p \in Procs |-> 1]
      /\ pc = [r \in Runs |-> "idle"] /\ sub = [s \in Subs |-> "unused"]
      /\ owner = [s \in Subs |-> None] /\ status = [s \in Subs |-> "none"]
  BY ConstantsAssumption DEF TurnInit, Init, H!Init, Procs
<1>2. GoroutineInv
  BY <1>1 DEF GoroutineInv, PushesTo, RunPlace, SubPlace, OwnerInv, Awaited, InLoop, MayPush, Procs
<1>3. MailInv
  BY <1>1 DEF MailInv, Awaited, Procs
<1> QED BY <1>2, <1>3 DEF TurnInv

-----------------------------------------------------------------------------
(* The theorems. *)

\* Every clause that Turn adds to the two modules restricts when a goroutine may take a
\* step of theirs: runs, their subagents, hubs and streams of one conversation behave as
\* Dispatch and SSEHub say, also where the one waits for the other.
THEOREM PartsImplemented == TurnSpec => Spec /\ H!Spec
<1>1. ASSUME [TurnNext]_turnVars PROVE [Next]_vars
  BY <1>1, PartSteps
<1>2. ASSUME [TurnNext]_turnVars PROVE [H!Next]_(H!vars)
  <2>1. UNCHANGED hubVars => UNCHANGED H!vars
    BY DEF hubVars, H!vars, H!regVars, H!prodVars, H!strVars
  <2>2. UNCHANGED turnVars => UNCHANGED hubVars
    BY DEF turnVars
  <2>3. \A r \in Runs : Begin(r) \/ Producing(r) => H!Next \/ UNCHANGED hubVars
    BY DEF Begin, Producing, RunGoesOn, RunPushes, H!Next
  <2>4. \A s \in Subs : Reporting(s) => H!Next \/ UNCHANGED hubVars
    BY DEF Reporting, SubBegin, SubSettles, SubPushes, SubReports, H!Next
  <2>5. \A c \in Streams : ClientStep(c) => H!Next
    BY DEF ClientStep, ServeStep, H!Next
  <2> QED BY <1>2, <2>1, <2>2, <2>3, <2>4, <2>5 DEF TurnNext, TurnOver
<1> QED
  BY <1>1, <1>2, PTL DEF TurnSpec, TurnInit, Spec, H!Spec

\* The inductive invariant of a turn, beside those of its two modules: where each
\* goroutine is in both, and where its events are.
THEOREM TurnInvHolds == TurnSpec => [](PartsInv /\ TurnInv)
<1>1. TurnInit => PartsInv /\ TurnInv
  BY PartsInit, InitTurn
<1>2. PartsInv /\ TurnInv /\ [TurnNext]_turnVars => (PartsInv /\ TurnInv)'
  BY PartsKept, TurnStep
<1> QED
  BY <1>1, <1>2, PTL DEF TurnSpec

\* Push, the stream handler, Add, Done and Wait keep their promises in a whole turn, with
\* any number of runs at once: no send on a closed channel, one open hub, and until an
\* Add overtakes another run's Drain no WaitGroup misuse and no subagent that Wait misses.
THEOREM TurnPartsSafe ==
    TurnSpec => [](NoPanic /\ WaitCoversAll /\ H!OneOpenHub /\ H!NoSendOnClosed)
<1>1. IInv => NoPanic /\ WaitCoversAll
  BY DEF IInv, FanInInv, RunAt, PastWait, NoPanic, WaitCoversAll
<1>2. HP!IInv => H!OneOpenHub /\ H!NoSendOnClosed
  BY DEF HP!IInv, HP!RegistryInv, HP!ProducerInv, HP!OneOpenHub, H!OneOpenHub,
         H!NoSendOnClosed, Procs
<1> QED
  BY <1>1, <1>2, TurnInvHolds, PTL DEF PartsInv

\* What the clients of a turn receive is what EventFeed promises: only what was pushed,
\* each event at one client at most, each goroutine's events in order.
THEOREM TurnFeed == TurnSpec => HP!FeedImplemented
<1>1. TurnInit => HP!Init
  BY SameInit DEF TurnInit
<1>2. [TurnNext]_turnVars => [HP!Next]_(HP!vars)
  BY PartSteps
<1>3. TurnSpec => HP!Spec
  BY <1>1, <1>2, PTL DEF TurnSpec, HP!Spec
<1>4. HP!Spec => HP!FeedImplemented
  BY HP!FeedHolds, HubAssumption
<1> QED BY <1>3, <1>4

\* The frontend takes round_done and queue_drained for "subagents done": run, dispatch
\* and the subagent's goroutine push in an order that makes it so. When a client gets
\* queue_drained of a run that ended with end_turn, every subagent of the run has
\* settled its row (or the database refused it) and its thread_status was received
\* before, unless a full buffer was drained, whichever hubs they found and however many
\* runs share the conversation, until an Add overtakes another run's Drain.
THEOREM ClientSeesSubagentsHolds == TurnSpec => []ClientSeesSubagents
<1>1. PartsInv /\ TurnInv => ClientSeesSubagents
  <2> SUFFICES ASSUME PartsInv, TurnInv,
                      NEW s \in Subs, Awaited(s), Received(<<owner[s], 2>>)
               PROVE  /\ status[s] \in Terminal \/ s \in refused
                      /\ discarded = {} => Received(<<s, 1>>)
    BY DEF ClientSeesSubagents
  <2>1. sub[s] \in {"recorded", "gone"}
    BY DEF TurnInv, GoroutineInv, OwnerInv, Awaited
  <2>2. status[s] \in Terminal \/ s \in refused
    BY <2>1 DEF TurnInv, GoroutineInv, SubPlace
  <2>3. discarded = {} => Received(<<s, 1>>)
    BY DEF TurnInv, MailInv
  <2> QED BY <2>2, <2>3
<1> QED
  BY <1>1, TurnInvHolds, PTL
=============================================================================
