--------------------------- MODULE DispatchProofs ---------------------------
(* Machine-checked properties of Dispatch, for any sets of runs, subagents and *)
(* cancel requests.                                                            *)
EXTENDS Dispatch, FiniteSetTheorems, TLAPS

(***************************************************************************)
(* Type correctness.                                                       *)
(***************************************************************************)

LEMMA InitTypeOK == Init => TypeOK
<1> SUFFICES ASSUME Init PROVE TypeOK OBVIOUS
<1> USE ConstantsAssumption DEF Init
<1>1. /\ pending \in Int /\ wgs \in Subs \cup {None} /\ outs \in Seq(Subs)
      /\ count \in [Subs -> Int]
      OBVIOUS
<1>2. /\ pc \in [Runs -> RunPcs] /\ arg \in [Runs -> Subs \cup {None}]
      /\ waitOn \in [Runs -> Subs \cup {None}] /\ hand \in [Runs -> Seq(Subs)]
      BY DEF RunPcs
<1>3. /\ injected \in [Subs -> Runs \cup {None}] /\ owner \in [Subs -> Runs \cup {None}]
      /\ sub \in [Subs -> SubPcs] /\ doneWg \in [Subs -> Subs \cup {None}]
      /\ status \in [Subs -> Terminal \cup {"none", "running"}]
      BY DEF SubPcs
<1>4. /\ cancel \in [Cancels -> SUBSET Subs] /\ cpc \in [Cancels -> {"idle", "visit", "done"}]
      /\ refused \in SUBSET Subs
      /\ proc \in {"up", "panicked"} /\ crashes \in 0..MaxCrashes
      OBVIOUS
<1>5. raced \in BOOLEAN
      BY Zenon
<1> QED BY <1>1, <1>2, <1>3, <1>4, <1>5 DEF TypeOK

LEMMA NextTypeOK ==
    ASSUME TypeOK, [Next]_vars
    PROVE  TypeOK'
<1> USE ConstantsAssumption DEF TypeOK
<1>1. ASSUME NEW r \in Runs, StartRun(r) PROVE TypeOK'
      BY <1>1 DEF StartRun, Goto, RunPcs, registry, subVars, cancelVars
<1>2. ASSUME NEW r \in Runs, NEW s \in Subs, DispatchCreate(r, s) PROVE TypeOK'
      BY <1>2 DEF DispatchCreate, Goto, RunPcs, registry, cancelVars
<1>3. ASSUME NEW r \in Runs, NEW s \in Subs, Add(r, s) PROVE TypeOK'
  <2>1. WgFor(s) \in Subs /\ wgs' \in Subs \cup {None} BY <1>3 DEF Add, WgFor
  <2>2. count' \in [Subs -> Int]
        BY <1>3, <2>1 DEF Add
  <2>3. sub' \in [Subs -> SubPcs] /\ pending' \in Int
        BY <1>3 DEF Add, SubPcs
  <2>4. pc' \in [Runs -> RunPcs] /\ arg' \in [Runs -> Subs \cup {None}]
        BY <1>3 DEF Add, Goto, RunPcs
  <2> QED BY <1>3, <2>1, <2>2, <2>3, <2>4 DEF Add, cancelVars
<1>4. ASSUME NEW r \in Runs, EndTurn(r) PROVE TypeOK'
      BY <1>4 DEF EndTurn, Goto, RunPcs, registry, subVars, cancelVars
<1>5. ASSUME NEW r \in Runs, CheckPending(r) PROVE TypeOK'
      BY <1>5 DEF CheckPending, Goto, RunPcs, registry, subVars, cancelVars
<1>6. ASSUME NEW r \in Runs, WaitFetch(r) PROVE TypeOK'
      BY <1>6 DEF WaitFetch, Goto, RunPcs, registry, subVars, cancelVars
<1>7. ASSUME NEW r \in Runs, WaitEnter(r) PROVE TypeOK'
      BY <1>7 DEF WaitEnter, WaitPasses, Goto, RunPcs, registry, subVars, cancelVars
<1>8. ASSUME NEW r \in Runs, WaitReturn(r) PROVE TypeOK'
      BY <1>8 DEF WaitReturn, WaitPasses, Goto, RunPcs, registry, subVars, cancelVars
<1>9. ASSUME NEW r \in Runs, Drain(r) PROVE TypeOK'
      BY <1>9 DEF Drain, Leftover, PendingAfterDrain, Goto, RunPcs, subVars, cancelVars
<1>10. ASSUME NEW r \in Runs, PersistFanIn(r) PROVE TypeOK'
  <2>1. injected' \in [Subs -> Runs \cup {None}]
        BY <1>10 DEF PersistFanIn
  <2>2. hand' \in [Runs -> Seq(Subs)] BY <1>10 DEF PersistFanIn
  <2>3. pc' \in [Runs -> RunPcs] BY <1>10 DEF PersistFanIn, Goto, RunPcs
  <2> QED BY <1>10, <2>1, <2>2, <2>3 DEF PersistFanIn, registry, subVars, cancelVars
<1>11. ASSUME NEW r \in Runs, OtherStop(r) PROVE TypeOK'
      BY <1>11 DEF OtherStop, Goto, RunPcs, registry, subVars, cancelVars
<1>12. ASSUME NEW r \in Runs, RunError(r) PROVE TypeOK'
      BY <1>12 DEF RunError, Goto, RunPcs, registry, subVars, cancelVars
<1>13. ASSUME NEW s \in Subs, Settle(s) PROVE TypeOK'
      BY <1>13 DEF Settle, SubPcs, Terminal, registry, runVars, cancelVars
<1>14. ASSUME NEW s \in Subs, DoneRecord(s) PROVE TypeOK'
      BY <1>14 DEF DoneRecord, Signalled, PendingAfterDone, SubPcs, runVars, cancelVars
<1>19. ASSUME NEW s \in Subs, PushReturns(s) PROVE TypeOK'
      BY <1>19 DEF PushReturns, SubPcs, registry, runVars, cancelVars
<1>15. ASSUME NEW s \in Subs, DoneSignal(s) PROVE TypeOK'
      BY <1>15 DEF DoneSignal, SubPcs, RunPcs, cancelVars
<1>16. ASSUME NEW c \in Cancels, CancelStep(c) PROVE TypeOK'
  <2>1. CASE CancelList(c)
        BY <2>1 DEF CancelList, Terminal, registry, runVars, subVars
  <2>2. ASSUME NEW s \in Subs, CancelOne(c, s) PROVE TypeOK'
        BY <2>2 DEF CancelOne, Cancelled, Terminal, registry, runVars, subVars
  <2>3. CASE CancelEnd(c)
        BY <2>3 DEF CancelEnd, registry, runVars, subVars
  <2> QED BY <1>16, <2>1, <2>2, <2>3 DEF CancelStep
<1>17. ASSUME Crash PROVE TypeOK'
  <2>1. raced' \in BOOLEAN BY <1>17, Zenon DEF Crash
  <2>2. /\ pending' = 0 /\ wgs' = None /\ outs' = <<>>
        /\ count' = [s \in Subs |-> 0] /\ UNCHANGED <<injected, doneWg, owner, refused, status, proc>>
        /\ arg' = [q \in Runs |-> None] /\ waitOn' = [q \in Runs |-> None]
        /\ hand' = [q \in Runs |-> <<>>] /\ cancel' = [c \in Cancels |-> {}]
        /\ crashes' \in 0..MaxCrashes
        BY <1>17 DEF Crash
  <2>3. /\ pc' \in [Runs -> RunPcs] /\ sub' \in [Subs -> SubPcs]
        /\ cpc' \in [Cancels -> {"idle", "visit", "done"}]
        BY <1>17 DEF Crash, Active, RunPcs, SubPcs
  <2> QED BY <2>1, <2>2, <2>3
<1>18. ASSUME UNCHANGED vars PROVE TypeOK'
      BY <1>18 DEF vars, registry, runVars, subVars, cancelVars
<1> QED
      BY <1>1, <1>2, <1>3, <1>4, <1>5, <1>6, <1>7, <1>8, <1>9, <1>10, <1>11, <1>12,
         <1>13, <1>14, <1>15, <1>16, <1>17, <1>18, <1>19
      DEF Next, RunStep, FanInStep, SubStep, DoneStep, Quiescent

\* Every reachable state is well typed, overlapping runs, faults and crashes included.
THEOREM TypeCorrect == Spec => []TypeOK
<1>1. Init => TypeOK BY InitTypeOK
<1>2. TypeOK /\ [Next]_vars => TypeOK' BY NextTypeOK
<1> QED BY <1>1, <1>2, PTL DEF Spec

(***************************************************************************)
(* Thread rows.                                                            *)
(***************************************************************************)

LEMMA InitRowInv == Init => RowInv
BY ConstantsAssumption DEF Init, RowInv

LEMMA NextRowInv ==
    ASSUME TypeOK, RowInv, [Next]_vars
    PROVE  RowInv'
<1> USE DEF TypeOK, RowInv
<1>1. ASSUME NEW r \in Runs, NEW s \in Subs, DispatchCreate(r, s) PROVE RowInv'
      BY <1>1, ConstantsAssumption DEF DispatchCreate, Goto, cancelVars
<1>2. ASSUME NEW r \in Runs, NEW s \in Subs, Add(r, s) PROVE RowInv'
      BY <1>2, ConstantsAssumption DEF Add, Goto, cancelVars
<1>3. ASSUME NEW s \in Subs, Settle(s) PROVE RowInv'
      BY <1>3 DEF Settle, runVars, cancelVars
<1>4. ASSUME NEW s \in Subs, PushReturns(s) \/ DoneRecord(s) \/ DoneSignal(s)
      PROVE  RowInv'
  <2>1. /\ UNCHANGED <<arg, status, cancel>>
        /\ \A r \in Runs : pc'[r] = "adding" => pc[r] = "adding"
        BY <1>4 DEF PushReturns, DoneRecord, DoneSignal, runVars, cancelVars
  <2>2. \A x \in Subs : /\ sub[x] = "unused" => sub'[x] = "unused"
                        /\ sub'[x] \in {"unused", "running"} => sub'[x] = sub[x]
        BY <1>4 DEF PushReturns, DoneRecord, DoneSignal
  <2> QED BY <2>1, <2>2
<1>5. ASSUME NEW c \in Cancels, CancelList(c) \/ CancelEnd(c) PROVE RowInv'
  <2>1. UNCHANGED <<pc, arg, sub, status>>
        BY <1>5 DEF CancelList, CancelEnd, runVars, subVars
  <2>2. \A d \in Cancels : \A s \in cancel'[d] : s \in cancel[d] \/ status[s] # "none"
    <3>1. CASE CancelList(c)
      <4>1. cancel' = [cancel EXCEPT ![c] =
                         {s \in Subs : status[s] \notin Terminal \cup {"none"}}]
            BY <3>1 DEF CancelList
      <4> QED BY <4>1
    <3>2. CASE CancelEnd(c)
      <4>1. cancel' = [cancel EXCEPT ![c] = {}] BY <3>2 DEF CancelEnd
      <4> QED BY <4>1
    <3> QED BY <1>5, <3>1, <3>2
  <2> QED BY <2>1, <2>2
<1>6. ASSUME NEW c \in Cancels, NEW s \in Subs, CancelOne(c, s) PROVE RowInv'
      BY <1>6 DEF CancelOne, Cancelled, Terminal, runVars, subVars
<1>7. CASE Crash BY <1>7 DEF Crash, Active, RunPcs
<1>8. ASSUME UNCHANGED <<arg, sub, status, cancel>>,
             \A r \in Runs : pc'[r] = "adding" => pc[r] = "adding"
      PROVE  RowInv'
      BY <1>8
<1>9. ASSUME NEW r \in Runs, StartRun(r) \/ RunStep(r) PROVE RowInv'
      BY <1>1, <1>2, <1>8, <1>9
      DEF StartRun, RunStep, FanInStep, EndTurn, CheckPending, WaitFetch, WaitEnter,
          WaitReturn, WaitPasses, Drain, PersistFanIn, OtherStop, RunError, Goto, subVars,
          cancelVars
<1>10. CASE UNCHANGED vars
       BY <1>8, <1>10 DEF vars, runVars, subVars, cancelVars
<1> QED
    BY <1>3, <1>4, <1>5, <1>6, <1>7, <1>9, <1>10 DEF Next, SubStep, DoneStep, CancelStep, Quiescent

\* No step of CancelAllThreads, however stale its list, overwrites a terminal row,
\* and neither does anything but the thread's own deferred update of a cancelled one:
\* overlapping runs, database faults and crashes included.
THEOREM CancelKeepsTerminalHolds == Spec => CancelKeepsTerminal
<1>1. ASSUME TypeOK, RowInv, [Next]_vars
      PROVE  [\A s \in Subs : status[s] \in Terminal /\ status'[s] # status[s]
                => sub[s] = "running" /\ status[s] = "cancelled"]_vars
  <2>1. SUFFICES ASSUME NEW s \in Subs, status[s] \in Terminal, status'[s] # status[s]
                 PROVE  sub[s] = "running" /\ status[s] = "cancelled"
        OBVIOUS
  <2>2. ASSUME NEW r \in Runs PROVE ~(StartRun(r) \/ RunStep(r))
    <3>1. \A x \in Subs : ~DispatchCreate(r, x) /\ ~Add(r, x)
          BY <1>1, <2>1 DEF DispatchCreate, Add, Terminal, TypeOK
    <3> QED BY <2>1, <3>1
        DEF StartRun, RunStep, FanInStep, EndTurn, CheckPending, WaitFetch, WaitEnter,
            WaitReturn, Drain, PersistFanIn, OtherStop, RunError
  <2>3. ASSUME NEW c \in Cancels PROVE ~CancelStep(c)
    <3>1. \A x \in Subs : ~CancelOne(c, x)
          BY <1>1, <2>1 DEF CancelOne, Cancelled, TypeOK
    <3> QED BY <2>1, <3>1 DEF CancelStep, CancelList, CancelEnd
  <2>4. ~Crash /\ ~UNCHANGED vars BY <2>1 DEF Crash, vars
  <2>5. PICK x \in Subs : SubStep(x)
        BY <1>1, <2>2, <2>3, <2>4 DEF Next, Quiescent
  <2>6. Settle(x) BY <2>1, <2>5 DEF SubStep, DoneStep, PushReturns, DoneRecord, DoneSignal
  <2>7. x = s /\ sub[s] = "running" BY <2>1, <2>6, <1>1 DEF Settle, TypeOK
  <2> QED BY <1>1, <2>1, <2>7 DEF RowInv, Terminal
<1> QED BY <1>1, InitTypeOK, NextTypeOK, InitRowInv, NextRowInv, PTL
        DEF Spec, CancelKeepsTerminal

(***************************************************************************)
(* Fan-in, with runs that overlap: the inductive invariant.                *)
(***************************************************************************)

LEMMA FiniteParts ==
    /\ IsFiniteSet(InFlight) /\ Cardinality(InFlight) \in Nat
    /\ IsFiniteSet(Unsignalled) /\ Cardinality(Unsignalled) \in Nat
    /\ Cardinality(InFlight) = 0 <=> InFlight = {}
    /\ Cardinality(Unsignalled) = 0 <=> Unsignalled = {}
<1>1. InFlight \in SUBSET Subs /\ Unsignalled \in SUBSET Subs
      BY DEF InFlight, Unsignalled
<1>2. IsFiniteSet(InFlight) /\ IsFiniteSet(Unsignalled)
      BY <1>1, ConstantsAssumption, FS_Subset
<1> QED BY <1>2, FS_CardinalityType, FS_EmptySet

LEMMA InitFanIn == Init => FanInInv
<1> SUFFICES ASSUME Init PROVE FanInInv OBVIOUS
<1>1. InFlight = {} /\ Unsignalled = {} BY DEF Init, InFlight, Unsignalled
<1>2. Cardinality(InFlight) = 0 BY <1>1, FS_EmptySet
<1>3. RegistryInv BY <1>1, <1>2 DEF Init, RegistryInv
<1>4. \A r \in Runs : RunAt(r) BY <1>1 DEF Init, RunAt
<1> QED BY <1>3, <1>4 DEF FanInInv, Init

\* A step that leaves registry and goroutines alone.
LEMMA RegistryFrame ==
    ASSUME RegistryInv, UNCHANGED <<pending, wgs, count, sub, doneWg>>
    PROVE  RegistryInv' /\ Unsignalled' = Unsignalled
<1>1. InFlight' = InFlight /\ Unsignalled' = Unsignalled
      BY DEF InFlight, Unsignalled
<1> QED BY <1>1 DEF RegistryInv

\* A new goroutine enters both counts.
LEMMA AddRegistry ==
    ASSUME TypeOK, RowInv, RegistryInv, NEW r \in Runs, NEW s \in Subs, Add(r, s)
    PROVE  /\ RegistryInv' /\ Unsignalled' # {}
           /\ wgs # None => wgs' = wgs
<1> USE DEF TypeOK
<1>1. sub[s] = "unused" BY ConstantsAssumption DEF RowInv, Add
<1>2. s \notin InFlight /\ s \notin Unsignalled BY <1>1 DEF InFlight, Unsignalled
<1>3. sub' = [sub EXCEPT ![s] = "running"] BY DEF Add
<1>4. InFlight' = InFlight \cup {s} /\ Unsignalled' = Unsignalled \cup {s}
      BY <1>3 DEF InFlight, Unsignalled
<1>5. /\ Cardinality(InFlight') = Cardinality(InFlight) + 1
      /\ Cardinality(Unsignalled') = Cardinality(Unsignalled) + 1
      BY <1>2, <1>4, FiniteParts, FS_AddElement
<1>6. WgFor(s) \in Subs /\ wgs' = WgFor(s) /\ WgFor(s) # None
      BY ConstantsAssumption DEF Add, WgFor
<1>7. count' = [count EXCEPT ![WgFor(s)] = count[WgFor(s)] + 1] BY DEF Add
<1>8. count[WgFor(s)] = Cardinality(Unsignalled)
  <2>1. CASE wgs = None
        BY <2>1, FiniteParts, ConstantsAssumption DEF WgFor, RegistryInv
  <2>2. CASE wgs # None BY <2>2 DEF WgFor, RegistryInv
  <2> QED BY <2>1, <2>2
<1>9. count'[wgs'] = Cardinality(Unsignalled') /\ sub'[wgs'] # "unused"
  <2>1. sub'[wgs'] # "unused" BY <1>3, <1>6 DEF WgFor, RegistryInv
  <2> QED BY <2>1, <1>5, <1>6, <1>7, <1>8
<1>10. pending' = Cardinality(InFlight') BY <1>5 DEF Add, RegistryInv
<1>11. ASSUME NEW x \in Subs, sub'[x] = "recorded" PROVE doneWg'[x] = wgs'
  <2>1. sub[x] = "recorded" /\ x \in Unsignalled BY <1>11, <1>3 DEF Unsignalled
  <2>2. wgs # None /\ doneWg[x] = wgs BY <2>1 DEF RegistryInv
  <2> QED BY <2>2, <1>6 DEF WgFor, Add
<1>12. ASSUME NEW x \in Subs, x # wgs' PROVE count'[x] = 0
  <2>1. x # wgs
        BY <1>6, <1>12, ConstantsAssumption DEF WgFor
  <2>2. count[x] = 0 BY <2>1 DEF RegistryInv
  <2> QED BY <1>6, <1>7, <1>12, <2>2
<1> QED BY <1>4, <1>6, <1>9, <1>10, <1>11, <1>12 DEF RegistryInv, WgFor

\* The row update, and the push after it, move a goroutine within both counted sets.
LEMMA CloseRegistry ==
    ASSUME TypeOK, RegistryInv, NEW s \in Subs, Settle(s) \/ PushReturns(s)
    PROVE  RegistryInv' /\ Unsignalled' = Unsignalled
<1> USE DEF TypeOK
<1>1. /\ sub[s] \in {"running", "closing"}
      /\ \E l \in {"closing", "pushed"} : sub' = [sub EXCEPT ![s] = l]
      BY DEF Settle, PushReturns
<1>2. InFlight' = InFlight /\ Unsignalled' = Unsignalled
      BY <1>1 DEF InFlight, Unsignalled
<1>3. UNCHANGED <<pending, wgs, count, doneWg>> BY DEF Settle, PushReturns, registry
<1>4. \A x \in Subs : /\ sub'[x] = "recorded" => sub[x] = "recorded"
                      /\ sub'[x] = "unused" => sub[x] = "unused"
      BY <1>1
<1> QED BY <1>2, <1>3, <1>4, ConstantsAssumption DEF RegistryInv

\* Done's locked half takes a goroutine out of pending and keeps it unsignalled.
LEMMA DoneRecordRegistry ==
    ASSUME TypeOK, RegistryInv, NEW s \in Subs, DoneRecord(s)
    PROVE  RegistryInv' /\ Unsignalled' = Unsignalled
<1> USE DEF TypeOK
<1>1. sub[s] = "pushed" /\ sub' = [sub EXCEPT ![s] = "recorded"] BY DEF DoneRecord
<1>2. InFlight' = InFlight \ {s} /\ s \in InFlight /\ Unsignalled' = Unsignalled
      BY <1>1 DEF InFlight, Unsignalled
<1>3. Cardinality(InFlight') = Cardinality(InFlight) - 1
      BY <1>2, FiniteParts, FS_RemoveElement
<1>4. pending' = Cardinality(InFlight') BY <1>3 DEF DoneRecord, PendingAfterDone, RegistryInv
<1>5. doneWg' = [doneWg EXCEPT ![s] = wgs] /\ UNCHANGED <<wgs, count>>
      BY DEF DoneRecord, Signalled
<1> QED BY <1>1, <1>2, <1>4, <1>5 DEF RegistryInv

\* Done's unlocked half finds the current WaitGroup above zero.
LEMMA DoneSignalRegistry ==
    ASSUME TypeOK, RegistryInv, proc = "up", NEW s \in Subs, DoneSignal(s)
    PROVE  /\ RegistryInv' /\ proc' = "up" /\ UNCHANGED wgs
           /\ wgs # None /\ Unsignalled # {}
           /\ IF count[wgs] = 1
              THEN Unsignalled' = {} /\ pc' = [r \in Runs |->
                      IF pc[r] = "wait" /\ waitOn[r] = wgs THEN "woken" ELSE pc[r]]
              ELSE Unsignalled' # {} /\ \A r \in Runs : pc'[r] = pc[r]
<1> USE DEF TypeOK
<1>1. sub[s] = "recorded" /\ sub' = [sub EXCEPT ![s] = "gone"] BY DEF DoneSignal
<1>2. s \in Unsignalled /\ Unsignalled' = Unsignalled \ {s} /\ InFlight' = InFlight
      BY <1>1 DEF InFlight, Unsignalled
<1>3. wgs # None /\ doneWg[s] = wgs /\ count[wgs] = Cardinality(Unsignalled)
      BY <1>1, <1>2 DEF RegistryInv
<1>4. Cardinality(Unsignalled') = Cardinality(Unsignalled) - 1
      BY <1>2, FiniteParts, FS_RemoveElement
<1>5. /\ count' = [count EXCEPT ![wgs] = @ - 1]
      /\ proc' = IF count[wgs] = 0 THEN "panicked" ELSE proc
      /\ doneWg' = [doneWg EXCEPT ![s] = None]
      /\ UNCHANGED <<pending, wgs>>
      /\ pc' = [r \in Runs |-> IF pc[r] = "wait" /\ waitOn[r] = wgs /\ count[wgs] = 1
                               THEN "woken" ELSE pc[r]]
      BY <1>3 DEF DoneSignal
<1>6. count[wgs] # 0 BY <1>2, <1>3, FiniteParts
<1>7. IsFiniteSet(Unsignalled') BY <1>2, FiniteParts, FS_RemoveElement
<1>8. Cardinality(Unsignalled') = 0 <=> Unsignalled' = {}
      BY <1>7, FS_EmptySet
<1>9. count'[wgs] = Cardinality(Unsignalled') BY <1>3, <1>4, <1>5
<1>10. RegistryInv'
       BY <1>1, <1>2, <1>3, <1>5, <1>9 DEF RegistryInv
<1>11. count[wgs] = 1 <=> Unsignalled' = {}
       BY <1>3, <1>4, <1>8, FiniteParts
<1> QED BY <1>2, <1>3, <1>5, <1>6, <1>10, <1>11

\* Drain forgets a registry that counts nothing any more.
LEMMA DrainRegistry ==
    ASSUME TypeOK, RegistryInv, Unsignalled = {}, NEW r \in Runs, Drain(r)
    PROVE  RegistryInv' /\ Unsignalled' = {}
<1> USE DEF TypeOK
<1>1. UNCHANGED <<sub, count>> BY DEF Drain, subVars
<1>2. Unsignalled' = {} /\ InFlight' = {}
      BY <1>1 DEF InFlight, Unsignalled
<1>3. pending' = Cardinality(InFlight') /\ wgs' = None
      BY <1>2, FS_EmptySet DEF Drain, PendingAfterDrain
<1>4. \A x \in Subs : sub'[x] # "recorded" BY <1>2 DEF Unsignalled
<1>5. \A x \in Subs : count[x] = 0
      BY FiniteParts, ConstantsAssumption DEF RegistryInv
<1> QED BY <1>1, <1>2, <1>3, <1>4, <1>5 DEF RegistryInv

\* After a crash the new process starts with an empty registry and no goroutine.
LEMMA CrashFanIn == Crash /\ proc = "up" => FanInInv' /\ ~raced'
<1> SUFFICES ASSUME Crash, proc = "up" PROVE FanInInv' /\ ~raced' OBVIOUS
<1>1. sub' = [s \in Subs |-> IF sub[s] = "unused" THEN "unused" ELSE "gone"]
      BY DEF Crash
<1>2. Unsignalled' = {} /\ InFlight' = {} BY <1>1 DEF InFlight, Unsignalled
<1>3. /\ pending' = Cardinality(InFlight') /\ wgs' = None
      /\ \A s \in Subs : count'[s] = 0
      BY <1>2, FS_EmptySet DEF Crash
<1>4. RegistryInv' BY <1>1, <1>2, <1>3 DEF RegistryInv
<1>5. \A r \in Runs : pc'[r] \notin {"wait", "woken"}
      BY DEF Crash, Active, RunPcs
<1>6. \A r \in Runs : RunAt(r)' BY <1>2, <1>5 DEF RunAt
<1> QED BY <1>4, <1>6 DEF FanInInv, Crash

\* A step that moves one run at most, in a registry that stays as it is.
LEMMA RunsMove ==
    ASSUME TypeOK, NEW r \in Runs, \A q \in Runs : RunAt(q),
           \A q \in Runs \ {r} : pc'[q] = pc[q] /\ waitOn'[q] = waitOn[q],
           UNCHANGED wgs, Unsignalled = {} <=> Unsignalled' = {}, RunAt(r)'
    PROVE  \A q \in Runs : RunAt(q)'
BY DEF RunAt, PastWait

\* A step that moves no run.
LEMMA RunsStay ==
    ASSUME \A q \in Runs : RunAt(q), UNCHANGED <<pc, waitOn, wgs>>,
           Unsignalled = {} <=> Unsignalled' = {}
    PROVE  \A q \in Runs : RunAt(q)'
BY DEF RunAt, PastWait

\* A step that leaves raced as it is and does not wait.
LEMMA StillFanIn ==
    ASSUME TypeOK, FanInInv, NEW r \in Runs,
           UNCHANGED <<pending, wgs, count, sub, doneWg, waitOn, proc>>,
           \E l \in {"loop", "adding", "check", "fetch", "done", "failed"} : Goto(r, l)
    PROVE  FanInInv'
<1>1. PICK l \in {"loop", "adding", "check", "fetch", "done", "failed"} :
         pc' = [pc EXCEPT ![r] = l]
      BY DEF Goto
<1>2. RegistryInv' /\ Unsignalled' = Unsignalled BY RegistryFrame DEF FanInInv
<1>3. RunAt(r)' BY <1>1 DEF RunAt, PastWait, TypeOK
<1>4. \A q \in Runs : RunAt(q)' BY <1>1, <1>2, <1>3, RunsMove DEF FanInInv, TypeOK
<1> QED BY <1>2, <1>4 DEF FanInInv

\* An Add: no run is past its Wait, or raced tells.
LEMMA AddFanIn ==
    ASSUME TypeOK, RowInv, FanInInv, NEW r \in Runs, NEW s \in Subs, Add(r, s), ~raced'
    PROVE  FanInInv'
<1>1. RegistryInv' /\ Unsignalled' # {} /\ (wgs # None => wgs' = wgs)
      BY AddRegistry DEF FanInInv
<1>2. /\ \A q \in Runs : ~PastWait(q)
      /\ pc' = [pc EXCEPT ![r] = "loop"] /\ UNCHANGED <<waitOn, proc>>
      BY DEF Add, Goto
<1>3. ASSUME NEW q \in Runs PROVE RunAt(q)'
  <2>1. CASE q = r BY <1>2, <2>1 DEF RunAt, PastWait, TypeOK
  <2>2. CASE q # r
    <3>1. pc'[q] = pc[q] BY <1>2, <2>2 DEF TypeOK
    <3>2. pc[q] \notin {"woken", "drain"}
          /\ (pc[q] = "enter" => waitOn[q] # None /\ waitOn[q] = wgs)
          BY <1>2 DEF PastWait
    <3> QED BY <1>1, <1>2, <3>1, <3>2 DEF RunAt, PastWait, FanInInv
  <2> QED BY <2>1, <2>2
<1> QED BY <1>1, <1>2, <1>3 DEF FanInInv

LEMMA WaitFanIn ==
    ASSUME TypeOK, FanInInv, NEW r \in Runs,
           WaitFetch(r) \/ WaitEnter(r) \/ WaitReturn(r)
    PROVE  FanInInv'
<1> USE DEF TypeOK
<1>1. UNCHANGED <<pending, wgs, count, sub, doneWg>>
      BY DEF WaitFetch, WaitEnter, WaitReturn, registry, subVars
<1>2. RegistryInv' /\ Unsignalled' = Unsignalled BY <1>1, RegistryFrame DEF FanInInv
<1>3. RunAt(r) /\ RegistryInv /\ proc = "up" BY DEF FanInInv
<1>4. CASE WaitFetch(r)
  <2>1. /\ pc' = [pc EXCEPT ![r] = "enter"] /\ waitOn' = [waitOn EXCEPT ![r] = wgs]
        /\ UNCHANGED proc
        BY <1>4 DEF WaitFetch, Goto
  <2>2. RunAt(r)' BY <1>1, <1>2, <1>3, <2>1 DEF RunAt, PastWait, RegistryInv
  <2>3. \A q \in Runs : RunAt(q)' BY <1>1, <1>2, <2>1, <2>2, RunsMove DEF FanInInv
  <2> QED BY <1>2, <1>3, <2>1, <2>3 DEF FanInInv
<1>5. CASE WaitEnter(r) /\ Passes(waitOn[r])
  <2>1. /\ pc[r] = "enter" /\ pc' = [pc EXCEPT ![r] = "drain"]
        /\ waitOn' = [waitOn EXCEPT ![r] = None] /\ UNCHANGED proc
        BY <1>5 DEF WaitEnter, WaitPasses, Goto
  <2>2. Unsignalled = {}
    <3>1. CASE PastWait(r) BY <1>3, <3>1 DEF RunAt
    <3>2. CASE ~PastWait(r)
      <4>1. wgs # None /\ waitOn[r] = wgs BY <2>1, <3>2 DEF PastWait
      <4> QED BY <1>3, <1>5, <4>1, FiniteParts DEF Passes, RegistryInv
    <3> QED BY <3>1, <3>2
  <2>3. RunAt(r)' BY <1>2, <2>1, <2>2 DEF RunAt, PastWait
  <2>4. \A q \in Runs : RunAt(q)' BY <1>1, <1>2, <2>1, <2>3, RunsMove DEF FanInInv
  <2> QED BY <1>2, <1>3, <2>1, <2>4 DEF FanInInv
<1>6. CASE WaitEnter(r) /\ ~Passes(waitOn[r])
  <2>1. /\ pc[r] = "enter" /\ pc' = [pc EXCEPT ![r] = "wait"] /\ UNCHANGED <<waitOn, proc>>
        BY <1>6 DEF WaitEnter, Goto
  <2>2. waitOn[r] \in Subs /\ count[waitOn[r]] # 0 BY <1>6 DEF Passes
  <2>3. waitOn[r] = wgs /\ wgs # None BY <1>3, <2>2, ConstantsAssumption DEF RegistryInv
  <2>4. Unsignalled # {} BY <1>3, <2>2, <2>3, FiniteParts DEF RegistryInv
  <2>5. RunAt(r)' BY <1>1, <1>2, <2>1, <2>3, <2>4 DEF RunAt, PastWait
  <2>6. \A q \in Runs : RunAt(q)' BY <1>1, <1>2, <2>1, <2>5, RunsMove DEF FanInInv
  <2> QED BY <1>2, <1>3, <2>1, <2>6 DEF FanInInv
<1>7. CASE WaitReturn(r)
  <2>1. pc[r] = "woken" /\ waitOn[r] \in Subs /\ Unsignalled = {}
        BY <1>3, <1>7 DEF WaitReturn, RunAt, PastWait
  <2>2. count[waitOn[r]] = 0 BY <1>3, <2>1, FiniteParts, ConstantsAssumption DEF RegistryInv
  <2>3. /\ pc' = [pc EXCEPT ![r] = "drain"] /\ waitOn' = [waitOn EXCEPT ![r] = None]
        /\ UNCHANGED proc
        BY <1>7, <2>2 DEF WaitReturn, WaitPasses, Goto
  <2>4. RunAt(r)' BY <1>2, <2>1, <2>3 DEF RunAt, PastWait
  <2>5. \A q \in Runs : RunAt(q)' BY <1>1, <1>2, <2>3, <2>4, RunsMove DEF FanInInv
  <2> QED BY <1>2, <1>3, <2>3, <2>5 DEF FanInInv
<1> QED BY <1>4, <1>5, <1>6, <1>7

LEMMA DrainFanIn ==
    ASSUME TypeOK, FanInInv, NEW r \in Runs, Drain(r)
    PROVE  FanInInv'
<1>1. Unsignalled = {} BY DEF FanInInv, RunAt, PastWait, Drain
<1>2. RegistryInv' /\ Unsignalled' = {} BY <1>1, DrainRegistry DEF FanInInv
<1>3. pc' = [pc EXCEPT ![r] = "fanin"] /\ UNCHANGED <<waitOn, proc>> BY DEF Drain, Goto
<1>4. ASSUME NEW q \in Runs PROVE RunAt(q)'
      BY <1>1, <1>2, <1>3 DEF FanInInv, RunAt, TypeOK
<1> QED BY <1>2, <1>3, <1>4 DEF FanInInv

LEMMA RunStepFanIn ==
    ASSUME TypeOK, RowInv, FanInInv, NEW r \in Runs, StartRun(r) \/ RunStep(r), ~raced'
    PROVE  FanInInv'
<1>1. ASSUME StartRun(r) \/ EndTurn(r) \/ CheckPending(r) \/ OtherStop(r) \/ RunError(r)
      PROVE  FanInInv'
  <2>1. UNCHANGED <<pending, wgs, count, sub, doneWg, waitOn, proc>>
        BY <1>1 DEF StartRun, EndTurn, CheckPending, OtherStop, RunError, registry, subVars
  <2>2. \E l \in {"loop", "adding", "check", "fetch", "done", "failed"} : Goto(r, l)
        BY <1>1 DEF StartRun, EndTurn, CheckPending, OtherStop, RunError
  <2> QED BY <2>1, <2>2, StillFanIn
<1>2. ASSUME NEW s \in Subs, DispatchCreate(r, s) PROVE FanInInv'
      BY <1>2, StillFanIn DEF DispatchCreate, registry
<1>3. CASE PersistFanIn(r)
      BY <1>3, StillFanIn DEF PersistFanIn, registry, subVars
<1> QED BY <1>1, <1>2, <1>3, AddFanIn, WaitFanIn, DrainFanIn DEF RunStep, FanInStep

LEMMA SubStepFanIn ==
    ASSUME TypeOK, FanInInv, NEW s \in Subs, SubStep(s)
    PROVE  FanInInv'
<1> USE DEF FanInInv
<1>1. CASE Settle(s) \/ PushReturns(s) \/ DoneRecord(s)
  <2>1. RegistryInv' /\ Unsignalled' = Unsignalled
        BY <1>1, CloseRegistry, DoneRecordRegistry
  <2>2. UNCHANGED <<pc, waitOn, wgs, proc>>
        BY <1>1 DEF Settle, PushReturns, DoneRecord, registry, runVars
  <2>3. \A q \in Runs : RunAt(q)' BY <2>1, <2>2, RunsStay
  <2> QED BY <2>1, <2>2, <2>3
<1>2. CASE DoneSignal(s)
  <2>1. /\ RegistryInv' /\ proc' = "up" /\ UNCHANGED wgs
        /\ wgs # None /\ Unsignalled # {}
        /\ IF count[wgs] = 1
           THEN Unsignalled' = {} /\ pc' = [r \in Runs |->
                   IF pc[r] = "wait" /\ waitOn[r] = wgs THEN "woken" ELSE pc[r]]
           ELSE Unsignalled' # {} /\ \A r \in Runs : pc'[r] = pc[r]
        BY <1>2, DoneSignalRegistry
  <2>2. UNCHANGED waitOn BY <1>2 DEF DoneSignal
  <2>3. ASSUME NEW r \in Runs PROVE RunAt(r)'
    <3>1. CASE count[wgs] = 1 BY <2>1, <2>2, <3>1 DEF RunAt, PastWait
    <3>2. CASE count[wgs] # 1 BY <2>1, <2>2, <3>2 DEF RunAt, PastWait
    <3> QED BY <3>1, <3>2
  <2> QED BY <2>1, <2>3
<1> QED BY <1>1, <1>2 DEF SubStep, DoneStep

LEMMA CancelStepFanIn ==
    ASSUME FanInInv, NEW c \in Cancels, CancelStep(c)
    PROVE  FanInInv'
<1>1. UNCHANGED <<registry, runVars, subVars, proc>>
      BY DEF CancelStep, CancelList, CancelOne, CancelEnd
<1>2. UNCHANGED <<pending, wgs, count, sub, doneWg, pc, waitOn, proc>>
      BY <1>1 DEF registry, runVars, subVars
<1>3. RegistryInv' /\ Unsignalled' = Unsignalled BY <1>2, RegistryFrame DEF FanInInv
<1>4. \A q \in Runs : RunAt(q)' BY <1>2, <1>3, RunsStay DEF FanInInv
<1> QED BY <1>2, <1>3, <1>4 DEF FanInInv

\* raced is only forgotten by a crash, and a crashed process starts afresh.
LEMMA RacedStays == Next /\ raced => raced' \/ (Crash /\ proc = "up")
<1> SUFFICES ASSUME Next, raced, ~raced' PROVE Crash /\ proc = "up" OBVIOUS
<1>1. ASSUME NEW r \in Runs PROVE ~(StartRun(r) \/ RunStep(r))
  <2>1. \A s \in Subs : ~DispatchCreate(r, s) /\ ~Add(r, s)
        BY DEF DispatchCreate, Add, registry
  <2> QED BY <2>1 DEF RunStep, FanInStep, StartRun, EndTurn, CheckPending, WaitFetch,
          WaitEnter, WaitReturn, Drain, PersistFanIn, OtherStop, RunError, registry
<1>2. \A s \in Subs : ~SubStep(s)
      BY DEF SubStep, DoneStep, Settle, PushReturns, DoneRecord, DoneSignal, registry
<1>3. \A c \in Cancels : ~CancelStep(c)
      BY DEF CancelStep, CancelList, CancelOne, CancelEnd, registry
<1> QED BY <1>1, <1>2, <1>3 DEF Next, Quiescent, vars, registry

LEMMA NextIInv ==
    ASSUME IInv, [Next]_vars
    PROVE  IInv'
<1>1. TypeOK' /\ RowInv' BY NextTypeOK, NextRowInv DEF IInv
<1>2. CASE Crash /\ proc = "up" BY <1>1, <1>2, CrashFanIn DEF IInv
<1>3. CASE UNCHANGED vars
  <2>1. /\ UNCHANGED <<pending, wgs, count, sub, doneWg, pc, waitOn, proc>>
        /\ raced' = raced
        BY <1>3 DEF vars, registry, runVars, subVars
  <2>2. FanInInv => FanInInv'
    <3> SUFFICES ASSUME FanInInv PROVE FanInInv' OBVIOUS
    <3>1. RegistryInv' /\ Unsignalled' = Unsignalled BY <2>1, RegistryFrame DEF FanInInv
    <3>2. \A q \in Runs : RunAt(q)' BY <2>1, <3>1, RunsStay DEF FanInInv
    <3> QED BY <2>1, <3>1, <3>2 DEF FanInInv
  <2> QED BY <1>1, <2>1, <2>2 DEF IInv
<1>4. CASE Next /\ ~raced'
  <2>1. ~raced \/ (Crash /\ proc = "up") BY <1>4, RacedStays
  <2>2. CASE ~raced
    <3>1. FanInInv /\ TypeOK /\ RowInv BY <2>2 DEF IInv
    <3>2. \A r \in Runs : StartRun(r) \/ RunStep(r) => FanInInv'
          BY <1>4, <3>1, RunStepFanIn
    <3>3. \A s \in Subs : SubStep(s) => FanInInv' BY <3>1, SubStepFanIn
    <3>4. \A c \in Cancels : CancelStep(c) => FanInInv' BY <3>1, CancelStepFanIn
    <3> QED BY <1>1, <1>2, <1>3, <1>4, <3>2, <3>3, <3>4 DEF Next, Quiescent, IInv
  <2> QED BY <1>2, <2>1, <2>2
<1>5. CASE raced' BY <1>1, <1>5 DEF IInv
<1> QED BY <1>3, <1>4, <1>5

LEMMA InitIInv == Init => IInv
BY InitTypeOK, InitRowInv, InitFanIn DEF IInv

\* Registry, WaitGroups, goroutines and thread rows stay in step, however many runs of
\* the conversation overlap, until an Add overtakes another run's Drain.
THEOREM RegistryCorrect == Spec => []IInv
<1>1. Init => IInv BY InitIInv
<1>2. IInv /\ [Next]_vars => IInv' BY NextIInv
<1> QED BY <1>1, <1>2, PTL DEF Spec

\* Pending is exact, no WaitGroup call panics, Wait returns neither early nor never, for
\* any number of overlapping runs: what goes wrong in the registry goes wrong after an Add
\* between another run's Wait and its Drain, and in no other interleaving.
THEOREM FanInSafe ==
    Spec => [](PendingAccurate /\ NoPanic /\ WaitCoversAll /\ WaitReleases)
<1>1. IInv => PendingAccurate /\ NoPanic /\ WaitCoversAll /\ WaitReleases
      BY DEF IInv, FanInInv, RegistryInv, RunAt, PastWait, PendingAccurate,
             PendingIsRunning, NoPanic, WaitCoversAll, WaitReleases
<1> QED BY <1>1, RegistryCorrect, PTL

\* No interleaving of Add, Done, Wait and Drain misuses a sync.WaitGroup, overlapping
\* runs included, before an Add overtook a Drain.
THEOREM NoPanicHolds == Spec => []NoPanic
BY FanInSafe, PTL

\* A run that is past Wait has every subagent's Done behind it, other runs' subagents
\* included, before an Add overtook its Drain.
THEOREM WaitCoversAllHolds == Spec => []WaitCoversAll
BY FanInSafe, PTL

\* end_turn ends a run only when every subagent it dispatched has reported, before an Add
\* overtook a Drain.
THEOREM EndTurnWaitsHolds == Spec => EndTurnWaits
<1>1. ASSUME IInv, [Next]_vars
      PROVE  [\A r \in Runs : pc[r] = "check" /\ pc'[r] = "done"
                => raced \/ \A s \in Subs : owner[s] = r => s \notin InFlight]_vars
  <2>1. SUFFICES ASSUME NEW r \in Runs, pc[r] = "check", pc'[r] = "done", ~raced,
                        NEW s \in Subs, s \in InFlight
                 PROVE  FALSE
        OBVIOUS
  <2>2. \A q \in Runs : \A l : Goto(q, l) /\ (pc[q] # "check" \/ l # "done") => FALSE
        BY <1>1, <2>1 DEF Goto, IInv, TypeOK
  <2>3. pending > 0
    <3>1. InFlight # {} /\ pending = Cardinality(InFlight)
          BY <1>1, <2>1 DEF IInv, FanInInv, RegistryInv
    <3> QED BY <3>1, FiniteParts
  <2>4. ASSUME NEW q \in Runs PROVE ~(StartRun(q) \/ RunStep(q))
    <3>1. ~CheckPending(q) BY <2>2, <2>3 DEF CheckPending, HasPending
    <3>2. ~OtherStop(q) /\ ~RunError(q) /\ ~StartRun(q) /\ ~EndTurn(q)
          BY <2>2 DEF OtherStop, RunError, StartRun, EndTurn
    <3>3. ~WaitFetch(q) /\ ~WaitEnter(q) /\ ~Drain(q) /\ ~PersistFanIn(q)
          BY <2>2 DEF WaitFetch, WaitEnter, WaitPasses, Drain, PersistFanIn
    <3>4. ~WaitReturn(q) BY <2>1, <2>2 DEF WaitReturn, WaitPasses
    <3>5. \A x \in Subs : ~DispatchCreate(q, x) /\ ~Add(q, x)
          BY <2>2 DEF DispatchCreate, Add
    <3> QED BY <3>1, <3>2, <3>3, <3>4, <3>5 DEF RunStep, FanInStep
  <2>5. ASSUME NEW x \in Subs PROVE ~SubStep(x)
        BY <2>1 DEF SubStep, DoneStep, Settle, PushReturns, DoneRecord, DoneSignal, runVars
  <2>6. ASSUME NEW c \in Cancels PROVE ~CancelStep(c)
        BY <2>1 DEF CancelStep, CancelList, CancelOne, CancelEnd, runVars
  <2>7. ~Crash BY <2>1 DEF Crash, Active, RunPcs
  <2>8. ~UNCHANGED vars BY <2>1 DEF vars, runVars
  <2> QED BY <1>1, <2>4, <2>5, <2>6, <2>7, <2>8 DEF Next, Quiescent
<1> QED BY <1>1, RegistryCorrect, PTL DEF Spec, EndTurnWaits

(***************************************************************************)
(* Where results are.                                                      *)
(***************************************************************************)

NotDone  == {"unused", "running", "closing", "pushed"}
At(q, s) == \E i \in DOMAIN q : q[i] = s
Once(q)  == \A i, j \in DOMAIN q : q[i] = q[j] => i = j
Given(s) == At(outs, s) \/ (\E r \in Runs : At(hand[r], s)) \/ injected[s] # None

\* A result is nowhere before Done records it, and then in one place only.
PlaceInv ==
    /\ \A s \in Subs : sub[s] \in NotDone => ~Given(s)
    /\ Once(outs) /\ \A r \in Runs : Once(hand[r])
    /\ \A s \in Subs, r \in Runs :
          At(hand[r], s) => ~At(outs, s) /\ injected[s] = None
    /\ \A s \in Subs, r, q \in Runs : At(hand[r], s) /\ At(hand[q], s) => r = q
    /\ \A s \in Subs : injected[s] # None => ~At(outs, s)

\* Who has settled, and whose result is anywhere, has its row, unless that was refused.
Settled == {"closing", "pushed", "recorded"}
OutcomeInv ==
    \A s \in Subs : sub[s] \in Settled \/ Given(s)
                      => status[s] \in {"done", "error"} \/ s \in refused

LEMMA OccurrencesAt ==
    ASSUME NEW q \in Seq(Subs), NEW s \in Subs
    PROVE  /\ Occurrences(q, s) \in Nat
           /\ Occurrences(q, s) > 0 <=> At(q, s)
           /\ Once(q) => Occurrences(q, s) <= 1
<1> DEFINE S == {i \in DOMAIN q : q[i] = s}
<1>1. IsFiniteSet(S)
  <2>1. Len(q) \in Nat /\ DOMAIN q = 1..Len(q)
    OBVIOUS
  <2>2. IsFiniteSet(1..Len(q))
    BY <2>1, FS_Interval
  <2> QED BY <2>1, <2>2, FS_Subset
<1>2. Cardinality(S) \in Nat /\ (Cardinality(S) = 0 <=> S = {})
  BY <1>1, FS_CardinalityType, FS_EmptySet
<1>3. ASSUME Once(q) PROVE Cardinality(S) <= 1
  <2>1. CASE S = {}
    BY <2>1, <1>2
  <2>2. ASSUME NEW i \in S PROVE Cardinality(S) <= 1
    <3>1. S = {i}
      BY <1>3, <2>2 DEF Once
    <3>2. Cardinality({i}) = 1
      BY FS_Singleton
    <3> HIDE DEF S
    <3> QED BY <3>1, <3>2
  <2> QED BY <2>1, <2>2
<1>4. Occurrences(q, s) = Cardinality(S)
  BY DEF Occurrences
<1>5. S # {} <=> At(q, s)
  BY DEF At
<1> HIDE DEF S
<1> QED BY <1>2, <1>3, <1>4, <1>5

LEMMA EmptyHas == Once(<<>>) /\ \A s : ~At(<<>>, s)
BY DEF Once, At

LEMMA AppendHas ==
    ASSUME NEW q \in Seq(Subs), NEW t \in Subs
    PROVE  /\ \A s : At(Append(q, t), s) <=> At(q, s) \/ s = t
           /\ Once(q) /\ ~At(q, t) => Once(Append(q, t))
<1>1. Len(q) \in Nat /\ DOMAIN q = 1..Len(q) /\ DOMAIN Append(q, t) = 1..(Len(q) + 1)
  OBVIOUS
<1>2. /\ \A i \in DOMAIN q : Append(q, t)[i] = q[i]
      /\ Append(q, t)[Len(q) + 1] = t
  OBVIOUS
<1> DEFINE p == Append(q, t)
<1> HIDE DEF p
<1>3. \A s : At(p, s) <=> At(q, s) \/ s = t
  BY <1>1, <1>2 DEF At, p
<1>4. Once(q) /\ ~At(q, t) => Once(p)
  BY <1>1, <1>2 DEF Once, At, p
<1> QED BY <1>3, <1>4 DEF p

LEMMA InitPlace == Init => PlaceInv /\ OutcomeInv
BY EmptyHas, ConstantsAssumption DEF Init, PlaceInv, OutcomeInv, Given, NotDone, Settled

\* A step that moves no result: subagents may settle, signal or start.
LEMMA PlaceKept ==
    ASSUME PlaceInv, UNCHANGED <<outs, hand, injected>>,
           \A s \in Subs : sub'[s] \in NotDone
                             => sub[s] \in NotDone
    PROVE  PlaceInv' /\ \A s \in Subs : Given(s)' <=> Given(s)
BY DEF PlaceInv, Given, At, Once

LEMMA NextPlace ==
    ASSUME TypeOK, RowInv, PlaceInv, [Next]_vars
    PROVE  /\ PlaceInv'
           /\ \A s \in Subs : Given(s)' => Given(s) \/ sub[s] = "pushed"
<1> DEFINE Goal == /\ PlaceInv'
                   /\ \A s \in Subs : Given(s)' => Given(s) \/ sub[s] = "pushed"
<1> USE DEF TypeOK, NotDone
<1>1. ASSUME UNCHANGED <<outs, hand, injected, sub>> PROVE Goal
  BY <1>1, PlaceKept
<1>2. ASSUME NEW r \in Runs, NEW s \in Subs, Add(r, s) PROVE Goal
  <2>1. sub[s] = "unused"
    BY <1>2, ConstantsAssumption DEF Add, RowInv
  <2>2. sub' = [sub EXCEPT ![s] = "running"] /\ UNCHANGED <<outs, hand, injected>>
    BY <1>2 DEF Add
  <2> QED BY <2>1, <2>2, PlaceKept
<1>3. ASSUME NEW s \in Subs, Settle(s) \/ PushReturns(s) \/ DoneSignal(s) PROVE Goal
  <2>1. UNCHANGED <<outs, hand, injected>>
    BY <1>3 DEF Settle, PushReturns, DoneSignal, registry, runVars
  <2>2. \A t \in Subs : sub'[t] \in NotDone
                           => sub[t] \in NotDone
    BY <1>3 DEF Settle, PushReturns, DoneSignal
  <2> QED BY <2>1, <2>2, PlaceKept
<1>4. ASSUME NEW s \in Subs, DoneRecord(s) PROVE Goal
  <2>1. /\ outs' = Append(outs, s) /\ sub[s] = "pushed"
        /\ sub' = [sub EXCEPT ![s] = "recorded"] /\ UNCHANGED <<hand, injected>>
    BY <1>4 DEF DoneRecord, runVars
  <2>2. ~Given(s)
    BY <2>1 DEF PlaceInv
  <2>3. /\ \A t : At(outs', t) <=> At(outs, t) \/ t = s
        /\ Once(outs')
    BY <2>1, <2>2, AppendHas DEF PlaceInv, Given
  <2>4. \A t \in Subs : Given(t)' <=> Given(t) \/ t = s
    BY <2>1, <2>3 DEF Given, At
  <2>5. PlaceInv'
    <3>1. \A t \in Subs : sub'[t] \in NotDone => ~Given(t)'
      BY <2>1, <2>4 DEF PlaceInv
    <3>2. \A t \in Subs, r \in Runs : At(hand[r], t) => ~At(outs', t) /\ injected[t] = None
      BY <2>2, <2>3 DEF PlaceInv, Given
    <3>3. \A t \in Subs : injected[t] # None => ~At(outs', t)
      BY <2>2, <2>3 DEF PlaceInv, Given
    <3> QED BY <2>1, <2>3, <3>1, <3>2, <3>3 DEF PlaceInv
  <2> QED BY <2>1, <2>4, <2>5
<1>5. ASSUME NEW r \in Runs, Drain(r) PROVE Goal
  <2>1. /\ hand' = [hand EXCEPT ![r] = outs] /\ outs' = <<>>
        /\ UNCHANGED <<injected, sub>>
    BY <1>5 DEF Drain, Leftover, subVars
  <2>2. \A s : ~At(outs', s)
    BY <2>1, EmptyHas
  <2>3. \A q \in Runs : hand'[q] = IF q = r THEN outs ELSE hand[q]
    BY <2>1
  <2>4. \A s \in Subs : Given(s)' => Given(s)
    BY <2>1, <2>2, <2>3 DEF Given
  <2>5. PlaceInv'
    <3>1. \A s \in Subs : sub'[s] \in NotDone => ~Given(s)'
      BY <2>1, <2>4 DEF PlaceInv
    <3>2. Once(outs') /\ \A q \in Runs : Once(hand'[q])
      BY <2>1, <2>3, EmptyHas DEF PlaceInv
    <3>3. \A s \in Subs, q \in Runs : At(hand'[q], s) => injected[s] = None
      BY <2>3 DEF PlaceInv
    <3>4. \A s \in Subs, p, q \in Runs : At(hand'[p], s) /\ At(hand'[q], s) => p = q
      BY <2>3 DEF PlaceInv
    <3> QED BY <2>1, <2>2, <3>1, <3>2, <3>3, <3>4 DEF PlaceInv
  <2> QED BY <2>4, <2>5
<1>6. ASSUME NEW r \in Runs, PersistFanIn(r) PROVE Goal
  <2>1. /\ hand' = [hand EXCEPT ![r] = <<>>]
        /\ UNCHANGED <<outs, sub>>
    BY <1>6 DEF PersistFanIn, registry, subVars
  <2>2. \A s \in Subs : injected'[s] = injected[s] \/ At(hand[r], s)
    BY <1>6 DEF PersistFanIn, At
  <2>3. \A q \in Runs : hand'[q] = IF q = r THEN <<>> ELSE hand[q]
    BY <2>1
  <2>4. \A q \in Runs, s \in Subs : At(hand'[q], s) => q # r /\ At(hand[q], s)
    BY <2>3, EmptyHas
  <2>5. \A s \in Subs : Given(s)' => Given(s)
    BY <2>1, <2>2, <2>4 DEF Given
  <2>6. PlaceInv'
    <3>1. \A s \in Subs : sub'[s] \in NotDone => ~Given(s)'
      BY <2>1, <2>5 DEF PlaceInv
    <3>2. Once(outs') /\ \A q \in Runs : Once(hand'[q])
      BY <2>1, <2>3, EmptyHas DEF PlaceInv
    <3>3. \A s \in Subs, q \in Runs :
             At(hand'[q], s) => ~At(outs', s) /\ injected'[s] = None
      BY <2>1, <2>2, <2>4 DEF PlaceInv
    <3>4. \A s \in Subs, p, q \in Runs : At(hand'[p], s) /\ At(hand'[q], s) => p = q
      BY <2>4 DEF PlaceInv
    <3>5. \A s \in Subs : injected'[s] # None => ~At(outs', s)
      BY <2>1, <2>2 DEF PlaceInv
    <3> QED BY <3>1, <3>2, <3>3, <3>4, <3>5 DEF PlaceInv
  <2> QED BY <2>5, <2>6
<1>7. CASE Crash
  <2>1. /\ outs' = <<>> /\ \A r \in Runs : hand'[r] = <<>>
        /\ UNCHANGED injected
        /\ \A s \in Subs : sub'[s] \in NotDone => sub[s] = "unused"
    BY <1>7 DEF Crash
  <2>2. \A s \in Subs : Given(s)' => Given(s)
    BY <2>1, EmptyHas DEF Given
  <2>3. PlaceInv'
    BY <2>1, <2>2, EmptyHas DEF PlaceInv
  <2> QED BY <2>2, <2>3
<1>8. ASSUME NEW r \in Runs, StartRun(r) \/ RunStep(r) PROVE Goal
  <2>1. ASSUME NEW s \in Subs, DispatchCreate(r, s) PROVE Goal
    BY <2>1, <1>1 DEF DispatchCreate, registry
  <2> QED BY <1>1, <1>2, <1>5, <1>6, <1>8, <2>1
          DEF StartRun, RunStep, FanInStep, EndTurn, CheckPending, WaitFetch, WaitEnter,
              WaitReturn, OtherStop, RunError, registry, subVars
<1>9. ASSUME NEW c \in Cancels, CancelStep(c) PROVE Goal
  BY <1>1, <1>9 DEF CancelStep, CancelList, CancelOne, CancelEnd, registry, runVars, subVars
<1>10. CASE UNCHANGED vars
  BY <1>1, <1>10 DEF vars, registry, runVars, subVars
<1>11. CASE Next
  <2>1. ASSUME NEW s \in Subs, SubStep(s) PROVE Goal
    BY <1>3, <1>4, <2>1 DEF SubStep, DoneStep
  <2> QED BY <1>7, <1>8, <1>9, <1>10, <1>11, <2>1 DEF Next, Quiescent
<1> QED BY <1>10, <1>11

LEMMA NextOutcome ==
    ASSUME TypeOK, RowInv, PlaceInv, OutcomeInv, [Next]_vars
    PROVE  OutcomeInv'
<1> USE DEF TypeOK, Settled
<1>1. \A s \in Subs : Given(s)' => Given(s) \/ sub[s] = "pushed"
  BY NextPlace
<1>2. ASSUME UNCHANGED <<sub, status, refused>> PROVE OutcomeInv'
  BY <1>1, <1>2 DEF OutcomeInv
<1>3. ASSUME NEW r \in Runs, NEW s \in Subs, DispatchCreate(r, s) PROVE OutcomeInv'
  <2>1. sub[s] = "unused" /\ UNCHANGED <<sub, refused>> /\ ~Given(s)
    BY <1>3 DEF DispatchCreate, RowInv, PlaceInv, NotDone
  <2> QED BY <1>1, <1>3, <2>1 DEF OutcomeInv, DispatchCreate
<1>4. ASSUME NEW r \in Runs, NEW s \in Subs, Add(r, s) PROVE OutcomeInv'
  BY <1>1, <1>4 DEF OutcomeInv, Add
<1>5. ASSUME NEW s \in Subs, Settle(s) PROVE OutcomeInv'
  <2>1. /\ sub[s] = "running" /\ sub' = [sub EXCEPT ![s] = "closing"]
        /\ \/ \E o \in {"done", "error"} : status' = [status EXCEPT ![s] = o]
              /\ UNCHANGED refused
           \/ UNCHANGED status /\ refused' = refused \cup {s}
    BY <1>5 DEF Settle
  <2> QED BY <1>1, <2>1 DEF OutcomeInv
<1>6. ASSUME NEW s \in Subs, PushReturns(s) \/ DoneRecord(s) \/ DoneSignal(s)
      PROVE  OutcomeInv'
  <2>1. /\ UNCHANGED <<status, refused>>
        /\ \A t \in Subs : sub'[t] \in Settled => sub[t] \in Settled
    BY <1>6 DEF PushReturns, DoneRecord, DoneSignal
  <2> QED BY <1>1, <2>1 DEF OutcomeInv
<1>7. ASSUME NEW c \in Cancels, CancelStep(c) PROVE OutcomeInv'
  <2>1. UNCHANGED <<sub, refused>>
    BY <1>7 DEF CancelStep, CancelList, CancelOne, CancelEnd, subVars
  <2>2. \A s \in Subs : status[s] \in {"done", "error"} => status'[s] = status[s]
    BY <1>7 DEF CancelStep, CancelList, CancelOne, CancelEnd, Cancelled, Terminal
  <2> QED BY <1>1, <2>1, <2>2 DEF OutcomeInv
<1>8. CASE Crash
  <2>1. UNCHANGED <<status, refused>> /\ \A s \in Subs : sub'[s] \notin Settled
    BY <1>8 DEF Crash
  <2> QED BY <1>1, <2>1 DEF OutcomeInv
<1>9. ASSUME NEW r \in Runs, StartRun(r) \/ RunStep(r) PROVE OutcomeInv'
  BY <1>2, <1>3, <1>4, <1>9
     DEF StartRun, RunStep, FanInStep, EndTurn, CheckPending, WaitFetch, WaitEnter,
         WaitReturn, Drain, PersistFanIn, OtherStop, RunError, subVars
<1>10. CASE UNCHANGED vars
  BY <1>2, <1>10 DEF vars, subVars
<1> QED BY <1>5, <1>6, <1>7, <1>8, <1>9, <1>10 DEF Next, SubStep, DoneStep, Quiescent

\* Done, Drain and the fan-in message hand each result over whole: it is in the registry,
\* in one run's hand or in the history, whichever runs overlap and crash.
THEOREM ResultOnceHolds == Spec => []ResultOnce
<1>1. ASSUME TypeOK, PlaceInv PROVE ResultOnce
  BY <1>1, OccurrencesAt DEF TypeOK, PlaceInv, ResultOnce
<1> QED BY <1>1, InitTypeOK, NextTypeOK, InitRowInv, NextRowInv, InitPlace, NextPlace, PTL
        DEF Spec

\* A result that is anywhere belongs to a thread whose row says done or error
\* (RunSubAgent's deferred function settles the row first), or to one whose last row
\* update was refused.
THEOREM ResultAfterRowHolds == Spec => []ResultAfterRow
<1>1. ASSUME TypeOK, OutcomeInv PROVE ResultAfterRow
  BY <1>1, OccurrencesAt DEF TypeOK, OutcomeInv, ResultAfterRow, Given
<1>2. PlaceInv /\ OutcomeInv /\ TypeOK /\ RowInv /\ [Next]_vars => OutcomeInv'
  BY NextOutcome
<1> QED BY <1>1, <1>2, InitTypeOK, NextTypeOK, InitRowInv, NextRowInv, InitPlace,
           NextPlace, PTL
        DEF Spec
=============================================================================
