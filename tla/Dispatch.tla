------------------------------ MODULE Dispatch ------------------------------
(***************************************************************************)
(* Fan-out and fan-in of subagents in ONE conversation: the tool handler   *)
(* of dispatch_to_agent, the goroutines of RunSubAgent, DispatchRegistry   *)
(* with its sync.WaitGroup, the end_turn branch of Service.run, and the    *)
(* thread rows, which DELETE /conversations/:id/threads cancels meanwhile. *)
(* Every registry map is keyed by the conversation and no operation reads  *)
(* two keys, so conversations do not interact here.                        *)
(*                                                                         *)
(* A step is what one goroutine does under the registry's mutex, in one    *)
(* database statement, or in one WaitGroup call.                           *)
(***************************************************************************)
EXTENDS Integers, Sequences, FiniteSets

CONSTANTS
    Runs,        \* calls of Service.Run for the conversation
    Subs,        \* subagent threads the LLM may dispatch
    Cancels,     \* calls of CancelAllThreads
    None,        \* no thread, no WaitGroup, no run
    MaxCrashes   \* bound on process crashes

ASSUME ConstantsAssumption ==
    /\ IsFiniteSet(Subs)
    /\ None \notin Subs \cup Runs
    /\ MaxCrashes \in Nat

VARIABLES
    pending,     \* r.pending[convID]; an absent key reads as 0
    wgs,         \* r.wgs[convID]: the Sub whose Add made the WaitGroup, or None
    outs,        \* r.outs[convID]
    count,       \* the counter of each WaitGroup ever made, by its maker
    pc,          \* where each run is
    arg,         \* per run: the thread row created and not yet added, or None
    waitOn,      \* per run: the WaitGroup fetched by Wait
    hand,        \* per run: the results Drain returned
    injected,    \* per Sub: the run whose fan-in message carries its result
    owner,       \* per Sub: the run that dispatched it
    sub,         \* where each subagent goroutine is
    doneWg,      \* per Sub: the WaitGroup fetched by Done
    status,      \* thread rows: the status column
    cancel,      \* per CancelAllThreads call: the listed threads left to visit
    cpc,         \* where each CancelAllThreads call is
    raced,       \* history: did an Add overtake another run's Wait and Drain?
    refused,     \* history: the Subs whose row's last update was refused
    proc,        \* "up", or "panicked" once a WaitGroup misuse killed the process
    crashes

registry  == <<pending, wgs, outs, count, raced>>
runVars   == <<pc, arg, waitOn, hand>>
subVars   == <<sub, doneWg, owner, refused>>
cancelVars == <<cancel, cpc>>
vars == <<registry, runVars, injected, subVars, status, cancelVars, proc, crashes>>

Terminal == {"done", "cancelled", "error"}
RunPcs   == {"idle", "loop", "adding", "check", "fetch", "enter", "wait",
             "woken", "drain", "fanin", "done", "failed"}
Active   == RunPcs \ {"idle", "done", "failed"}
SubPcs   == {"unused", "running", "closing", "pushed", "recorded", "gone"}

Init ==
    /\ pending = 0 /\ wgs = None /\ outs = <<>>
    /\ count = [s \in Subs |-> 0]
    /\ pc = [r \in Runs |-> "idle"]
    /\ arg = [r \in Runs |-> None]
    /\ waitOn = [r \in Runs |-> None]
    /\ hand = [r \in Runs |-> <<>>]
    /\ injected = [s \in Subs |-> None]
    /\ owner = [s \in Subs |-> None]
    /\ sub = [s \in Subs |-> "unused"]
    /\ doneWg = [s \in Subs |-> None]
    /\ status = [s \in Subs |-> "none"]
    /\ cancel = [c \in Cancels |-> {}]
    /\ cpc = [c \in Cancels |-> "idle"]
    /\ raced = FALSE /\ refused = {}
    /\ proc = "up"
    /\ crashes = 0

Goto(r, l) == pc' = [pc EXCEPT ![r] = l]

\* Seeded faults (M_...) precede the definition they would replace; no action
\* uses them.

\* Add: the WaitGroup of the conversation, made on first use.
M_WgFor(s) == s
WgFor(s) == IF wgs = None THEN s ELSE wgs

\* run: is there something to wait for?
HasPending == pending > 0

\* Wait: wg.Wait() returns at once on a nil or a zero WaitGroup.
M_Passes(w) == TRUE
Passes(w) == IF w = None THEN TRUE ELSE count[w] = 0

\* Drain: what is left in r.outs.
M_Leftover == outs
Leftover == <<>>

\* Drain: what is left in r.pending.
PendingAfterDrain == 0

\* Done: what is left in r.pending, and the WaitGroup it will signal.
M_PendingAfterDone == pending
PendingAfterDone == pending - 1
M_Signalled == IF pending = 1 THEN None ELSE wgs
Signalled == wgs

\* CancelAllThreads: the guarded UPDATE of one row.
M_CancelledAlways(old) == "cancelled"
M_CancelledMisspelt(old) == IF old \in Terminal THEN old ELSE "canceled"
Cancelled(old) == IF old \in Terminal THEN old ELSE "cancelled"

-----------------------------------------------------------------------------
(* The orchestrator's run. *)

\* POST /messages starts a run in a goroutine; nothing refuses a second one.
StartRun(r) ==
    /\ pc[r] = "idle"
    /\ Goto(r, "loop")
    /\ UNCHANGED <<registry, arg, waitOn, hand, injected, subVars, status,
                   cancelVars, proc, crashes>>

\* dispatch_to_agent passed its checks: insert the thread row, status running.
\* (A failed check or insert returns a tool error and changes nothing.)
DispatchCreate(r, s) ==
    /\ pc[r] = "loop"
    /\ status[s] = "none"
    /\ status' = [status EXCEPT ![s] = "running"]
    /\ owner' = [owner EXCEPT ![s] = r]
    /\ arg' = [arg EXCEPT ![r] = s]
    /\ Goto(r, "adding")
    /\ UNCHANGED <<registry, waitOn, hand, injected, sub, doneWg, refused,
                   cancelVars, proc, crashes>>

\* A run that is past wg.Wait() and has not drained: the WaitGroup it waits on is at
\* zero, was nil, or was forgotten by another run's Drain.
PastWait(q) ==
    \/ pc[q] \in {"woken", "drain"}
    \/ pc[q] = "enter" /\ (waitOn[q] = None \/ waitOn[q] # wgs)

\* addDispatch(convID), then `go runSubAgent`.
Add(r, s) ==
    LET w == WgFor(s)
    IN  /\ pc[r] = "adding" /\ arg[r] = s
        /\ wgs' = w
        /\ count' = [count EXCEPT ![w] = @ + 1]
        /\ pending' = pending + 1
        /\ sub' = [sub EXCEPT ![s] = "running"]
        /\ arg' = [arg EXCEPT ![r] = None]
        /\ Goto(r, "loop")
        /\ raced' = (raced \/ \E q \in Runs : PastWait(q))
        /\ UNCHANGED <<outs, waitOn, hand, injected, doneWg, owner, refused, status,
                       cancelVars, proc, crashes>>

\* The LLM ends its turn and the assistant message is persisted.
EndTurn(r) ==
    /\ pc[r] = "loop"
    /\ Goto(r, "check")
    /\ UNCHANGED <<registry, arg, waitOn, hand, injected, subVars, status,
                   cancelVars, proc, crashes>>

\* if s.dispatchReg.Pending(conversationID) > 0 { Wait ... } else finish.
CheckPending(r) ==
    /\ pc[r] = "check"
    /\ Goto(r, IF HasPending THEN "fetch" ELSE "done")
    /\ UNCHANGED <<registry, arg, waitOn, hand, injected, subVars, status,
                   cancelVars, proc, crashes>>

\* Wait: read r.wgs[convID] under the mutex.
WaitFetch(r) ==
    /\ pc[r] = "fetch"
    /\ waitOn' = [waitOn EXCEPT ![r] = wgs]
    /\ Goto(r, "enter")
    /\ UNCHANGED <<registry, arg, hand, injected, subVars, status, cancelVars,
                   proc, crashes>>

WaitPasses(r) == Goto(r, "drain") /\ waitOn' = [waitOn EXCEPT ![r] = None]

\* Wait: wg.Wait() passes or blocks.
WaitEnter(r) ==
    /\ pc[r] = "enter"
    /\ IF Passes(waitOn[r]) THEN WaitPasses(r) ELSE Goto(r, "wait") /\ UNCHANGED waitOn
    /\ UNCHANGED <<registry, arg, hand, injected, subVars, status, cancelVars,
                   proc, crashes>>

\* A released waiter resumes. sync.WaitGroup panics if it was reused meanwhile.
WaitReturn(r) ==
    /\ pc[r] = "woken"
    /\ IF count[waitOn[r]] = 0
       THEN WaitPasses(r) /\ UNCHANGED proc
       ELSE proc' = "panicked" /\ UNCHANGED <<pc, waitOn>>
    /\ UNCHANGED <<registry, arg, hand, injected, subVars, status,
                   cancelVars, crashes>>

Drain(r) ==
    /\ pc[r] = "drain"
    /\ hand' = [hand EXCEPT ![r] = outs]
    /\ outs' = Leftover /\ wgs' = None /\ pending' = PendingAfterDrain
    /\ Goto(r, "fanin")
    /\ UNCHANGED <<count, raced, arg, waitOn, injected, subVars, status, cancelVars,
                   proc, crashes>>

\* Persist the synthetic user message and loop; a refused write fails the run.
PersistFanIn(r) ==
    /\ pc[r] = "fanin"
    /\ hand' = [hand EXCEPT ![r] = <<>>]
    /\ \/ /\ injected' = [s \in Subs |->
                 IF \E i \in DOMAIN hand[r] : hand[r][i] = s THEN r ELSE injected[s]]
          /\ Goto(r, "loop")
       \/ Goto(r, "failed") /\ UNCHANGED injected
    /\ UNCHANGED <<registry, arg, waitOn, subVars, status, cancelVars, proc,
                   crashes>>

\* Any other stop reason ends the run without looking at the registry.
OtherStop(r) ==
    /\ pc[r] = "loop"
    /\ Goto(r, "done")
    /\ UNCHANGED <<registry, arg, waitOn, hand, injected, subVars, status,
                   cancelVars, proc, crashes>>

\* loadHistory, the LLM stream or a persist fails: run returns the error.
RunError(r) ==
    /\ pc[r] = "loop"
    /\ Goto(r, "failed")
    /\ UNCHANGED <<registry, arg, waitOn, hand, injected, subVars, status,
                   cancelVars, proc, crashes>>

-----------------------------------------------------------------------------
(* The subagent's goroutine: RunSubAgent's body and its deferred function. *)

\* The deferred function as if Done came before the row's update.
M_Settle(s) ==
    /\ sub[s] = "running"
    /\ sub' = [sub EXCEPT ![s] = "closing"]
    /\ UNCHANGED <<registry, runVars, injected, doneWg, owner, refused, status,
                   cancelVars, proc, crashes>>

\* The body ended with or without an error; the deferred transaction stores
\* the outcome by id alone, and its own error is dropped.
Settle(s) ==
    /\ sub[s] = "running"
    /\ sub' = [sub EXCEPT ![s] = "closing"]
    /\ \/ /\ \E o \in {"done", "error"} : status' = [status EXCEPT ![s] = o]
          /\ UNCHANGED refused
       \/ UNCHANGED status /\ refused' = refused \cup {s}
    /\ UNCHANGED <<registry, runVars, injected, doneWg, owner, cancelVars,
                   proc, crashes>>

\* The deferred push of thread_status returns. (It blocks while the hub's buffer is
\* full and nobody reads it: nothing here says that it ever returns.)
PushReturns(s) ==
    /\ sub[s] = "closing"
    /\ sub' = [sub EXCEPT ![s] = "pushed"]
    /\ UNCHANGED <<registry, runVars, injected, doneWg, owner, refused, status,
                   cancelVars, proc, crashes>>

\* Done, inside the mutex.
DoneRecord(s) ==
    /\ sub[s] = "pushed"
    /\ outs' = Append(outs, s)
    /\ doneWg' = [doneWg EXCEPT ![s] = Signalled]
    /\ pending' = PendingAfterDone
    /\ sub' = [sub EXCEPT ![s] = "recorded"]
    /\ UNCHANGED <<wgs, count, raced, runVars, injected, owner, refused, status,
                   cancelVars, proc, crashes>>

\* Done, outside the mutex: wg.Done() releases the waiters at zero and panics
\* below zero.
DoneSignal(s) ==
    LET w == doneWg[s] IN
    /\ sub[s] = "recorded"
    /\ sub' = [sub EXCEPT ![s] = "gone"]
    /\ doneWg' = [doneWg EXCEPT ![s] = None]
    /\ IF w = None THEN UNCHANGED <<count, pc, proc>>
       ELSE /\ count' = [count EXCEPT ![w] = @ - 1]
            /\ proc' = IF count[w] = 0 THEN "panicked" ELSE proc
            /\ pc' = [r \in Runs |->
                 IF pc[r] = "wait" /\ waitOn[r] = w /\ count[w] = 1
                 THEN "woken" ELSE pc[r]]
    /\ UNCHANGED <<pending, wgs, outs, raced, arg, waitOn, hand, injected, owner,
                   refused, status, cancelVars, crashes>>

-----------------------------------------------------------------------------
(* CancelAllThreads: list, then one guarded transaction per thread. *)

CancelList(c) ==
    /\ cpc[c] = "idle"
    /\ cancel' = [cancel EXCEPT ![c] =
                    {s \in Subs : status[s] \notin Terminal \cup {"none"}}]
    /\ cpc' = [cpc EXCEPT ![c] = "visit"]
    /\ UNCHANGED <<registry, runVars, injected, subVars, status, proc, crashes>>

CancelOne(c, s) ==
    /\ cpc[c] = "visit" /\ s \in cancel[c]
    /\ cancel' = [cancel EXCEPT ![c] = @ \ {s}]
    /\ status' = [status EXCEPT ![s] = Cancelled(@)]
    /\ UNCHANGED <<registry, runVars, injected, subVars, cpc, proc, crashes>>

\* The list is exhausted (204), or a transaction fails and the rest is left (500).
CancelEnd(c) ==
    /\ cpc[c] = "visit"
    /\ cancel' = [cancel EXCEPT ![c] = {}]
    /\ cpc' = [cpc EXCEPT ![c] = "done"]
    /\ UNCHANGED <<registry, runVars, injected, subVars, status, proc, crashes>>

-----------------------------------------------------------------------------

\* The process dies and starts again: goroutines and registry are gone, the
\* rows stay as they are, and no startup code looks at them.
Crash ==
    /\ crashes < MaxCrashes
    /\ crashes' = crashes + 1
    /\ pending' = 0 /\ wgs' = None /\ outs' = <<>>
    /\ count' = [s \in Subs |-> 0] /\ raced' = FALSE
    /\ pc' = [r \in Runs |-> IF pc[r] \in Active THEN "failed" ELSE pc[r]]
    /\ arg' = [r \in Runs |-> None]
    /\ waitOn' = [r \in Runs |-> None]
    /\ hand' = [r \in Runs |-> <<>>]
    /\ sub' = [s \in Subs |-> IF sub[s] = "unused" THEN "unused" ELSE "gone"]
    /\ cpc' = [c \in Cancels |-> IF cpc[c] = "visit" THEN "done" ELSE cpc[c]]
    /\ cancel' = [c \in Cancels |-> {}]
    /\ UNCHANGED <<injected, doneWg, owner, refused, status, proc>>

\* Nothing is running any more.
Quiescent ==
    /\ \/ proc = "panicked"
       \/ /\ \A r \in Runs : pc[r] \in {"done", "failed"}
          /\ \A s \in Subs : sub[s] \in {"unused", "gone"}
          /\ \A c \in Cancels : cpc[c] = "done"
    /\ UNCHANGED vars

\* The end_turn branch once something is pending.
FanInStep(r) ==
    WaitFetch(r) \/ WaitEnter(r) \/ WaitReturn(r) \/ Drain(r) \/ PersistFanIn(r)

RunStep(r) ==
    \/ \E s \in Subs : DispatchCreate(r, s) \/ Add(r, s)
    \/ EndTurn(r) \/ CheckPending(r) \/ FanInStep(r)
    \/ OtherStop(r) \/ RunError(r)

DoneStep(s) == DoneRecord(s) \/ DoneSignal(s)
SubStep(s)  == Settle(s) \/ PushReturns(s) \/ DoneStep(s)

CancelStep(c) == CancelList(c) \/ CancelEnd(c) \/ \E s \in Subs : CancelOne(c, s)

Next ==
    \/ /\ proc = "up"
       /\ \/ \E r \in Runs : StartRun(r) \/ RunStep(r)
          \/ \E s \in Subs : SubStep(s)
          \/ \E c \in Cancels : CancelStep(c)
          \/ Crash
    \/ Quiescent

Spec == Init /\ [][Next]_vars

\* The Go scheduler runs every goroutine that can move, and the database answers a write
\* with a result or an error. Nothing is assumed of the LLM or of the hub's Push.
Fairness ==
    /\ \A r \in Runs : WF_vars(proc = "up" /\ FanInStep(r))
    /\ \A s \in Subs : WF_vars(proc = "up" /\ DoneStep(s))

FairSpec == Spec /\ Fairness

-----------------------------------------------------------------------------
(* Properties. *)

InFlight    == {s \in Subs : sub[s] \in {"running", "closing", "pushed"}}
Unsignalled == {s \in Subs : sub[s] \in {"running", "closing", "pushed", "recorded"}}

\* Every variable has its type: registry maps, goroutine positions, rows.
TypeOK ==
    /\ pending \in Int
    /\ wgs \in Subs \cup {None}
    /\ outs \in Seq(Subs)
    /\ count \in [Subs -> Int]
    /\ pc \in [Runs -> RunPcs]
    /\ arg \in [Runs -> Subs \cup {None}]
    /\ waitOn \in [Runs -> Subs \cup {None}]
    /\ hand \in [Runs -> Seq(Subs)]
    /\ injected \in [Subs -> Runs \cup {None}]
    /\ owner \in [Subs -> Runs \cup {None}]
    /\ sub \in [Subs -> SubPcs]
    /\ doneWg \in [Subs -> Subs \cup {None}]
    /\ status \in [Subs -> Terminal \cup {"none", "running"}]
    /\ cancel \in [Cancels -> SUBSET Subs]
    /\ cpc \in [Cancels -> {"idle", "visit", "done"}]
    /\ raced \in BOOLEAN /\ refused \in SUBSET Subs
    /\ proc \in {"up", "panicked"}
    /\ crashes \in 0..MaxCrashes

(* Runs of a conversation may overlap, and the registry stands that except for one    *)
(* thing: an Add between another run's Wait and its Drain (raced). Drain then forgets *)
(* a goroutine that is running. The promises below hold until that happened.          *)

\* dispatch.go:54: "Pending returns the number of still-running subagent goroutines":
\* those that were added and have not called Done.
PendingIsRunning == pending = Cardinality(InFlight)
PendingAccurate  == raced \/ PendingIsRunning

\* No interleaving of Add, Done, Wait and Drain misuses the WaitGroup (a negative
\* counter, a reuse before Wait returned), which would kill the process: before an Add
\* overtook a Drain.
NoPanic == raced \/ proc = "up"

\* dispatch.go:61: "Wait blocks until all subagent goroutines for convID have called
\* Done": a run that is past Wait sees no subagent that still has to signal, before
\* an Add overtook a Drain.
WaitCoversAll == raced \/ \A r \in Runs : pc[r] = "drain" => Unsignalled = {}

\* The other half of that comment: once all of them have called Done, no run is
\* still blocked in Wait.
WaitReleases ==
    raced \/ \A r \in Runs : pc[r] = "wait" => Unsignalled # {}

Occurrences(q, s) == Cardinality({i \in DOMAIN q : q[i] = s})

\* A subagent's result is in one place at most: the registry, the hand of one
\* draining run, or the history; it is never injected twice.
ResultOnce ==
    \A s \in Subs :
        /\ Occurrences(outs, s) <= 1
        /\ \A r \in Runs : Occurrences(hand[r], s) > 0 =>
              /\ Occurrences(hand[r], s) = 1 /\ Occurrences(outs, s) = 0
              /\ injected[s] = None
              /\ \A q \in Runs \ {r} : Occurrences(hand[q], s) = 0
        /\ injected[s] # None => Occurrences(outs, s) = 0

\* A result the registry holds or the orchestrator was given belongs to a thread whose
\* row says done or error, whatever CancelAllThreads did in between, or to one whose
\* row update was refused: subagent.go:42 drops that error and reports all the same.
ResultAfterRow ==
    \A s \in Subs :
        \/ Occurrences(outs, s) > 0
        \/ \E r \in Runs : Occurrences(hand[r], s) > 0
        \/ injected[s] # None
        => status[s] \in {"done", "error"} \/ s \in refused

\* Only the subagent's own deferred update may change a terminal row:
\* CancelAllThreads, whose list may be stale, does not.
CancelKeepsTerminal ==
    [][\A s \in Subs : status[s] \in Terminal /\ status'[s] # status[s]
                          => sub[s] = "running" /\ status[s] = "cancelled"]_vars

\* end_turn never ends a run of the conversation while one of its subagents has
\* yet to report, before an Add overtook a Drain.
EndTurnWaits ==
    [][\A r \in Runs : pc[r] = "check" /\ pc'[r] = "done"
                          => raced \/ \A s \in Subs : owner[s] = r => s \notin InFlight]_vars

\* Fan-in always ends: if no subagent hangs (in the LLM's stream or in a push), a run
\* that begins to wait returns to the loop, or the database refuses its message; unless
\* an Add overtook a Drain.
BodyAndPush == {"running", "closing"}
NobodyHangs == \A s \in Subs : sub[s] \in BodyAndPush ~> sub[s] \notin BodyAndPush
WaitReturns == \A r \in Runs : pc[r] = "fetch" ~> pc[r] \in {"loop", "failed"} \/ raced
WaitEnds    == NobodyHangs => WaitReturns

\* ph4b-dispatch.md: "when all subagents finish, their outputs are injected back
\* into the orchestrator's context": a run that ended has injected every result of
\* the subagents it dispatched.
EveryResultInjected ==
    \A r \in Runs : pc[r] = "done" =>
        \A s \in Subs : owner[s] = r /\ sub[s] = "gone" => injected[s] # None

\* The inductive invariant. Registry and goroutines agree, and a WaitGroup that was
\* forgotten is at zero.
RegistryInv ==
    /\ pending = Cardinality(InFlight)
    /\ wgs = None => Unsignalled = {}
    /\ wgs # None => count[wgs] = Cardinality(Unsignalled)
    /\ \A s \in Subs : s # wgs => count[s] = 0
    /\ \A s \in Subs : sub[s] = "recorded" => doneWg[s] = wgs
    /\ wgs # None => sub[wgs] # "unused"

\* Who waits, waits on the registered WaitGroup; who need not wait, or no longer has
\* to, has nobody left to wait for.
RunAt(r) ==
    /\ PastWait(r) => Unsignalled = {}
    /\ pc[r] = "wait" => waitOn[r] # None /\ waitOn[r] = wgs /\ Unsignalled # {}
    /\ pc[r] = "woken" => waitOn[r] # None

\* A row is created before its goroutine, by one run, and only its own goroutine makes
\* it done or error.
RowInv ==
    /\ \A s \in Subs : status[s] = "none" => sub[s] = "unused"
    /\ \A s \in Subs : sub[s] \in {"unused", "running"}
                          => status[s] \in {"none", "running", "cancelled"}
    /\ \A r \in Runs : pc[r] = "adding" => arg[r] # None
    /\ \A r \in Runs : arg[r] # None => sub[arg[r]] = "unused" /\ status[arg[r]] # "none"
    /\ \A r, q \in Runs : arg[r] # None /\ arg[r] = arg[q] => r = q
    /\ \A c \in Cancels : \A s \in cancel[c] : status[s] # "none"

FanInInv == RegistryInv /\ (\A r \in Runs : RunAt(r)) /\ proc = "up"

IInv == TypeOK /\ RowInv /\ (raced \/ FanInInv)
=============================================================================
