-------------------------------- MODULE Turn --------------------------------
(***************************************************************************)
(* A whole turn of ONE conversation: Dispatch (runs, subagents, fan-in)    *)
(* composed with SSEHub (hubs and streams). A run is one goroutine of both *)
(* modules, and so is a subagent: what it pushes, and when, depends on     *)
(* where it is in Dispatch, and it goes on only after the push returned.   *)
(* A run pushes round_done and queue_drained after its loop, on an error   *)
(* too; a subagent pushes thread_status between its row's update and Done. *)
(* (The events before those are left to SSEHub: they only fill the buffer.)*)
(***************************************************************************)
EXTENDS Dispatch

CONSTANTS
    Streams,     \* GET /conversations/:id/stream requests
    Cap,         \* capacity of a hub's channel
    MaxHubs      \* bound on hubs: one per lookup is enough

ASSUME TurnAssumption ==
    /\ Cap \in Nat \ {0} /\ MaxHubs \in Nat
    /\ Runs \cap Subs = {}
    /\ None \notin Streams \cup 1..MaxHubs

VARIABLES
    hpc, hub, target, at, current, made, regLock, ch, closed, hubLock,
    spc, shub, got, why, discarded,   \* SSEHub's, its pc being hpc
    ended        \* per run: none, end_turn, other or failed

hubVars  == <<hpc, hub, target, at, current, made, regLock, ch, closed, hubLock,
              spc, shub, got, why, discarded>>
turnVars == <<vars, hubVars, ended>>

RunScript == <<"round_done", "queue_drained">>
SubScript == <<"thread_status">>

H == INSTANCE SSEHub WITH
        pc <- hpc, Producers <- Runs \cup Subs,
        Script <- [p \in Runs \cup Subs |-> IF p \in Runs THEN RunScript ELSE SubScript]

TurnInit == Init /\ H!Init /\ ended = [r \in Runs |-> "none"]

-----------------------------------------------------------------------------

\* POST /messages: look the hub up and start the run, whatever other runs do.
Begin(r) ==
    /\ StartRun(r) /\ H!StartRun(r)
    /\ UNCHANGED ended

EndedBy(r) == IF pc[r] = "check" THEN "end_turn" ELSE "other"

\* A step of run, before its two pushes.
InLoop(r) == hpc[r] = "next" /\ at[r] = 1
RunGoesOn(r) ==
    /\ InLoop(r) /\ RunStep(r)
    /\ ended' = [ended EXCEPT ![r] =
          IF pc'[r] = "done" THEN EndedBy(r)
          ELSE IF pc'[r] = "failed" THEN "failed" ELSE @]
    /\ UNCHANGED hubVars

\* A run that returned an error still tells its clients.
M_MayPush(r) == pc[r] = "done"
MayPush(r) == pc[r] \in {"done", "failed"}
RunPushes(r) ==
    /\ InLoop(r) => MayPush(r)
    /\ H!Produce(r)
    /\ UNCHANGED <<vars, ended>>

\* The subagent's goroutine looks the hub up first.
SubBegin(s) ==
    /\ sub[s] = "running"
    /\ H!StartRun(s)
    /\ UNCHANGED <<vars, ended>>

SubSettles(s) ==
    /\ hpc[s] = "next" /\ Settle(s)
    /\ UNCHANGED <<hubVars, ended>>

SubPushes(s) ==
    /\ sub[s] = "closing" /\ H!Produce(s)
    /\ UNCHANGED <<vars, ended>>

\* The push returned: reg.Done.
M_PushReturned(s) == TRUE
PushReturned(s) == hpc[s] = "done"
SubReports(s) ==
    /\ PushReturned(s)
    /\ PushReturns(s) \/ DoneStep(s)
    /\ UNCHANGED <<hubVars, ended>>

\* The stream handler; clients come and go when they like.
ServeStep(c) == H!Serve(c) /\ UNCHANGED <<vars, ended>>
ClientStep(c) ==
    \/ ServeStep(c)
    \/ (H!Open(c) \/ H!Disconnect(c)) /\ UNCHANGED <<vars, ended>>

TurnOver ==
    /\ \A r \in Runs : hpc[r] = "done"
    /\ \A s \in Subs : sub[s] \in {"unused", "gone"}
    /\ UNCHANGED turnVars

Producing(r) == RunGoesOn(r) \/ RunPushes(r)
Reporting(s) == SubBegin(s) \/ SubSettles(s) \/ SubPushes(s) \/ SubReports(s)

TurnNext ==
    \/ proc = "up" /\ \E r \in Runs : Begin(r) \/ Producing(r)
    \/ proc = "up" /\ \E s \in Subs : Reporting(s)
    \/ \E c \in Streams : ClientStep(c)
    \/ TurnOver

TurnSpec == TurnInit /\ [][TurnNext]_turnVars

\* Goroutines that can move do, mutexes are handed over in the end, and the LLM and the
\* database answer, with a result or an error (the code sets no time limit of its own).
\* Clients need not connect or leave, and a push on a full buffer may wait for them.
TurnFairness ==
    /\ \A r \in Runs : SF_turnVars(Producing(r))
    /\ \A s \in Subs : SF_turnVars(Reporting(s))
    /\ \A c \in Streams : SF_turnVars(ServeStep(c))

FairTurn == TurnSpec /\ TurnFairness

-----------------------------------------------------------------------------
(* Properties. *)

Received(e) == \E c \in Streams : \E i \in DOMAIN got[c] : got[c][i] = e

\* The run that dispatched s ended its turn with end_turn, and no Add overtook a Drain.
Awaited(s) == owner[s] # None /\ ended[owner[s]] = "end_turn" /\ ~raced

\* frontend-integration.md: round_done means "subagents done". A client that receives
\* queue_drained of a run that ended with end_turn: every subagent of that run has
\* settled its row, if the update was not refused, and its thread_status was received
\* before (by this or another stream) unless a full buffer was drained. The run and its
\* subagents look their hub up separately, streams that end meanwhile replace the
\* registered hub, and other runs of the conversation share the registry.
ClientSeesSubagents ==
    \A s \in Subs : Awaited(s) /\ Received(<<owner[s], 2>>) =>
        /\ status[s] \in Terminal \/ s \in refused
        /\ discarded = {} => Received(<<s, 1>>)

\* ph0-foundation.md: "on any error Run() logs the error, then pushes round_done +
\* queue_drained so the SSE stream always terminates": a stream on the open hub of an
\* active run ends, however the run ends and whatever it waits for, unless the buffer
\* fills up.
BufferFilled == discarded # {} \/ \E p \in Runs \cup Subs : hpc[p] \in {"drain", "recv"}
TurnReachesClient ==
    \A c \in Streams, r \in Runs :
        (spc[c] = "open" /\ pc[r] \in Active /\ shub[c] = hub[r] /\ ~closed[hub[r]])
            ~> (spc[c] = "ended" \/ BufferFilled)

-----------------------------------------------------------------------------
\* The inductive invariant behind ClientSeesSubagents, beside those of the two modules:
\* where a goroutine is in the one and in the other,
PushesTo(p) ==
    /\ IF hpc[p] = "idle" THEN at[p] = 1 ELSE hub[p] \in 1..made
    /\ hpc[p] \in {"push", "drain", "recv"} => target[p] = hub[p]

RunPlace(r) ==
    /\ hpc[r] = "idle" <=> pc[r] = "idle"
    /\ hpc[r] # "idle" /\ ~InLoop(r) => MayPush(r)
    /\ ended[r] # "none" => MayPush(r)

SubPlace(s) ==
    /\ sub[s] = "unused" => hpc[s] = "idle"
    /\ sub[s] \in {"unused", "running"} => hpc[s] \in {"idle", "next"} /\ at[s] = 1
    /\ sub[s] = "closing" => hpc[s] # "idle"
    /\ sub[s] \in {"pushed", "recorded", "gone"} => hpc[s] = "done"
    /\ hpc[s] = "done" => at[s] # 1
    /\ sub[s] \notin {"unused", "running"} => status[s] \in Terminal \/ s \in refused

\* ... what a run knows of the subagents it dispatched, and, as long as its hub is the
\* registered one, that they found the same ...
OwnerInv(s) ==
    LET r == owner[s] IN
    /\ r = None <=> status[s] = "none"
    /\ r # None =>
          /\ pc[r] # "idle"
          /\ sub[s] = "unused" => pc[r] = "adding" /\ arg[r] = s
          /\ Awaited(s) => sub[s] \in {"recorded", "gone"}
          /\ hpc[s] # "idle" /\ ~closed[hub[r]] => hub[s] = hub[r]

\* ... and where the events are, unless a full buffer was drained: a pushed thread_status
\* is in its hub's buffer or received, and it is ahead of its run's queue_drained.
Ahead(e, q, n) == \E i \in DOMAIN q : i < n /\ q[i] = e
Arrived(e, h) == Received(e) \/ Ahead(e, ch[h], Len(ch[h]) + 1)

MailInv ==
    /\ \A s \in Subs : at[s] # 1 /\ ~closed[hub[s]] => Arrived(<<s, 1>>, hub[s])
    /\ \A s \in Subs : Awaited(s) =>
          /\ Received(<<owner[s], 2>>) => Received(<<s, 1>>)
          /\ \A h \in 1..MaxHubs : \A n \in DOMAIN ch[h] :
                ch[h][n] = <<owner[s], 2>> => Received(<<s, 1>>) \/ Ahead(<<s, 1>>, ch[h], n)

GoroutineInv ==
    /\ ended \in [Runs -> {"none", "end_turn", "other", "failed"}]
    /\ \A p \in Runs \cup Subs : PushesTo(p)
    /\ \A r \in Runs : RunPlace(r)
    /\ \A s \in Subs : SubPlace(s) /\ OwnerInv(s)

TurnInv == GoroutineInv /\ (discarded = {} => MailInv)
=============================================================================
