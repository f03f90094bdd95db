------------------------------- MODULE SSEHub -------------------------------
(***************************************************************************)
(* Hub, HubRegistry and the stream handler for ONE conversation: runs push *)
(* events, Push drains a full buffer first, and each GET .../stream request *)
(* receives from the hub it found and deletes the registered one when it   *)
(* ends. A step is one mutex-protected lookup, one channel operation, or   *)
(* one test of the drain loop, so that a receiver can run between the test *)
(* `len(h.ch) > 0` and the receive of `<-h.ch`.                            *)
(***************************************************************************)
EXTENDS Naturals, Sequences, FiniteSets

CONSTANTS
    Producers,   \* goroutines of Service.Run (and of RunSubAgent)
    Streams,     \* GET /conversations/:id/stream requests
    Script,      \* per producer: the kinds of the events it pushes, in order
    Cap,         \* capacity of a hub's channel (256 in the code)
    MaxHubs,     \* bound on hubs; no lookup is refused if it is their number
    None

Kinds   == {"block_delta", "approval_requested", "thread_status", "round_done",
            "queue_drained"}
Pos(p)  == DOMAIN Script[p]
Events  == {<<p, i>> : p \in Producers, i \in UNION {Pos(q) : q \in Producers}}
Kind(e) == Script[e[1]][e[2]]

ASSUME ScriptAssumption ==
    /\ Cap \in Nat \ {0}
    /\ MaxHubs \in Nat
    /\ None \notin Producers \cup Streams \cup 1..MaxHubs
    /\ \A p \in Producers : Script[p] \in Seq(Kinds)

\* Every hub ever made has a number.
Hubs == 1..MaxHubs

VARIABLES
    current,   \* r.hubs[convID], or None
    made,      \* how many hubs were made so far
    regLock,   \* who holds r.mu across more than one step
    ch,        \* per hub: the channel's buffer
    closed,    \* per hub
    hubLock,   \* per hub: who holds h.mu across more than one step
    pc,        \* per producer: idle, next, push, drain, recv, done
    hub,       \* per producer: the hub its run was given
    target,    \* per producer: the hub of the push under way
    at,        \* per producer: index of the next event in its script
    spc,       \* per stream: idle, open, del1, del1x, del2, del2x, ended
    shub,      \* per stream: the hub it receives from
    got,       \* per stream: what it received
    why,       \* per stream: why its loop ended
    discarded  \* events thrown away by a drain, each with the producer that drained

regVars  == <<current, made, regLock>>
prodVars == <<pc, hub, target, at>>
strVars  == <<spc, shub, got, why>>
vars == <<regVars, ch, closed, hubLock, prodVars, strVars, discarded>>

Init ==
    /\ current = None /\ made = 0 /\ regLock = None
    /\ ch = [h \in Hubs |-> <<>>]
    /\ closed = [h \in Hubs |-> FALSE]
    /\ hubLock = [h \in Hubs |-> None]
    /\ pc = [p \in Producers |-> "idle"]
    /\ hub = [p \in Producers |-> None]
    /\ target = [p \in Producers |-> None]
    /\ at = [p \in Producers |-> 1]
    /\ spc = [s \in Streams |-> "idle"]
    /\ shub = [s \in Streams |-> None]
    /\ got = [s \in Streams |-> <<>>]
    /\ why = [s \in Streams |-> "none"]
    /\ discarded = {}

-----------------------------------------------------------------------------
(* The registry. *)

\* GetOrCreate: the hub it returns, and what it does to the registry.
Found == IF current = None THEN made + 1 ELSE current
GetOrCreate ==
    /\ regLock = None
    /\ Found \in Hubs
    /\ current' = Found
    /\ made' = IF current = None THEN made + 1 ELSE made
    /\ UNCHANGED regLock

-----------------------------------------------------------------------------
(* Producers: Send (or Report) looks the hub up and starts the run. *)

StartRun(p) ==
    /\ pc[p] = "idle"
    /\ GetOrCreate
    /\ hub' = [hub EXCEPT ![p] = Found]
    /\ pc' = [pc EXCEPT ![p] = "next"]
    /\ UNCHANGED <<ch, closed, hubLock, target, at, strVars, discarded>>

\* Push on the run's hub; the approval hook's push looks the hub up again.
PushCall(p) ==
    /\ pc[p] = "next" /\ at[p] \in Pos(p)
    /\ IF Script[p][at[p]] = "approval_requested"
       THEN GetOrCreate /\ target' = [target EXCEPT ![p] = Found]
       ELSE UNCHANGED regVars /\ target' = [target EXCEPT ![p] = hub[p]]
    /\ pc' = [pc EXCEPT ![p] = "push"]
    /\ UNCHANGED <<ch, closed, hubLock, hub, at, strVars, discarded>>

\* Seeded faults (M_...) precede the definition they would replace.
M_Enqueue(q, e) == <<e>> \o q
Enqueue(q, e) == Append(q, e)

M_IsFull(h) == Len(ch[h]) > Cap
IsFull(h) == Len(ch[h]) = Cap

\* Push with room in the buffer, or on a closed hub: one critical section.
PushNow(p) ==
    LET h == target[p] IN
    /\ pc[p] = "push" /\ hubLock[h] = None
    /\ \/ closed[h] /\ UNCHANGED ch
       \/ /\ ~closed[h] /\ ~IsFull(h)
          /\ ch' = [ch EXCEPT ![h] = Enqueue(@, <<p, at[p]>>)]
    /\ at' = [at EXCEPT ![p] = @ + 1]
    /\ pc' = [pc EXCEPT ![p] = "next"]
    /\ UNCHANGED <<regVars, closed, hubLock, hub, target, strVars, discarded>>

\* Push on a full buffer keeps h.mu and drains.
PushFull(p) ==
    LET h == target[p] IN
    /\ pc[p] = "push" /\ hubLock[h] = None
    /\ ~closed[h] /\ IsFull(h)
    /\ hubLock' = [hubLock EXCEPT ![h] = p]
    /\ pc' = [pc EXCEPT ![p] = "drain"]
    /\ UNCHANGED <<regVars, ch, closed, hub, target, at, strVars, discarded>>

\* for len(h.ch) > 0 { ... }: the test that goes on.
DrainTest(p) ==
    /\ pc[p] = "drain" /\ ch[target[p]] # <<>>
    /\ pc' = [pc EXCEPT ![p] = "recv"]
    /\ UNCHANGED <<regVars, ch, closed, hubLock, hub, target, at, strVars, discarded>>

\* What a receive leaves in the buffer.
Taken(q) == Tail(q)

\* <-h.ch: blocks if a stream took the last event after the test.
DrainRecv(p) ==
    LET h == target[p] IN
    /\ pc[p] = "recv" /\ ch[h] # <<>>
    /\ discarded' = discarded \cup {<<Head(ch[h]), p>>}
    /\ ch' = [ch EXCEPT ![h] = Taken(@)]
    /\ pc' = [pc EXCEPT ![p] = "drain"]
    /\ UNCHANGED <<regVars, closed, hubLock, hub, target, at, strVars>>

\* The buffer is empty: send and unlock.
DrainSend(p) ==
    LET h == target[p] IN
    /\ pc[p] = "drain" /\ ch[h] = <<>>
    /\ ch' = [ch EXCEPT ![h] = Enqueue(@, <<p, at[p]>>)]
    /\ hubLock' = [hubLock EXCEPT ![h] = None]
    /\ at' = [at EXCEPT ![p] = @ + 1]
    /\ pc' = [pc EXCEPT ![p] = "next"]
    /\ UNCHANGED <<regVars, closed, hub, target, strVars, discarded>>

\* The run has pushed everything.
RunEnd(p) ==
    /\ pc[p] = "next" /\ at[p] \notin Pos(p)
    /\ pc' = [pc EXCEPT ![p] = "done"]
    /\ UNCHANGED <<regVars, ch, closed, hubLock, hub, target, at, strVars, discarded>>

-----------------------------------------------------------------------------
(* Stream requests. *)

Open(s) ==
    /\ spc[s] = "idle"
    /\ GetOrCreate
    /\ shub' = [shub EXCEPT ![s] = Found]
    /\ spc' = [spc EXCEPT ![s] = "open"]
    /\ UNCHANGED <<ch, closed, hubLock, prodVars, got, why, discarded>>

\* Receive an event; queue_drained ends the loop after a first Delete.
Receive(s) ==
    LET h == shub[s]
        e == Head(ch[h])
    IN  /\ spc[s] = "open" /\ ch[h] # <<>>
        /\ ch' = [ch EXCEPT ![h] = Taken(@)]
        /\ got' = [got EXCEPT ![s] = Append(@, e)]
        /\ IF Kind(e) = "queue_drained"
           THEN /\ spc' = [spc EXCEPT ![s] = "del1"]
                /\ why' = [why EXCEPT ![s] = "queue_drained"]
           ELSE UNCHANGED <<spc, why>>
        /\ UNCHANGED <<regVars, closed, hubLock, prodVars, shub, discarded>>

\* The channel was closed and holds nothing more.
SeeClosed(s) ==
    /\ spc[s] = "open" /\ closed[shub[s]] /\ ch[shub[s]] = <<>>
    /\ spc' = [spc EXCEPT ![s] = "del2"]
    /\ why' = [why EXCEPT ![s] = "closed"]
    /\ UNCHANGED <<regVars, ch, closed, hubLock, prodVars, shub, got, discarded>>

\* The client goes away: Request.Context().Done().
Disconnect(s) ==
    /\ spc[s] = "open"
    /\ spc' = [spc EXCEPT ![s] = "del2"]
    /\ why' = [why EXCEPT ![s] = "disconnect"]
    /\ UNCHANGED <<regVars, ch, closed, hubLock, prodVars, shub, got, discarded>>

AfterDelete(l) == IF l = "del1" THEN "del2" ELSE "ended"
Held(l) == IF l = "del1" THEN "del1x" ELSE "del2x"

\* registry.Delete(convID): take r.mu; nothing registered is nothing to do.
DeleteLock(s) ==
    /\ spc[s] \in {"del1", "del2"} /\ regLock = None
    /\ IF current = None
       THEN spc' = [spc EXCEPT ![s] = AfterDelete(@)] /\ UNCHANGED regLock
       ELSE spc' = [spc EXCEPT ![s] = Held(@)] /\ regLock' = s
    /\ UNCHANGED <<current, made, ch, closed, hubLock, prodVars, shub, got, why, discarded>>

M_CanClose(h) == TRUE
CanClose(h) == hubLock[h] = None

M_ClosedByDelete == closed
ClosedByDelete == [closed EXCEPT ![current] = TRUE]

\* h.Close() waits for h.mu while r.mu is held; then the entry goes.
DeleteClose(s) ==
    /\ spc[s] \in {"del1x", "del2x"} /\ regLock = s
    /\ CanClose(current)
    /\ closed' = ClosedByDelete
    /\ current' = None
    /\ regLock' = None
    /\ spc' = [spc EXCEPT ![s] = IF @ = "del1x" THEN "del2" ELSE "ended"]
    /\ UNCHANGED <<made, ch, hubLock, prodVars, shub, got, why, discarded>>

-----------------------------------------------------------------------------

Quiescent ==
    /\ \A p \in Producers : pc[p] = "done"
    /\ \A s \in Streams : spc[s] = "ended"
    /\ UNCHANGED vars

Produce(p) ==
    \/ PushCall(p) \/ PushNow(p) \/ PushFull(p) \/ DrainTest(p) \/ DrainRecv(p)
    \/ DrainSend(p) \/ RunEnd(p)

Serve(s) == Receive(s) \/ SeeClosed(s) \/ DeleteLock(s) \/ DeleteClose(s)

Next ==
    \/ \E p \in Producers : StartRun(p) \/ Produce(p)
    \/ \E s \in Streams : Open(s) \/ Serve(s) \/ Disconnect(s)
    \/ Quiescent

Spec == Init /\ [][Next]_vars

\* Goroutines that can move do; r.mu and h.mu are handed to a waiter in the end
\* (Go's mutex has a starvation mode). Clients need not connect or leave.
Fairness ==
    /\ \A p \in Producers : SF_vars(Produce(p))
    /\ \A s \in Streams : SF_vars(Serve(s))

FairSpec == Spec /\ Fairness

-----------------------------------------------------------------------------
(* Properties. *)

\* Every variable has its type, and no buffer exceeds its capacity.
TypeOK ==
    /\ current \in Hubs \cup {None}
    /\ made \in 0..MaxHubs
    /\ regLock \in Streams \cup {None}
    /\ ch \in [Hubs -> Seq(Events)] /\ \A h \in Hubs : Len(ch[h]) <= Cap
    /\ closed \in [Hubs -> BOOLEAN]
    /\ hubLock \in [Hubs -> Producers \cup {None}]
    /\ pc \in [Producers -> {"idle", "next", "push", "drain", "recv", "done"}]
    /\ hub \in [Producers -> Hubs \cup {None}]
    /\ target \in [Producers -> Hubs \cup {None}]
    /\ at \in [Producers -> Nat \ {0}]
    /\ spc \in [Streams -> {"idle", "open", "del1", "del1x", "del2", "del2x", "ended"}]
    /\ shub \in [Streams -> Hubs \cup {None}]
    /\ got \in [Streams -> Seq(Events)]
    /\ why \in [Streams -> {"none", "queue_drained", "closed", "disconnect"}]
    /\ discarded \in SUBSET (Events \X Producers)

\* No push can send on a closed channel (which would panic): while a producer is
\* between the closed test and its send, nobody closes that hub.
NoSendOnClosed ==
    \A p \in Producers : pc[p] \in {"drain", "recv"} => ~closed[target[p]]

\* At most one hub of the conversation is open, and it is the registered one: no
\* run or stream that looks a hub up now can miss what an open hub carries.
OneOpenHub ==
    \A h \in 1..made : ~closed[h] => h = current

\* The promise to clients (sse_test.go: "pushed events are received in order") as an
\* abstract specification: whatever is evicted, and whichever hub carries it, an event
\* is received at most once and in its producer's order.
Feed == INSTANCE EventFeed

FeedImplemented == Feed!Spec

\* A stream attached to the open hub that a run pushes to does end, unless the
\* buffer fills: the run's queue_drained, or a Delete by another stream, reaches it.
IsRun(p) == \E i \in Pos(p) : Script[p][i] = "queue_drained"
BufferFilled == discarded # {} \/ \E p \in Producers : pc[p] \in {"drain", "recv"}
StreamEnds ==
    \A s \in Streams, p \in Producers :
        (IsRun(p) /\ spc[s] = "open" /\ pc[p] \in {"next", "push"} /\ hub[p] = shub[s]
           /\ ~closed[shub[s]]) ~> (spc[s] = "ended" \/ BufferFilled)

\* sse_test.go: on a full buffer "Push drains it rather than blocking, so the new
\* event always lands": the receive of the drain loop always finds an event.
PushNeverBlocks ==
    \A p \in Producers : pc[p] = "recv" => ch[target[p]] # <<>>

\* The inductive invariant behind NoSendOnClosed and OneOpenHub: the registered hub is
\* the open one, a stream between the two steps of Delete holds r.mu and keeps it
\* registered, and a producer that drains holds the mutex of a hub that is open.
RegistryInv ==
    /\ current # None => current <= made /\ ~closed[current]
    /\ regLock # None => current # None
    /\ OneOpenHub
    /\ \A h \in Hubs : h > made => ~closed[h]

ProducerInv(p) ==
    /\ pc[p] # "idle" => hub[p] \in Hubs
    /\ pc[p] \in {"push", "drain", "recv"} => target[p] \in Hubs /\ at[p] \in Pos(p)
    /\ pc[p] \in {"drain", "recv"} => hubLock[target[p]] = p /\ ~closed[target[p]]

StreamInv(s) ==
    /\ spc[s] = "open" => shub[s] \in Hubs
    /\ regLock = s <=> spc[s] \in {"del1x", "del2x"}

IInv ==
    /\ TypeOK /\ RegistryInv
    /\ \A p \in Producers : ProducerInv(p)
    /\ \A s \in Streams : StreamInv(s)
=============================================================================
