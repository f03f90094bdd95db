------------------------------ MODULE EventFeed ------------------------------
(***************************************************************************)
(* What the clients of a conversation may rely on, without hubs, buffers   *)
(* and locks: every producer emits its events in order; each event reaches *)
(* at most one client, and what one client gets of a producer comes in the *)
(* order it was emitted, possibly with gaps. SSEHub is shown to implement  *)
(* this specification: no eviction of a full buffer, no hub that is closed *)
(* under its producers and no second hub may duplicate or reorder events.  *)
(***************************************************************************)
EXTENDS Naturals, Sequences

CONSTANTS
    Producers,
    Streams

VARIABLES
    at,        \* per producer: index of the event it emits next
    got        \* per client: the events it got, each with its producer and index

vars == <<at, got>>

Init ==
    /\ at = [p \in Producers |-> 1]
    /\ got = [s \in Streams |-> <<>>]

Emit(p) ==
    /\ at' = [at EXCEPT ![p] = @ + 1]
    /\ UNCHANGED got

Delivered(e) == \E s \in Streams : \E i \in DOMAIN got[s] : got[s][i] = e

Deliver(s, p, n) ==
    /\ n < at[p]
    /\ ~Delivered(<<p, n>>)
    /\ \A i \in DOMAIN got[s] : got[s][i][1] = p => got[s][i][2] < n
    /\ got' = [got EXCEPT ![s] = Append(@, <<p, n>>)]
    /\ UNCHANGED at

Next ==
    \/ \E p \in Producers : Emit(p)
    \/ \E s \in Streams, p \in Producers : \E n \in 1..(at[p] - 1) : Deliver(s, p, n)

Spec == Init /\ [][Next]_vars
=============================================================================
