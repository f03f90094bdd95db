------------------------------ MODULE MCSSEHub ------------------------------
(* Small instances of SSEHub: the scripts of the producers. *)
EXTENDS SSEHub, TLC

CONSTANTS p1, p2

\* One run that streams a delta, asks for an approval and ends.
OneRun == p1 :> <<"block_delta", "approval_requested", "round_done", "queue_drained">>

\* A run that asks for an approval, and a subagent's last event.
RunAndSub == p1 :> <<"block_delta", "approval_requested", "queue_drained">>
          @@ p2 :> <<"thread_status">>
=============================================================================
