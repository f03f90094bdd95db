----------------------------- MODULE MCApproval -----------------------------
(* Small instances of Approval for TLC. *)
EXTENDS Approval, TLC

CONSTANTS r1, w1, x1, w2

\* A round that writes, runs a harmless tool and writes again.
OneRound == r1 :> <<w1, x1, w2>>
=============================================================================
