---------------------------- MODULE ApprovalGate ----------------------------
(***************************************************************************)
(* What the approval hook promises, without channels, timers or requests:  *)
(* a round of calls asks its user at most once, at its first high-risk     *)
(* call; a granted round makes its high-risk calls from there on, a        *)
(* refused one makes none of them. Approval is shown to implement this     *)
(* specification.                                                          *)
(***************************************************************************)
EXTENDS Naturals, Sequences

CONSTANTS
    Rounds,     \* rounds of tool calls
    Blocks,     \* the calls
    HighRisk,   \* the calls that need the user's approval
    Calls       \* per round: its calls, in order

VARIABLES
    phase,      \* per round: open, asked, granted, refused, over
    next,       \* per round: index of the call it has come to
    row,        \* per call: what the database holds
    fate        \* per call: none, made, denied

vars == <<phase, next, row, fate>>

Decisions == {"approved", "rejected"}

Init ==
    /\ phase = [r \in Rounds |-> "open"]
    /\ next = [r \in Rounds |-> 1]
    /\ row = [b \in Blocks |-> "none"]
    /\ fate = [b \in Blocks |-> "none"]

Here(r, b) == next[r] \in DOMAIN Calls[r] /\ Calls[r][next[r]] = b

\* The user is asked: only by a round that has not asked before.
Ask(r, b) ==
    /\ phase[r] = "open" /\ Here(r, b) /\ b \in HighRisk
    /\ row[b] = "none"
    /\ row' = [row EXCEPT ![b] = "pending"]
    /\ phase' = [phase EXCEPT ![r] = "asked"]
    /\ UNCHANGED <<next, fate>>

\* The user decides, once per question.
Decide(b, decision) ==
    /\ row[b] = "pending"
    /\ row' = [row EXCEPT ![b] = decision]
    /\ UNCHANGED <<phase, next, fate>>

\* The round learns the answer that the database holds, or has waited enough.
Conclude(r, b, p) ==
    /\ phase[r] = "asked" /\ Here(r, b)
    /\ p = "granted" => row[b] = "approved"
    /\ phase' = [phase EXCEPT ![r] = p]
    /\ UNCHANGED <<next, row, fate>>

\* A call is made if it is harmless or its round is granted, and denied if it is
\* high-risk and its round is not.
Make(r, b) ==
    /\ phase[r] \in {"open", "granted", "refused"} /\ Here(r, b)
    /\ b \notin HighRisk \/ phase[r] = "granted"
    /\ fate' = [fate EXCEPT ![b] = "made"]
    /\ next' = [next EXCEPT ![r] = @ + 1]
    /\ UNCHANGED <<phase, row>>

Deny(r, b) ==
    /\ phase[r] \in {"open", "refused"} /\ Here(r, b)
    /\ b \in HighRisk
    /\ fate' = [fate EXCEPT ![b] = "denied"]
    /\ next' = [next EXCEPT ![r] = @ + 1]
    /\ UNCHANGED <<phase, row>>

\* The round has made its calls, or was cut off.
Finish(R) ==
    /\ phase' = [r \in Rounds |-> IF r \in R THEN "over" ELSE phase[r]]
    /\ UNCHANGED <<next, row, fate>>

Next ==
    \/ \E r \in Rounds, b \in Blocks :
          \/ Ask(r, b) \/ Make(r, b) \/ Deny(r, b)
          \/ \E p \in {"granted", "refused"} : Conclude(r, b, p)
    \/ \E b \in Blocks, decision \in Decisions : Decide(b, decision)
    \/ \E R \in SUBSET Rounds : Finish(R)

Spec == Init /\ [][Next]_vars
=============================================================================
