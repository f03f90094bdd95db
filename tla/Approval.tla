------------------------------ MODULE Approval ------------------------------
(***************************************************************************)
(* Rounds of tool calls and their approval in ONE conversation: the loop of *)
(* dispatchToolsFromBlocks, ApprovalHook with its map of channels, the      *)
(* approvals table, the decision endpoint, and the audit goroutines. A     *)
(* round is one call of dispatchToolsFromBlocks; two of them are active at  *)
(* once when two runs of the conversation are. Block ids come from the LLM  *)
(* and are unique, so each block has one row and at most one channel.      *)
(*                                                                         *)
(* A step is one database statement, one operation on the sync.Map, or one *)
(* channel operation.                                                      *)
(***************************************************************************)
EXTENDS Naturals, Sequences, FiniteSets

CONSTANTS
    Rounds,      \* calls of dispatchToolsFromBlocks
    Blocks,      \* tool_use block ids
    HighRisk,    \* blocks that call write_file, edit_file or run_command
    Calls,       \* per round: its tool_use blocks, in the order of the message
    Deciders,    \* POST /conversations/:id/approvals/:block_id requests
    None,
    DBFaults,    \* may a database write be refused?
    MaxCrashes   \* bound on process crashes

Decisions == {"approved", "rejected"}
\* What a request's body may ask for.
Bodies    == Decisions \cup {"postponed"}

ASSUME CallsAssumption ==
    /\ HighRisk \subseteq Blocks
    /\ Calls \in [Rounds -> Seq(Blocks)]
    /\ \A r, q \in Rounds : \A i \in DOMAIN Calls[r], j \in DOMAIN Calls[q] :
          Calls[r][i] = Calls[q][j] => r = q /\ i = j
    /\ None \notin Blocks
    /\ DBFaults \in BOOLEAN
    /\ MaxCrashes \in Nat

VARIABLES
    pc,        \* where each round is
    at,        \* per round: index of the current call
    rs,        \* per round: what its RoundApprovalState has set
    verdict,   \* per round: FirePre's answer for the current call
    row,       \* approvals.status per block, "none" if there is no row
    reg,       \* blocks with an entry in h.channels
    buf,       \* per block: what is in its channel (capacity 1)
    outcome,   \* per block: what the call came to
    post,      \* blocks whose RunPost goroutine has not written yet
    audit,     \* audit_logs.success per block
    dpc,       \* where each decision request is
    dblk,      \* per request: the block it decides
    ddec,      \* per request: the decision in its body
    crashes

roundVars  == <<pc, at, rs, verdict>>
hookVars   == <<row, reg, buf>>
auditVars  == <<post, audit>>
decideVars == <<dpc, dblk, ddec>>
vars == <<roundVars, hookVars, outcome, auditVars, decideVars, crashes>>

RoundPcs == {"idle", "pick", "store", "push", "select", "leave", "call",
             "done", "failed"}
InRound  == RoundPcs \ {"idle", "done", "failed"}

Init ==
    /\ pc = [r \in Rounds |-> "idle"]
    /\ at = [r \in Rounds |-> 1]
    /\ rs = [r \in Rounds |-> {}]
    /\ verdict = [r \in Rounds |-> "none"]
    /\ row = [b \in Blocks |-> "none"]
    /\ reg = {}
    /\ buf = [b \in Blocks |-> "none"]
    /\ outcome = [b \in Blocks |-> "none"]
    /\ post = {}
    /\ audit = [b \in Blocks |-> "none"]
    /\ dpc = [d \in Deciders |-> "idle"]
    /\ dblk = [d \in Deciders |-> None]
    /\ ddec = [d \in Deciders |-> "none"]
    /\ crashes = 0

Goto(r, l) == pc' = [pc EXCEPT ![r] = l]
More(r)    == at[r] \in DOMAIN Calls[r]
Cur(r)     == Calls[r][at[r]]

-----------------------------------------------------------------------------
(* The loop of dispatchToolsFromBlocks and ApprovalHook.RunPre. *)

\* Persist the assistant message, then start the loop with a fresh round state.
Begin(r) ==
    /\ pc[r] = "idle"
    /\ \/ Goto(r, "pick")
       \/ DBFaults /\ Goto(r, "failed")
    /\ UNCHANGED <<at, rs, verdict, hookVars, outcome, auditVars, decideVars,
                   crashes>>

\* RunPre without a prompt: the tool is not high-risk, or the round is decided.
\* Seeded faults (M_...) precede the definition they would replace.
Settled(b, state) == b \notin HighRisk \/ state # {}
M_Allowed(b, state) == b \notin HighRisk \/ state # {}
Allowed(b, state) == b \notin HighRisk \/ "rejected" \notin state

Pick(r) ==
    /\ pc[r] = "pick" /\ More(r)
    /\ Settled(Cur(r), rs[r])
    /\ verdict' = [verdict EXCEPT ![r] =
                     IF Allowed(Cur(r), rs[r]) THEN "allow" ELSE "deny"]
    /\ Goto(r, "call")
    /\ UNCHANGED <<at, rs, hookVars, outcome, auditVars, decideVars, crashes>>

\* RunPre with a prompt: insert the pending row; fail closed.
Create(r) ==
    /\ pc[r] = "pick" /\ More(r)
    /\ ~Settled(Cur(r), rs[r])
    /\ \/ /\ row' = [row EXCEPT ![Cur(r)] = "pending"]
          /\ Goto(r, "store")
          /\ UNCHANGED verdict
       \/ /\ DBFaults
          /\ verdict' = [verdict EXCEPT ![r] = "deny"]
          /\ Goto(r, "call")
          /\ UNCHANGED row
    /\ UNCHANGED <<at, rs, reg, buf, outcome, auditVars, decideVars, crashes>>

Store(r) ==
    /\ pc[r] = "store"
    /\ reg' = reg \cup {Cur(r)}
    /\ Goto(r, "push")
    /\ UNCHANGED <<at, rs, verdict, row, buf, outcome, auditVars, decideVars,
                   crashes>>

\* approval_requested goes out; the hub is modelled in SSEHub.
Push(r) ==
    /\ pc[r] = "push"
    /\ Goto(r, "select")
    /\ UNCHANGED <<at, rs, verdict, hookVars, outcome, auditVars, decideVars,
                   crashes>>

\* What a decision (or the timeout's rejection) adds to the round state.
M_RoundAfter(state, decision) == IF decision = "approved" THEN {decision} ELSE state
RoundAfter(state, decision) == state \cup {decision}

\* case approved := <-ch
Hear(r) ==
    LET decision == buf[Cur(r)] IN
    /\ pc[r] = "select" /\ decision # "none"
    /\ buf' = [buf EXCEPT ![Cur(r)] = "none"]
    /\ rs' = [rs EXCEPT ![r] = RoundAfter(@, decision)]
    /\ verdict' = [verdict EXCEPT ![r] =
                     IF decision = "approved" THEN "allow" ELSE "deny"]
    /\ Goto(r, "leave")
    /\ UNCHANGED <<at, row, reg, outcome, auditVars, decideVars, crashes>>

\* case <-time.After(approvalTimeout); select may take it although a decision
\* has arrived too. The row keeps its status.
M_Timeout(r) == FALSE
Timeout(r) ==
    /\ pc[r] = "select"
    /\ rs' = [rs EXCEPT ![r] = RoundAfter(@, "rejected")]
    /\ verdict' = [verdict EXCEPT ![r] = "deny"]
    /\ Goto(r, "leave")
    /\ UNCHANGED <<at, hookVars, outcome, auditVars, decideVars, crashes>>

\* The deferred h.channels.Delete(blockID).
M_Unregister(b) == reg
Unregister(b) == reg \ {b}

Leave(r) ==
    /\ pc[r] = "leave"
    /\ reg' = Unregister(Cur(r))
    /\ Goto(r, "call")
    /\ UNCHANGED <<at, rs, verdict, row, buf, outcome, auditVars, decideVars,
                   crashes>>

\* What a call that FirePre answered can come to: a denied one is not made;
\* others return a result or an error. (An unknown tool's text is a result.)
CallOutcomes(v) == IF v = "deny" THEN {"denied"} ELSE {"ran", "failed"}

\* Make the call, append its result, fire the post hooks, go on.
Call(r) ==
    /\ pc[r] = "call"
    /\ \E o \in CallOutcomes(verdict[r]) :
          outcome' = [outcome EXCEPT ![Cur(r)] = o]
    /\ post' = post \cup {Cur(r)}
    /\ at' = [at EXCEPT ![r] = @ + 1]
    /\ verdict' = [verdict EXCEPT ![r] = "none"]
    /\ Goto(r, "pick")
    /\ UNCHANGED <<rs, hookVars, audit, decideVars, crashes>>

\* Persist all results in one user message.
PersistResults(r) ==
    /\ pc[r] = "pick" /\ ~More(r)
    /\ \/ Goto(r, "done")
       \/ DBFaults /\ Goto(r, "failed")
    /\ UNCHANGED <<at, rs, verdict, hookVars, outcome, auditVars, decideVars,
                   crashes>>

\* IsError of the tool_result: preErr != nil || toolErr != nil, and toolErr was
\* reset to nil by then, whatever the call returned. The audit hook gets the same errors.
IsError(b) == outcome[b] = "denied"
M_AuditOf(b) == "success"
AuditOf(b) == IF IsError(b) THEN "failure" ELSE "success"

\* AuditHook.RunPost in its goroutine; a refused insert is dropped.
RunPost(b) ==
    /\ b \in post
    /\ post' = post \ {b}
    /\ \/ audit' = [audit EXCEPT ![b] = AuditOf(b)]
       \/ DBFaults /\ UNCHANGED audit
    /\ UNCHANGED <<roundVars, hookVars, outcome, decideVars, crashes>>

-----------------------------------------------------------------------------
(* ApprovalHandler.Decide and ApprovalHook.Signal. *)

\* Rows the UPDATE ... WHERE status = 'pending' affects.
M_Affected(b) == row[b] # "none"
Affected(b) == row[b] = "pending"

\* The body's decision must be one of the two.
M_Valid(decision) == TRUE
Valid(decision) == decision \in Decisions

Decide(d, b, decision) ==
    /\ dpc[d] = "idle" /\ Valid(decision) /\ Affected(b)
    /\ row' = [row EXCEPT ![b] = decision]
    /\ dpc' = [dpc EXCEPT ![d] = "load"]
    /\ dblk' = [dblk EXCEPT ![d] = b]
    /\ ddec' = [ddec EXCEPT ![d] = decision]
    /\ UNCHANGED <<roundVars, reg, buf, outcome, auditVars, crashes>>

\* 400: no such decision; 404: no row is affected; 500: the update is refused.
DecideFails(d, b, decision) ==
    /\ dpc[d] = "idle"
    /\ ~Valid(decision) \/ ~Affected(b) \/ DBFaults
    /\ dpc' = [dpc EXCEPT ![d] = "done"]
    /\ UNCHANGED <<roundVars, hookVars, outcome, auditVars, dblk, ddec, crashes>>

\* Signal: h.channels.Load(blockID); nobody registered means nobody is told.
SignalLoad(d) ==
    /\ dpc[d] = "load"
    /\ dpc' = [dpc EXCEPT ![d] = IF dblk[d] \in reg THEN "send" ELSE "done"]
    /\ UNCHANGED <<roundVars, hookVars, outcome, auditVars, dblk, ddec, crashes>>

\* Signal: a send that does not block.
SignalSend(d) ==
    /\ dpc[d] = "send"
    /\ IF buf[dblk[d]] = "none"
       THEN buf' = [buf EXCEPT ![dblk[d]] = ddec[d]]
       ELSE UNCHANGED buf
    /\ dpc' = [dpc EXCEPT ![d] = "done"]
    /\ UNCHANGED <<roundVars, row, reg, outcome, auditVars, dblk, ddec, crashes>>

-----------------------------------------------------------------------------

\* The process dies and starts again: goroutines and channels are gone, rows stay.
Crash ==
    /\ crashes < MaxCrashes
    /\ crashes' = crashes + 1
    /\ pc' = [r \in Rounds |-> IF pc[r] \in InRound THEN "failed" ELSE pc[r]]
    /\ verdict' = [r \in Rounds |-> "none"]
    /\ reg' = {}
    /\ buf' = [b \in Blocks |-> "none"]
    /\ post' = {}
    /\ dpc' = [d \in Deciders |-> IF dpc[d] = "idle" THEN "idle" ELSE "done"]
    /\ UNCHANGED <<at, rs, row, outcome, audit, dblk, ddec>>

\* Every round is over; what decisions come then finds no waiter.
Quiescent ==
    /\ \A r \in Rounds : pc[r] \in {"done", "failed"}
    /\ post = {}
    /\ UNCHANGED vars

RoundStep(r) ==
    \/ Pick(r) \/ Create(r) \/ Store(r) \/ Push(r) \/ Hear(r)
    \/ Timeout(r) \/ Leave(r) \/ Call(r) \/ PersistResults(r)

DecideStep(d) ==
    \/ \E b \in HighRisk, decision \in Bodies :
          Decide(d, b, decision) \/ DecideFails(d, b, decision)
    \/ SignalLoad(d) \/ SignalSend(d)

Next ==
    \/ \E r \in Rounds : Begin(r) \/ RoundStep(r)
    \/ \E b \in Blocks : RunPost(b)
    \/ \E d \in Deciders : DecideStep(d)
    \/ Crash
    \/ Quiescent

Spec == Init /\ [][Next]_vars

\* The scheduler runs the round's goroutine and the timer of select fires. That the push of
\* the request returns (SSEHub tells when it does not) and that tool calls do is assumed:
\* the code gives neither a time limit. Users need not decide.
Fairness ==
    \A r \in Rounds : WF_vars(RoundStep(r))

FairSpec == Spec /\ Fairness

-----------------------------------------------------------------------------
(* Properties. *)

\* Every variable has its type.
TypeOK ==
    /\ pc \in [Rounds -> RoundPcs]
    /\ at \in [Rounds -> Nat \ {0}]
    /\ rs \in [Rounds -> SUBSET Decisions]
    /\ verdict \in [Rounds -> {"none", "allow", "deny"}]
    /\ row \in [Blocks -> Decisions \cup {"none", "pending"}]
    /\ reg \subseteq Blocks
    /\ buf \in [Blocks -> Decisions \cup {"none"}]
    /\ outcome \in [Blocks -> {"none", "ran", "failed", "denied"}]
    /\ post \subseteq Blocks
    /\ audit \in [Blocks -> {"none", "success", "failure"}]
    /\ dpc \in [Deciders -> {"idle", "load", "send", "done"}]
    /\ dblk \in [Deciders -> Blocks \cup {None}]
    /\ ddec \in [Deciders -> Decisions \cup {"none"}]
    /\ crashes \in 0..MaxCrashes

Made(b) == outcome[b] \in {"ran", "failed"}

\* One of the first n calls of round r has an approved row.
ApprovedBy(r, n) == \E j \in DOMAIN Calls[r] : j <= n /\ row[Calls[r][j]] = "approved"

\* A high-risk tool is only called if the database holds the user's approval of
\* that call or of an earlier one of the same round, whatever decisions race,
\* time out, fail or are cut off by a crash.
RiskIn(r) ==
    \A i \in DOMAIN Calls[r] :
        Calls[r][i] \in HighRisk /\ Made(Calls[r][i]) => ApprovedBy(r, i)
RiskNeedsApproval == \A r \in Rounds : RiskIn(r)

\* Once a prompt of the round ended in a denial (rejected or timed out), no later
\* high-risk call of the round is made.
RejectionIn(r) ==
    \A i, j \in DOMAIN Calls[r] :
        /\ i < j
        /\ Calls[r][j] \in HighRisk
        /\ row[Calls[r][i]] # "none" /\ outcome[Calls[r][i]] = "denied"
        => ~Made(Calls[r][j])
RejectionStopsRound == \A r \in Rounds : RejectionIn(r)

\* The user is asked at most once per round (ph5: "a single decision point per
\* round rather than one prompt per tool").
OnePromptIn(r) ==
    \A i, j \in DOMAIN Calls[r] :
        row[Calls[r][i]] # "none" /\ row[Calls[r][j]] # "none" => i = j
OnePromptPerRound == \A r \in Rounds : OnePromptIn(r)

\* A recorded decision is never overwritten, by a second request or otherwise.
DecisionFinal ==
    [][\A b \in Blocks : row[b] \in Decisions => row'[b] = row[b]]_vars

\* The promise of ph5-approval (one decision per round, none overwritten, nothing
\* made that was not granted) as an abstract specification, which the hook, its
\* channels, its timer and the decision endpoint implement.
Phase(r) ==
    IF pc[r] \in {"done", "failed"} THEN "over"
    ELSE IF pc[r] \in {"store", "push", "select"} THEN "asked"
    ELSE IF rs[r] = {} THEN "open"
    ELSE IF "rejected" \in rs[r] THEN "refused" ELSE "granted"
Fate(b) == IF Made(b) THEN "made" ELSE outcome[b]

Gate == INSTANCE ApprovalGate WITH
    phase <- [r \in Rounds |-> Phase(r)],
    next  <- at,
    fate  <- [b \in Blocks |-> Fate(b)]

GateImplemented == Gate!Spec

\* Invariant F, database first: a decision in a channel, and a decision a round
\* acts upon, is the one the row holds; a timeout adds only rejections.
DatabaseFirst ==
    /\ \A b \in Blocks : buf[b] # "none" => row[b] = buf[b]
    /\ \A r \in Rounds : "approved" \in rs[r] => ApprovedBy(r, at[r])

\* h.channels holds a channel only while the round that made it is in RunPre: no
\* entry is left behind by a decision, a timeout or a crash.
ChannelsReleased ==
    \A b \in reg : \E r \in Rounds :
        pc[r] \in {"push", "select", "leave"} /\ Cur(r) = b

\* A round always ends, even if no user ever decides, if its push and its tools return.
RoundEnds == \A r \in Rounds : pc[r] = "pick" ~> pc[r] \in {"done", "failed"}

\* What audit_logs holds as a success, approvals granted: the call was made, and a
\* high-risk one has its approval, whatever is lost on the way to either table. (The
\* converse is not so: an error of the call itself is audited as a success.)
AuditIn(r) ==
    \A i \in DOMAIN Calls[r] :
        LET b == Calls[r][i]
        IN  audit[b] = "success" => Made(b) /\ (b \in HighRisk => ApprovedBy(r, i))
AuditMatchesApprovals == \A r \in Rounds : AuditIn(r)

\* The inductive invariant behind RiskNeedsApproval, RejectionStopsRound and
\* OnePromptPerRound.
Asking == {"store", "push", "select", "leave"}

HookInv ==
    /\ \A d \in Deciders : dpc[d] \in {"load", "send"} =>
          dblk[d] \in Blocks /\ row[dblk[d]] = ddec[d] /\ ddec[d] \in Decisions
    /\ \A b \in Blocks : buf[b] # "none" => row[b] = buf[b]
    /\ \A b \in Blocks : row[b] # "none" => b \in HighRisk

RoundInv(r) ==
    /\ pc[r] \in Asking \cup {"call"} => More(r)
    /\ pc[r] \in Asking => Cur(r) \in HighRisk /\ row[Cur(r)] # "none"
    /\ pc[r] \in {"store", "push", "select"} => rs[r] = {}
    /\ pc[r] = "leave" => rs[r] # {}
    /\ "approved" \in rs[r] => rs[r] = {"approved"} /\ ApprovedBy(r, at[r])
    /\ pc[r] \in {"leave", "call"} =>
          /\ verdict[r] \in {"allow", "deny"}
          /\ Cur(r) \in HighRisk => (verdict[r] = "allow" <=> rs[r] = {"approved"})
    /\ \A i \in DOMAIN Calls[r] :
          /\ row[Calls[r][i]] # "none" =>
                /\ i <= at[r]
                /\ i = at[r] => pc[r] \in Asking \cup {"call", "failed"}
                /\ rs[r] # {} \/ pc[r] \in Asking \cup {"failed"}
                /\ i < at[r] => rs[r] # {}
          /\ outcome[Calls[r][i]] # "none" => i < at[r]
          /\ row[Calls[r][i]] # "none" /\ outcome[Calls[r][i]] = "denied"
                => rs[r] = {"rejected"}
    /\ RiskIn(r) /\ RejectionIn(r) /\ OnePromptIn(r)

IInv == TypeOK /\ HookInv /\ \A r \in Rounds : RoundInv(r)

\* Together with it, the invariant behind AuditMatchesApprovals.
AuditInv ==
    \A b \in Blocks :
        /\ b \in post => outcome[b] # "none"
        /\ audit[b] # "none" => outcome[b] # "none" /\ audit[b] = AuditOf(b)
=============================================================================
