--------------------------- MODULE ApprovalProofs ---------------------------
(***************************************************************************)
(* Theorems about Approval, for any rounds, calls and decision requests,   *)
(* with refused writes and crashes: no high-risk tool is called without an *)
(* approved row, a denial stops the round, one prompt per round, and a     *)
(* decision is final; and Approval implements ApprovalGate.                *)
(***************************************************************************)
EXTENDS Approval, TLAPS

\* Indices of calls are positive naturals, and calls are blocks.
LEMMA CallFacts ==
    ASSUME NEW r \in Rounds
    PROVE  /\ DOMAIN Calls[r] \subseteq Nat \ {0}
           /\ \A i \in DOMAIN Calls[r] : Calls[r][i] \in Blocks
<1>1. Calls[r] \in Seq(Blocks)
  BY CallsAssumption
<1> QED
  BY <1>1

\* A block has one position in one round.
LEMMA UniqueCall ==
    ASSUME NEW r \in Rounds, NEW q \in Rounds,
           NEW i \in DOMAIN Calls[r], NEW j \in DOMAIN Calls[q],
           Calls[r][i] = Calls[q][j]
    PROVE  r = q /\ i = j
BY CallsAssumption

LEMMA InitTypeOK == Init => TypeOK
BY CallsAssumption DEF Init, TypeOK, RoundPcs, Decisions

\* The current call of a round that works on one is a block.
LEMMA CurBlock ==
    ASSUME NEW r \in Rounds, RoundInv(r),
           pc[r] \in {"store", "push", "select", "leave", "call"} \/ More(r)
    PROVE  /\ at[r] \in DOMAIN Calls[r]
           /\ Cur(r) = Calls[r][at[r]]
           /\ Cur(r) \in Blocks
BY CallFacts DEF RoundInv, Asking, More, Cur

LEMMA RoundTypeOK ==
    ASSUME TypeOK, NEW r \in Rounds, RoundInv(r), Begin(r) \/ RoundStep(r)
    PROVE  TypeOK'
<1> USE DEF TypeOK, RoundPcs, Decisions, Goto
<1>1. CASE Begin(r)
  BY <1>1 DEF Begin, hookVars, auditVars, decideVars
<1>2. CASE Pick(r)
  BY <1>2 DEF Pick, hookVars, auditVars, decideVars
<1>3. CASE Create(r)
  BY <1>3, CurBlock DEF Create, auditVars, decideVars
<1>4. CASE Store(r)
  BY <1>4, CurBlock DEF Store, auditVars, decideVars
<1>5. CASE Push(r)
  BY <1>5 DEF Push, hookVars, auditVars, decideVars
<1>6. CASE Hear(r)
  <2>1. Cur(r) \in Blocks /\ buf[Cur(r)] \in Decisions
    BY <1>6, CurBlock DEF Hear
  <2> QED
    BY <1>6, <2>1 DEF Hear, RoundAfter, auditVars, decideVars
<1>7. CASE Timeout(r)
  BY <1>7 DEF Timeout, RoundAfter, hookVars, auditVars, decideVars
<1>8. CASE Leave(r)
  BY <1>8 DEF Leave, Unregister, auditVars, decideVars
<1>9. CASE Call(r)
  <2>1. Cur(r) \in Blocks
    BY <1>9, CurBlock DEF Call
  <2>2. CallOutcomes(verdict[r]) \subseteq {"ran", "failed", "denied"}
    BY DEF CallOutcomes
  <2>3. PICK o \in CallOutcomes(verdict[r]) : outcome' = [outcome EXCEPT ![Cur(r)] = o]
    BY <1>9 DEF Call
  <2>4. outcome' \in [Blocks -> {"none", "ran", "failed", "denied"}]
    BY <2>2, <2>3
  <2> QED
    BY <1>9, <2>1, <2>4 DEF Call, hookVars, decideVars
<1>10. CASE PersistResults(r)
  BY <1>10 DEF PersistResults, hookVars, auditVars, decideVars
<1> QED
  BY <1>1, <1>2, <1>3, <1>4, <1>5, <1>6, <1>7, <1>8, <1>9, <1>10 DEF RoundStep

LEMMA RunPostTypeOK ==
    ASSUME TypeOK, NEW b \in Blocks, RunPost(b)
    PROVE  TypeOK'
<1>1. AuditOf(b) \in {"success", "failure"}
  BY DEF AuditOf
<1> QED
  BY <1>1 DEF TypeOK, RunPost, roundVars, hookVars, decideVars

LEMMA DecideTypeOK ==
    ASSUME TypeOK, HookInv, NEW d \in Deciders, DecideStep(d)
    PROVE  TypeOK'
<1> USE CallsAssumption DEF TypeOK, Decisions
<1>1. CASE \E b \in HighRisk, decision \in Bodies : DecideFails(d, b, decision)
  BY <1>1 DEF DecideFails, roundVars, hookVars, auditVars
<1>2. CASE \E b \in HighRisk, decision \in Bodies : Decide(d, b, decision)
  BY <1>2 DEF Decide, Valid, roundVars, auditVars
<1>3. CASE SignalLoad(d)
  BY <1>3 DEF SignalLoad, roundVars, hookVars, auditVars
<1>4. CASE SignalSend(d)
  <2>1. dblk[d] \in Blocks /\ ddec[d] \in Decisions
    BY <1>4 DEF SignalSend, HookInv
  <2>2. buf' = buf \/ buf' = [buf EXCEPT ![dblk[d]] = ddec[d]]
    BY <1>4 DEF SignalSend
  <2>3. buf' \in [Blocks -> Decisions \cup {"none"}]
    BY <2>1, <2>2
  <2> QED
    BY <1>4, <2>3 DEF SignalSend, roundVars, auditVars
<1> QED
  BY <1>1, <1>2, <1>3, <1>4 DEF DecideStep

LEMMA NextTypeOK == IInv /\ [Next]_vars => TypeOK'
<1> SUFFICES ASSUME IInv, [Next]_vars PROVE TypeOK'
  OBVIOUS
<1> USE DEF IInv
<1>1. ASSUME NEW r \in Rounds, Begin(r) \/ RoundStep(r) PROVE TypeOK'
  BY <1>1, RoundTypeOK
<1>2. ASSUME NEW b \in Blocks, RunPost(b) PROVE TypeOK'
  BY <1>2, RunPostTypeOK
<1>3. ASSUME NEW d \in Deciders, DecideStep(d) PROVE TypeOK'
  BY <1>3, DecideTypeOK
<1>4. CASE Crash
  <2>1. crashes' \in 0..MaxCrashes
    BY <1>4, CallsAssumption DEF Crash, TypeOK
  <2> QED
    BY <1>4, <2>1 DEF Crash, TypeOK, RoundPcs, InRound, Decisions
<1>5. CASE UNCHANGED vars
  BY <1>5 DEF TypeOK, vars, roundVars, hookVars, auditVars, decideVars
<1> QED
  BY <1>1, <1>2, <1>3, <1>4, <1>5 DEF Next, Quiescent

-----------------------------------------------------------------------------
(* Decisions are final, so an approval of the round stays. *)

\* No step changes a decided row.
LEMMA RowFinal ==
    ASSUME IInv, [Next]_vars
    PROVE  \A b \in Blocks : row[b] \in Decisions => row'[b] = row[b]
<1> USE DEF IInv, TypeOK, Decisions
<1>1. ASSUME NEW r \in Rounds, Begin(r) \/ RoundStep(r)
      PROVE  \A b \in Blocks : row[b] \in Decisions => row'[b] = row[b]
  <2>1. CASE Create(r)
    <3>1. Cur(r) \in Blocks /\ row[Cur(r)] = "none"
      BY <2>1, CurBlock DEF Create, RoundInv, Asking, More, Settled
    <3> QED
      BY <2>1, <3>1 DEF Create
  <2> QED
    BY <1>1, <2>1 DEF Begin, RoundStep, Pick, Store, Push, Hear, Timeout, Leave,
       Call, PersistResults, hookVars
<1>2. ASSUME NEW d \in Deciders, DecideStep(d)
      PROVE  \A b \in Blocks : row[b] \in Decisions => row'[b] = row[b]
  BY <1>2 DEF DecideStep, Decide, DecideFails, SignalLoad, SignalSend, Affected,
     hookVars
<1> QED
  BY <1>1, <1>2 DEF Next, RunPost, Crash, Quiescent, vars, hookVars

\* Hence the approval that lets a call through does not go away.
LEMMA ApprovedStays ==
    ASSUME IInv, [Next]_vars, NEW r \in Rounds, NEW n \in Nat,
           NEW m \in Nat, n <= m, ApprovedBy(r, n)
    PROVE  ApprovedBy(r, m)'
BY RowFinal, CallFacts DEF ApprovedBy, Decisions

-----------------------------------------------------------------------------
(* Rows, channels and requests. *)

LEMMA RoundHookInv ==
    ASSUME IInv, NEW r \in Rounds, Begin(r) \/ RoundStep(r)
    PROVE  HookInv'
<1> USE DEF IInv, HookInv, TypeOK, Decisions
<1>1. CASE Create(r)
  <2>1. Cur(r) \in Blocks /\ row[Cur(r)] = "none" /\ Cur(r) \in HighRisk
    BY <1>1, CurBlock DEF Create, RoundInv, Asking, More, Settled
  <2> QED
    BY <1>1, <2>1 DEF Create, decideVars
<1>2. CASE Hear(r)
  BY <1>2, CurBlock DEF Hear, decideVars
<1> QED
  BY <1>1, <1>2 DEF Begin, RoundStep, Pick, Store, Push, Timeout, Leave, Call,
     PersistResults, hookVars, decideVars

LEMMA DecideHookInv ==
    ASSUME IInv, NEW d \in Deciders, DecideStep(d)
    PROVE  HookInv'
<1> USE DEF IInv, HookInv, TypeOK, Decisions
<1>1. CASE \E b \in HighRisk, decision \in Bodies : DecideFails(d, b, decision)
  BY <1>1 DEF DecideFails, hookVars
<1>2. CASE \E b \in HighRisk, decision \in Bodies : Decide(d, b, decision)
  <2>1. PICK b \in HighRisk, decision \in Bodies : Decide(d, b, decision)
    BY <1>2
  <2>2. b \in Blocks /\ row[b] = "pending" /\ decision \in Decisions
    BY <2>1, CallsAssumption DEF Decide, Affected, Valid
  <2>3. row' = [row EXCEPT ![b] = decision] /\ buf' = buf
        /\ dpc' = [dpc EXCEPT ![d] = "load"]
        /\ dblk' = [dblk EXCEPT ![d] = b] /\ ddec' = [ddec EXCEPT ![d] = decision]
    BY <2>1 DEF Decide
  <2>4. \A e \in Deciders : dpc'[e] \in {"load", "send"} =>
          dblk'[e] \in Blocks /\ row'[dblk'[e]] = ddec'[e] /\ ddec'[e] \in Decisions
    BY <2>2, <2>3
  <2>5. \A c \in Blocks : /\ buf'[c] # "none" => row'[c] = buf'[c]
                          /\ row'[c] # "none" => c \in HighRisk
    BY <2>2, <2>3
  <2> QED
    BY <2>4, <2>5
<1>3. CASE SignalLoad(d)
  BY <1>3 DEF SignalLoad, hookVars
<1>4. CASE SignalSend(d)
  <2>1. dblk[d] \in Blocks /\ ddec[d] \in Decisions /\ row[dblk[d]] = ddec[d]
    BY <1>4 DEF SignalSend
  <2>2. \A c \in Blocks : buf'[c] # "none" => row[c] = buf'[c]
    BY <1>4, <2>1 DEF SignalSend
  <2> QED
    BY <1>4, <2>2 DEF SignalSend
<1> QED
  BY <1>1, <1>2, <1>3, <1>4 DEF DecideStep

LEMMA NextHookInv == IInv /\ [Next]_vars => HookInv'
<1> SUFFICES ASSUME IInv, [Next]_vars PROVE HookInv'
  OBVIOUS
<1>1. ASSUME NEW b \in Blocks, RunPost(b) PROVE HookInv'
  BY <1>1 DEF RunPost, IInv, HookInv, hookVars, decideVars
<1>2. CASE Crash
  BY <1>2 DEF Crash, IInv, HookInv, TypeOK
<1>3. CASE UNCHANGED vars
  BY <1>3 DEF vars, IInv, HookInv, hookVars, decideVars
<1> QED
  BY <1>1, <1>2, <1>3, RoundHookInv, DecideHookInv DEF Next, Quiescent

-----------------------------------------------------------------------------
(* The rounds. *)

\* A round keeps its invariant when others move: its own state is unchanged, its
\* calls have the same outcomes, and its rows at most become decided.
LEMMA RoundUnmoved ==
    ASSUME IInv, [Next]_vars, NEW q \in Rounds,
           pc'[q] = pc[q], at'[q] = at[q], rs'[q] = rs[q], verdict'[q] = verdict[q],
           \A i \in DOMAIN Calls[q] :
              /\ outcome'[Calls[q][i]] = outcome[Calls[q][i]]
              /\ row'[Calls[q][i]] = "none" <=> row[Calls[q][i]] = "none"
    PROVE  RoundInv(q)'
<1> USE CallFacts DEF IInv, TypeOK, RoundPcs
<1>1. Cur(q)' = Cur(q) /\ (More(q) <=> More(q)')
  BY DEF Cur, More
<1>2. \A n \in Nat : ApprovedBy(q, n) => ApprovedBy(q, n)'
  BY ApprovedStays
<1>3. RiskIn(q)'
  BY <1>2 DEF RoundInv, RiskIn, Made
<1>4. RejectionIn(q)'
  BY DEF RoundInv, RejectionIn, Made
<1>5. OnePromptIn(q)'
  BY DEF RoundInv, OnePromptIn
<1>6. "approved" \in rs'[q] => rs'[q] = {"approved"} /\ ApprovedBy(q, at[q])'
  BY <1>2 DEF RoundInv
<1>7. pc[q] \in Asking => Cur(q) \in HighRisk /\ row'[Cur(q)] # "none"
  BY DEF RoundInv, Cur, More
<1>8. \A i \in DOMAIN Calls[q] :
        /\ row'[Calls[q][i]] # "none" =>
              /\ i <= at[q]
              /\ i = at[q] => pc[q] \in Asking \cup {"call", "failed"}
              /\ rs[q] # {} \/ pc[q] \in Asking \cup {"failed"}
              /\ i < at[q] => rs[q] # {}
        /\ outcome'[Calls[q][i]] # "none" => i < at[q]
        /\ row'[Calls[q][i]] # "none" /\ outcome'[Calls[q][i]] = "denied"
              => rs[q] = {"rejected"}
  BY DEF RoundInv
<1> QED
  BY <1>1, <1>3, <1>4, <1>5, <1>6, <1>7, <1>8 DEF RoundInv, Asking

\* Steps of a round leave the other rounds' calls alone.
LEMMA OtherRounds ==
    ASSUME IInv, NEW r \in Rounds, Begin(r) \/ RoundStep(r),
           NEW q \in Rounds, q # r
    PROVE  RoundInv(q)'
<1> USE DEF IInv, TypeOK
<1>0. [Next]_vars
  BY DEF Next
<1>1. pc'[q] = pc[q] /\ at'[q] = at[q] /\ rs'[q] = rs[q] /\ verdict'[q] = verdict[q]
  BY DEF Begin, RoundStep, Pick, Create, Store, Push, Hear, Timeout, Leave, Call,
     PersistResults, Goto
<1>2. CASE Create(r) \/ Call(r)
  <2>1. at[r] \in DOMAIN Calls[r] /\ Cur(r) = Calls[r][at[r]]
    BY <1>2, CurBlock DEF Create, Call
  <2>2. \A i \in DOMAIN Calls[q] : Calls[q][i] # Cur(r)
    BY <2>1, UniqueCall
  <2>3. \A i \in DOMAIN Calls[q] : /\ outcome'[Calls[q][i]] = outcome[Calls[q][i]]
                                   /\ row'[Calls[q][i]] = row[Calls[q][i]]
    BY <1>2, <2>1, <2>2, CallFacts DEF Create, Call, hookVars
  <2> QED
    BY <1>0, <1>1, <2>3, RoundUnmoved
<1>3. CASE ~(Create(r) \/ Call(r))
  <2>1. outcome' = outcome /\ row' = row
    BY <1>3 DEF Begin, RoundStep, Pick, Store, Push, Hear, Timeout, Leave,
       PersistResults, hookVars
  <2> QED
    BY <1>0, <1>1, <2>1, RoundUnmoved
<1> QED
  BY <1>2, <1>3

\* The round that moves, where neither rows nor outcomes nor the index change: the
\* parts about them stay.
LEMMA SamePosition ==
    ASSUME IInv, NEW r \in Rounds,
           row' = row, outcome' = outcome, at' = at,
           "approved" \in rs'[r] => "approved" \in rs[r] \/ ApprovedBy(r, at[r])
    PROVE  /\ RiskIn(r)' /\ RejectionIn(r)' /\ OnePromptIn(r)'
           /\ Cur(r)' = Cur(r) /\ (More(r)' <=> More(r))
           /\ ApprovedBy(r, at[r])' <=> ApprovedBy(r, at[r])
           /\ "approved" \in rs'[r] => ApprovedBy(r, at[r])'
BY DEF IInv, RoundInv, RiskIn, RejectionIn, OnePromptIn, ApprovedBy, Made, Cur, More

\* The steps that touch neither rows nor outcomes nor the index.
LEMMA InPlace ==
    ASSUME IInv, NEW r \in Rounds,
           Begin(r) \/ Pick(r) \/ Store(r) \/ Push(r) \/ Hear(r) \/ Timeout(r)
             \/ Leave(r) \/ PersistResults(r)
    PROVE  RoundInv(r)'
<1> DEFINE State == {"approved", "rejected"}
<1>0. /\ RoundInv(r) /\ HookInv /\ TypeOK
      /\ pc \in [Rounds -> RoundPcs] /\ verdict \in [Rounds -> {"none", "allow", "deny"}]
      /\ rs \in [Rounds -> SUBSET State] /\ buf \in [Blocks -> State \cup {"none"}]
      /\ DOMAIN Calls[r] \subseteq Nat \ {0} /\ at[r] \in Nat
  BY CallFacts DEF IInv, TypeOK, Decisions
<1> USE <1>0 DEF Goto
<1>1. row' = row /\ outcome' = outcome /\ at' = at
  BY DEF Begin, Pick, Store, Push, Hear, Timeout, Leave, PersistResults, hookVars
<1>2. pc[r] = "select" /\ buf[Cur(r)] # "none" => row[Cur(r)] = buf[Cur(r)]
  BY CurBlock DEF HookInv
<1>3. pc[r] = "select" /\ buf[Cur(r)] = "approved" => ApprovedBy(r, at[r])
  <2>1. pc[r] = "select" => at[r] \in DOMAIN Calls[r] /\ Cur(r) = Calls[r][at[r]]
    BY CurBlock
  <2> QED
    BY <1>2, <2>1 DEF ApprovedBy
<1>4. "approved" \in rs'[r] => "approved" \in rs[r] \/ ApprovedBy(r, at[r])
  BY <1>3 DEF Begin, Pick, Store, Push, Hear, Timeout, Leave, PersistResults,
     RoundAfter
<1>5. /\ RiskIn(r)' /\ RejectionIn(r)' /\ OnePromptIn(r)'
      /\ Cur(r)' = Cur(r) /\ (More(r)' <=> More(r))
      /\ ApprovedBy(r, at[r])' <=> ApprovedBy(r, at[r])
      /\ "approved" \in rs'[r] => ApprovedBy(r, at[r])'
  BY <1>1, <1>4, SamePosition
<1>6. CASE Begin(r)
  BY <1>1, <1>5, <1>6 DEF Begin, RoundInv, Asking
<1>7. CASE Pick(r)
  <2>1. /\ More(r) /\ pc[r] = "pick" /\ pc'[r] = "call" /\ rs' = rs
        /\ verdict'[r] = IF Allowed(Cur(r), rs[r]) THEN "allow" ELSE "deny"
        /\ Cur(r) \notin HighRisk \/ rs[r] # {}
    BY <1>7 DEF Pick, Settled
  <2>2. Cur(r) \in HighRisk => (verdict'[r] = "allow" <=> rs[r] = {"approved"})
    <3>1. rs[r] # {} /\ "rejected" \notin rs[r] => "approved" \in rs[r]
      <4>1. rs[r] \in SUBSET State
        OBVIOUS
      <4> QED
        BY <4>1
    <3>2. "approved" \in rs[r] => rs[r] = {"approved"}
      BY DEF RoundInv
    <3>3. rs[r] = {"approved"} => "rejected" \notin rs[r]
      OBVIOUS
    <3> QED
      BY <2>1, <3>1, <3>2, <3>3 DEF Allowed
  <2>3. verdict'[r] \in {"allow", "deny"}
    BY <2>1
  <2>4. \A i \in DOMAIN Calls[r] :
          /\ row[Calls[r][i]] # "none" => i < at[r] /\ rs[r] # {}
          /\ outcome[Calls[r][i]] # "none" => i < at[r]
          /\ row[Calls[r][i]] # "none" /\ outcome[Calls[r][i]] = "denied"
                => rs[r] = {"rejected"}
    BY <2>1 DEF RoundInv, Asking
  <2> QED
    BY <1>1, <1>5, <2>1, <2>2, <2>3, <2>4 DEF RoundInv, Asking
<1>8. CASE Store(r)
  BY <1>1, <1>5, <1>8 DEF Store, RoundInv, Asking
<1>9. CASE Push(r)
  BY <1>1, <1>5, <1>9 DEF Push, RoundInv, Asking
<1>10. CASE Hear(r)
  <2>1. /\ pc[r] = "select" /\ pc'[r] = "leave" /\ buf[Cur(r)] \in State
        /\ rs'[r] = {buf[Cur(r)]}
        /\ verdict'[r] = IF buf[Cur(r)] = "approved" THEN "allow" ELSE "deny"
    BY <1>10, CurBlock DEF Hear, RoundAfter, RoundInv
  <2> QED
    BY <1>1, <1>5, <2>1 DEF RoundInv, Asking
<1>11. CASE Timeout(r)
  <2>1. pc[r] = "select" /\ pc'[r] = "leave" /\ rs'[r] = {"rejected"}
        /\ verdict'[r] = "deny"
    BY <1>11 DEF Timeout, RoundAfter, RoundInv
  <2> QED
    BY <1>1, <1>5, <2>1 DEF RoundInv, Asking
<1>12. CASE Leave(r)
  BY <1>1, <1>5, <1>12 DEF Leave, RoundInv, Asking
<1>13. CASE PersistResults(r)
  BY <1>1, <1>5, <1>13 DEF PersistResults, RoundInv, Asking
<1> QED
  BY <1>6, <1>7, <1>8, <1>9, <1>10, <1>11, <1>12, <1>13

\* The prompt: its row is the round's first.
LEMMA CreateRound ==
    ASSUME IInv, NEW r \in Rounds, Create(r)
    PROVE  RoundInv(r)'
<1> DEFINE c == at[r]
<1>0. /\ RoundInv(r) /\ TypeOK /\ c \in DOMAIN Calls[r] /\ Cur(r) = Calls[r][c]
      /\ DOMAIN Calls[r] \subseteq Nat \ {0} /\ Cur(r) \in Blocks
      /\ \A i \in DOMAIN Calls[r] : Calls[r][i] = Cur(r) <=> i = c
      /\ \A i \in DOMAIN Calls[r] : Calls[r][i] \in Blocks
  BY CallFacts, CurBlock, UniqueCall DEF IInv, Create
<1> USE <1>0
<1>1. pc[r] = "pick" /\ Cur(r) \in HighRisk /\ rs[r] = {}
      /\ rs' = rs /\ at' = at /\ outcome' = outcome
  BY DEF Create, Settled
<1>2. \A i \in DOMAIN Calls[r] : row[Calls[r][i]] = "none"
  BY <1>1 DEF RoundInv, Asking
<1>3. \A i \in DOMAIN Calls[r] : outcome'[Calls[r][i]] # "none" => i < c
  BY <1>1 DEF RoundInv
<1>4. Cur(r)' = Cur(r) /\ More(r)' /\ "approved" \notin rs'[r]
  BY <1>1 DEF Cur, More
<1>5. \A i \in DOMAIN Calls[r] : i # c => row'[Calls[r][i]] = "none"
  BY <1>2 DEF Create, TypeOK
<1>6. RiskIn(r)'
  BY <1>1, <1>2 DEF RoundInv, RiskIn, ApprovedBy, Made
<1>7. RejectionIn(r)'
  BY <1>3, <1>5 DEF RejectionIn, Made
<1>8. OnePromptIn(r)'
  BY <1>5 DEF OnePromptIn
<1>9. CASE pc'[r] = "store" /\ row'[Cur(r)] = "pending"
  BY <1>1, <1>3, <1>4, <1>5, <1>6, <1>7, <1>8, <1>9 DEF RoundInv, Asking
<1>10. CASE pc'[r] = "call" /\ verdict'[r] = "deny" /\ row' = row
  BY <1>1, <1>2, <1>3, <1>4, <1>6, <1>7, <1>8, <1>10 DEF RoundInv, Asking
<1> QED
  BY <1>9, <1>10 DEF Create, Goto, TypeOK

\* The call: a high-risk one is made only in a round whose state is approved.
LEMMA CallRound ==
    ASSUME IInv, NEW r \in Rounds, Call(r)
    PROVE  RoundInv(r)'
<1> DEFINE c == at[r]
<1>0. /\ RoundInv(r) /\ TypeOK /\ c \in DOMAIN Calls[r] /\ Cur(r) = Calls[r][c]
      /\ DOMAIN Calls[r] \subseteq Nat \ {0} /\ Cur(r) \in Blocks
      /\ \A i \in DOMAIN Calls[r] : Calls[r][i] = Cur(r) <=> i = c
      /\ \A i \in DOMAIN Calls[r] : Calls[r][i] \in Blocks
      /\ \A b \in Blocks : row[b] # "none" => b \in HighRisk
  BY CallFacts, CurBlock, UniqueCall DEF IInv, Call, HookInv
<1> USE <1>0
<1>1. pc[r] = "call" /\ pc'[r] = "pick" /\ row' = row /\ rs' = rs
      /\ at'[r] = c + 1
  BY DEF Call, Goto, hookVars, TypeOK
<1>2. PICK o \in CallOutcomes(verdict[r]) : outcome' = [outcome EXCEPT ![Cur(r)] = o]
  BY DEF Call
<1>3. \A i \in DOMAIN Calls[r] :
        outcome'[Calls[r][i]] = IF i = c THEN o ELSE outcome[Calls[r][i]]
  BY <1>2 DEF TypeOK
<1>4. o \in {"ran", "failed", "denied"} /\ (o = "denied" <=> verdict[r] = "deny")
  BY <1>2 DEF CallOutcomes
<1>5. verdict[r] \in {"allow", "deny"}
      /\ (Cur(r) \in HighRisk => (verdict[r] = "allow" <=> rs[r] = {"approved"}))
  BY <1>1 DEF RoundInv
<1>6. rs[r] = {"approved"} => ApprovedBy(r, c)
  BY DEF RoundInv
<1>7. \A n \in Nat : ApprovedBy(r, n)' <=> ApprovedBy(r, n)
  BY <1>1 DEF ApprovedBy
<1>8. ApprovedBy(r, c) => ApprovedBy(r, c + 1)
  BY DEF ApprovedBy
<1>9. \A i \in DOMAIN Calls[r] : outcome[Calls[r][i]] # "none" => i < c
  BY DEF RoundInv
<1>10. \A i \in DOMAIN Calls[r] : row[Calls[r][i]] # "none" => i <= c /\ rs[r] # {}
  BY <1>1 DEF RoundInv, Asking
<1>11. "approved" \in rs[r] => rs[r] = {"approved"}
  BY DEF RoundInv
<1>12. rs[r] # {} /\ "approved" \notin rs[r] => rs[r] = {"rejected"}
  <2>1. rs[r] \in SUBSET {"approved", "rejected"}
    BY DEF TypeOK, Decisions
  <2> QED
    BY <2>1
<1>13. \A i \in DOMAIN Calls[r] :
          row[Calls[r][i]] # "none" /\ outcome'[Calls[r][i]] = "denied"
             => rs[r] = {"rejected"}
  BY <1>3, <1>4, <1>5, <1>10, <1>11, <1>12 DEF RoundInv
<1>14. RiskIn(r)'
  BY <1>1, <1>3, <1>4, <1>5, <1>6, <1>7 DEF RiskIn, RoundInv, Made
<1>15. RejectionIn(r)'
  <2> SUFFICES ASSUME NEW i \in DOMAIN Calls[r], NEW j \in DOMAIN Calls[r],
                      i < j, Calls[r][j] \in HighRisk, row[Calls[r][i]] # "none",
                      outcome'[Calls[r][i]] = "denied"
               PROVE  outcome'[Calls[r][j]] \notin {"ran", "failed"}
    BY <1>1 DEF RejectionIn, Made
  <2>1. rs[r] = {"rejected"}
    BY <1>13
  <2>2. CASE j = c
    BY <2>1, <2>2, <1>3, <1>4, <1>5
  <2>3. CASE i = c
    BY <2>3, <1>3, <1>9
  <2>4. CASE i # c /\ j # c
    BY <2>4, <1>3 DEF RoundInv, RejectionIn, Made
  <2> QED
    BY <2>2, <2>3, <2>4
<1>16. OnePromptIn(r)'
  BY <1>1 DEF OnePromptIn, RoundInv
<1>17. "approved" \in rs'[r] => rs'[r] = {"approved"} /\ ApprovedBy(r, at[r])'
  <2>1. ApprovedBy(r, at[r])' <=> ApprovedBy(r, c + 1)
    BY <1>1 DEF ApprovedBy
  <2> QED
    BY <2>1, <1>1, <1>6, <1>8, <1>11
<1>18. \A i \in DOMAIN Calls[r] : outcome'[Calls[r][i]] # "none" => i < at'[r]
  BY <1>1, <1>3, <1>9
<1> QED
  BY <1>1, <1>10, <1>13, <1>14, <1>15, <1>16, <1>17, <1>18 DEF RoundInv, Asking

\* Decisions, audits and stutters move no round.
LEMMA DecideRounds ==
    ASSUME IInv, NEW q \in Rounds,
           (\E d \in Deciders : DecideStep(d)) \/ (\E b \in Blocks : RunPost(b))
             \/ UNCHANGED vars
    PROVE  RoundInv(q)'
<1>0. [Next]_vars
  BY DEF Next
<1>1. pc' = pc /\ at' = at /\ rs' = rs /\ verdict' = verdict /\ outcome' = outcome
  BY DEF DecideStep, Decide, DecideFails, SignalLoad, SignalSend, RunPost, vars,
     roundVars
<1>2. \A b \in Blocks : row'[b] = "none" <=> row[b] = "none"
  BY DEF DecideStep, Decide, DecideFails, SignalLoad, SignalSend, RunPost, vars,
     hookVars, Affected, Valid, IInv, TypeOK, Decisions
<1> QED
  BY <1>0, <1>1, <1>2, RoundUnmoved, CallFacts

\* A crash ends the rounds under way and keeps the rows.
LEMMA CrashRounds ==
    ASSUME IInv, Crash, NEW q \in Rounds
    PROVE  RoundInv(q)'
<1>1. /\ RoundInv(q) /\ at' = at /\ rs' = rs /\ row' = row /\ outcome' = outcome
      /\ pc'[q] = IF pc[q] \in InRound THEN "failed" ELSE pc[q]
      /\ pc[q] \in RoundPcs
      /\ verdict' = [r \in Rounds |-> "none"]
  BY DEF Crash, IInv, TypeOK
<1>2. pc'[q] \in {"idle", "done", "failed"}
      /\ (pc'[q] # "failed" => pc'[q] = pc[q])
  BY <1>1 DEF RoundPcs, InRound
<1>3. RiskIn(q)' /\ RejectionIn(q)' /\ OnePromptIn(q)'
      /\ (ApprovedBy(q, at[q])' <=> ApprovedBy(q, at[q]))
  BY <1>1, SamePosition
<1> QED
  BY <1>1, <1>2, <1>3 DEF RoundInv, Asking

LEMMA InitIInv == Init => IInv
<1> SUFFICES ASSUME Init PROVE IInv
  OBVIOUS
<1>1. HookInv
  BY DEF Init, HookInv
<1>2. ASSUME NEW r \in Rounds PROVE RoundInv(r)
  <2>1. \A i \in DOMAIN Calls[r] :
          row[Calls[r][i]] = "none" /\ outcome[Calls[r][i]] = "none"
    BY CallFacts DEF Init
  <2>2. rs[r] = {} /\ pc[r] = "idle"
    BY DEF Init
  <2> QED
    BY <2>1, <2>2 DEF RoundInv, Asking, RiskIn, RejectionIn, OnePromptIn, Made
<1> QED
  BY InitTypeOK, <1>1, <1>2 DEF IInv

LEMMA NextIInv == IInv /\ [Next]_vars => IInv'
<1> SUFFICES ASSUME IInv, [Next]_vars, NEW q \in Rounds PROVE RoundInv(q)'
  BY NextTypeOK, NextHookInv DEF IInv
<1>1. ASSUME NEW r \in Rounds, Begin(r) \/ RoundStep(r) PROVE RoundInv(q)'
  <2>1. CASE q # r
    BY <1>1, <2>1, OtherRounds
  <2>2. CASE q = r
    BY <1>1, <2>2, InPlace, CreateRound, CallRound DEF RoundStep
  <2> QED
    BY <2>1, <2>2
<1> QED
  BY <1>1, DecideRounds, CrashRounds DEF Next, Quiescent

-----------------------------------------------------------------------------
(* The theorems. *)

\* Every reachable state satisfies the inductive invariant of rounds, rows,
\* channels and requests.
THEOREM ApprovalCorrect == Spec => []IInv
<1>1. Init => IInv
  BY InitIInv
<1>2. IInv /\ [Next]_vars => IInv'
  BY NextIInv
<1> QED
  BY <1>1, <1>2, PTL DEF Spec

\* Every variable keeps its type.
THEOREM TypeCorrect == Spec => []TypeOK
<1>1. IInv => TypeOK
  BY DEF IInv
<1> QED
  BY <1>1, ApprovalCorrect, PTL

\* RunPre and Decide: no high-risk call is made without an approved row of its
\* round, a denial stops the round's later high-risk calls, and a round asks once.
THEOREM ApprovalSafe ==
    Spec => [](RiskNeedsApproval /\ RejectionStopsRound /\ OnePromptPerRound)
<1>1. IInv => RiskNeedsApproval /\ RejectionStopsRound /\ OnePromptPerRound
  BY DEF IInv, RoundInv, RiskNeedsApproval, RejectionStopsRound, OnePromptPerRound
<1> QED
  BY <1>1, ApprovalCorrect, PTL

\* Decide: the database comes first; what a channel or a round state says is what
\* a row says.
THEOREM DatabaseFirstHolds == Spec => []DatabaseFirst
<1>1. IInv => DatabaseFirst
  BY DEF IInv, HookInv, RoundInv, DatabaseFirst
<1> QED
  BY <1>1, ApprovalCorrect, PTL

\* Decide: a recorded decision is never overwritten.
THEOREM DecisionFinalHolds == Spec => DecisionFinal
<1>1. IInv /\ [Next]_vars =>
        [\A b \in Blocks : row[b] \in Decisions => row'[b] = row[b]]_vars
  BY RowFinal
<1> QED
  BY <1>1, ApprovalCorrect, PTL DEF Spec, DecisionFinal

-----------------------------------------------------------------------------
(* The audit log. *)

LEMMA NextAuditInv == IInv /\ AuditInv /\ [Next]_vars => AuditInv'
<1> SUFFICES ASSUME IInv, AuditInv, [Next]_vars
             PROVE  AuditInv'
  OBVIOUS
<1> USE DEF IInv, TypeOK, AuditInv, AuditOf, IsError
<1>1. ASSUME NEW r \in Rounds, Call(r) PROVE AuditInv'
  <2>1. Cur(r) \in Blocks /\ outcome[Cur(r)] = "none"
    BY <1>1, CurBlock, CallFacts DEF Call, RoundInv
  <2>2. audit[Cur(r)] = "none" /\ audit' = audit
    BY <1>1, <2>1 DEF Call
  <2>3. outcome'[Cur(r)] # "none" /\ post' = post \cup {Cur(r)}
    BY <1>1, <2>1 DEF Call, CallOutcomes
  <2>4. \A b \in Blocks \ {Cur(r)} : outcome'[b] = outcome[b]
    BY <1>1, <2>1 DEF Call
  <2> QED
    BY <2>1, <2>2, <2>3, <2>4
<1>2. ASSUME NEW b \in Blocks, RunPost(b) PROVE AuditInv'
  BY <1>2 DEF RunPost
<1>3. CASE outcome' = outcome /\ post' \subseteq post /\ audit' = audit
  BY <1>3
<1>4. CASE Crash \/ Quiescent \/ UNCHANGED vars
  BY <1>3, <1>4 DEF Crash, Quiescent, vars, auditVars
<1>5. ASSUME NEW d \in Deciders, DecideStep(d) PROVE AuditInv'
  BY <1>3, <1>5 DEF DecideStep, Decide, DecideFails, SignalLoad, SignalSend, auditVars
<1>6. ASSUME NEW r \in Rounds, Begin(r) \/ RoundStep(r), ~Call(r) PROVE AuditInv'
  BY <1>3, <1>6 DEF Begin, RoundStep, Pick, Create, Store, Push, Hear, Timeout, Leave,
     PersistResults, auditVars
<1> QED
  BY <1>1, <1>2, <1>4, <1>5, <1>6 DEF Next

\* AuditHook.RunPost, whenever its goroutine runs, writes what became of the call: an
\* audited success was made, and one of a high-risk tool has an approved row of its round.
THEOREM AuditMatchesApprovalsHolds == Spec => []AuditMatchesApprovals
<1>1. Init => AuditInv
  BY DEF Init, AuditInv
<1>2. IInv /\ AuditInv => AuditMatchesApprovals
  <2> SUFFICES ASSUME IInv, AuditInv, NEW r \in Rounds, NEW i \in DOMAIN Calls[r]
               PROVE  LET b == Calls[r][i]
                      IN  audit[b] = "success" =>
                             Made(b) /\ (b \in HighRisk => ApprovedBy(r, i))
    BY DEF AuditMatchesApprovals, AuditIn
  <2>1. Calls[r][i] \in Blocks
    BY CallFacts
  <2> QED
    BY <2>1 DEF IInv, TypeOK, AuditInv, AuditOf, IsError, Made, RoundInv, RiskIn
<1> QED
  BY <1>1, <1>2, NextAuditInv, ApprovalCorrect, PTL DEF Spec

(***************************************************************************)
(* Channels.                                                               *)
(***************************************************************************)

\* Who moves on from push or select stays at its call; the others do not move.
LEMMA HolderStays ==
    ASSUME TypeOK, NEW r \in Rounds, RoundStep(r), ~Store(r), ~Leave(r), ChannelsReleased
    PROVE  ChannelsReleased'
<1> DEFINE Holds(q) == pc[q] \in {"push", "select", "leave"}
<1>1. \A q \in Rounds : Holds(q) => Holds(q)' /\ at'[q] = at[q]
  <2>1. CASE Pick(r) \/ Create(r) \/ PersistResults(r)
    BY <2>1 DEF Pick, Create, PersistResults, Goto, TypeOK
  <2>2. CASE Push(r) \/ Hear(r) \/ Timeout(r)
    BY <2>2 DEF Push, Hear, Timeout, Goto, TypeOK
  <2>3. CASE Call(r)
    BY <2>3 DEF Call, Goto, TypeOK
  <2> QED BY <2>1, <2>2, <2>3 DEF RoundStep
<1>2. UNCHANGED reg
  BY DEF RoundStep, Pick, Create, Push, Hear, Timeout, Call, PersistResults, hookVars
<1> QED BY <1>1, <1>2 DEF ChannelsReleased, Cur

LEMMA NextChannels ==
    ASSUME TypeOK, ChannelsReleased, [Next]_vars
    PROVE  ChannelsReleased'
<1>1. ASSUME UNCHANGED <<pc, at, reg>> PROVE ChannelsReleased'
  BY <1>1 DEF ChannelsReleased, Cur
<1>2. ASSUME NEW r \in Rounds, Begin(r) PROVE ChannelsReleased'
  <2>1. /\ UNCHANGED <<at, reg>>
        /\ \A q \in Rounds : pc[q] \in {"push", "select", "leave"} => pc'[q] = pc[q]
    BY <1>2 DEF Begin, Goto, hookVars, TypeOK
  <2> QED BY <2>1 DEF ChannelsReleased, Cur
<1>3. ASSUME NEW r \in Rounds, Store(r) PROVE ChannelsReleased'
  <2>1. /\ reg' = reg \cup {Cur(r)} /\ UNCHANGED at /\ pc'[r] = "push"
        /\ \A q \in Rounds : pc[q] \in {"push", "select", "leave"} => pc'[q] = pc[q]
    BY <1>3 DEF Store, Goto, TypeOK
  <2> QED BY <2>1 DEF ChannelsReleased, Cur
<1>4. ASSUME NEW r \in Rounds, Leave(r) PROVE ChannelsReleased'
  <2>1. /\ reg' = reg \ {Cur(r)} /\ UNCHANGED at
        /\ \A q \in Rounds : q # r => pc'[q] = pc[q]
    BY <1>4 DEF Leave, Unregister, Goto, TypeOK
  <2> QED BY <2>1 DEF ChannelsReleased, Cur
<1>5. ASSUME NEW r \in Rounds, RoundStep(r) PROVE ChannelsReleased'
  BY <1>3, <1>4, <1>5, HolderStays
<1>6. ASSUME NEW b \in Blocks, RunPost(b) PROVE ChannelsReleased'
  BY <1>1, <1>6 DEF RunPost, roundVars, hookVars
<1>7. ASSUME NEW d \in Deciders, DecideStep(d) PROVE ChannelsReleased'
  BY <1>1, <1>7 DEF DecideStep, Decide, DecideFails, SignalLoad, SignalSend, roundVars, hookVars
<1>8. CASE Crash
  BY <1>8 DEF Crash, ChannelsReleased
<1>9. CASE UNCHANGED vars
  BY <1>1, <1>9 DEF vars, roundVars, hookVars
<1> QED BY <1>2, <1>5, <1>6, <1>7, <1>8, <1>9 DEF Next, Quiescent

\* Every entry of h.channels belongs to a round that is still in RunPre: the deferred
\* Delete follows each decision and timeout, and a crash empties the map.
THEOREM ChannelsReleasedHolds == Spec => []ChannelsReleased
<1>1. Init => ChannelsReleased
  BY DEF Init, ChannelsReleased
<1>2. TypeOK /\ ChannelsReleased /\ [Next]_vars => ChannelsReleased'
  BY NextChannels
<1> QED BY <1>1, <1>2, TypeCorrect, PTL DEF Spec

-----------------------------------------------------------------------------
(* The gate: every step of a round, of a decision request, of an audit goroutine *)
(* and of a crash is a step of ApprovalGate under the mapping of Approval!Gate,   *)
(* or changes nothing there.                                                      *)

\* The gate's variables, as the mapping defines them.
Phases == [r \in Rounds |-> Phase(r)]
Fates  == [b \in Blocks |-> Fate(b)]

LEMMA InitGate == Init => Gate!Init
BY DEF Init, Gate!Init, Phase, Fate, Made

\* A step that keeps every position, round state, row and outcome is a stutter.
LEMMA Stutter ==
    ASSUME UNCHANGED <<pc, at, rs, row, outcome>>
    PROVE  UNCHANGED Gate!vars
BY DEF Gate!vars, Phase, Fate, Made

\* The phases after one round has moved, if calls come to nothing yet.
LEMMA OnePhase ==
    ASSUME TypeOK, NEW r \in Rounds,
           \A q \in Rounds \ {r} : pc'[q] = pc[q] /\ rs'[q] = rs[q]
    PROVE  Phases' = [Phases EXCEPT ![r] = Phase(r)']
BY DEF TypeOK, Phases, Phase

LEMMA SameFates ==
    ASSUME outcome' = outcome
    PROVE  Fates' = Fates
BY DEF Fates, Fate, Made

\* A round's steps touch no other round.
LEMMA OnlyThisRound ==
    ASSUME TypeOK, NEW r \in Rounds, Begin(r) \/ RoundStep(r)
    PROVE  \A q \in Rounds \ {r} : pc'[q] = pc[q] /\ rs'[q] = rs[q]
BY DEF TypeOK, Begin, RoundStep, Pick, Create, Store, Push, Hear, Timeout, Leave,
   Call, PersistResults, Goto

\* Steps that leave the round in its phase.
LEMMA QuietStep ==
    ASSUME IInv, NEW r \in Rounds,
           Begin(r) \/ Pick(r) \/ Store(r) \/ Push(r) \/ Leave(r) \/ PersistResults(r)
    PROVE  [Gate!Next]_(Gate!vars)
<1> USE DEF IInv, TypeOK
<1>1. at' = at /\ row' = row /\ outcome' = outcome /\ rs' = rs
  BY DEF Begin, Pick, Store, Push, Leave, PersistResults, hookVars
<1>2. Phases' = [Phases EXCEPT ![r] = Phase(r)'] /\ Fates' = Fates
  BY <1>1, OnePhase, SameFates, OnlyThisRound DEF RoundStep
<1>3. Phase(r)' = Phase(r) \/ Phase(r)' = "over"
  BY <1>1 DEF Phase, Begin, Pick, Store, Push, Leave, PersistResults, Goto, RoundPcs
<1>4. CASE Phase(r)' = Phase(r)
  <2>1. Phases' = Phases
    BY <1>2, <1>4 DEF Phases
  <2> QED
    BY <1>1, <1>2, <2>1 DEF Gate!vars, Phases, Fates
<1>5. CASE Phase(r)' = "over"
  <2>1. Phases' = [q \in Rounds |-> IF q \in {r} THEN "over" ELSE Phases[q]]
    BY <1>2, <1>5 DEF Phases
  <2>2. Gate!Finish({r})
    BY <1>1, <1>2, <2>1 DEF Gate!Finish, Phases, Fates
  <2> QED
    BY <2>2 DEF Gate!Next
<1> QED
  BY <1>3, <1>4, <1>5

LEMMA CreateGate ==
    ASSUME IInv, NEW r \in Rounds, Create(r)
    PROVE  [Gate!Next]_(Gate!vars)
<1> USE DEF IInv, TypeOK
<1>1. Cur(r) \in Blocks /\ at[r] \in DOMAIN Calls[r] /\ Cur(r) = Calls[r][at[r]]
  BY CurBlock DEF Create
<1>2. rs[r] = {} /\ Cur(r) \in HighRisk /\ row[Cur(r)] = "none"
  BY <1>1 DEF Create, Settled, RoundInv, Asking
<1>3. Phases' = [Phases EXCEPT ![r] = Phase(r)'] /\ Fates' = Fates
  BY OnePhase, SameFates, OnlyThisRound DEF RoundStep, Create
<1>4. Phase(r) = "open" /\ rs' = rs /\ at' = at /\ outcome' = outcome
  BY <1>2 DEF Phase, Create
<1>5. CASE row' = [row EXCEPT ![Cur(r)] = "pending"] /\ Goto(r, "store")
  <2>1. Phase(r)' = "asked"
    BY <1>5 DEF Phase, Goto
  <2>2. Gate!Ask(r, Cur(r))
    BY <1>1, <1>2, <1>3, <1>4, <1>5, <2>1 DEF Gate!Ask, Gate!Here, Phases, Fates
  <2> QED
    BY <1>1, <2>2 DEF Gate!Next
<1>6. CASE row' = row /\ Goto(r, "call")
  <2>1. Phase(r)' = "open"
    BY <1>2, <1>4, <1>6 DEF Phase, Goto
  <2>2. Phases' = Phases
    BY <1>3, <1>4, <2>1 DEF Phases
  <2> QED
    BY <1>3, <1>4, <1>6, <2>2 DEF Gate!vars, Phases, Fates
<1> QED
  BY <1>5, <1>6 DEF Create

\* A decision or the timer ends the question.
LEMMA ConcludeGate ==
    ASSUME IInv, NEW r \in Rounds, Hear(r) \/ Timeout(r)
    PROVE  [Gate!Next]_(Gate!vars)
<1> USE DEF IInv, TypeOK
<1>1. pc[r] = "select" /\ RoundInv(r)
  BY DEF Hear, Timeout
<1>2. Cur(r) \in Blocks /\ at[r] \in DOMAIN Calls[r] /\ Cur(r) = Calls[r][at[r]]
  BY <1>1, CurBlock
<1>3. Phases' = [Phases EXCEPT ![r] = Phase(r)'] /\ Fates' = Fates
  BY OnePhase, SameFates, OnlyThisRound DEF RoundStep, Hear, Timeout
<1>4. at' = at /\ row' = row /\ Phase(r) = "asked" /\ rs[r] = {}
  BY <1>1 DEF Hear, Timeout, hookVars, Phase, RoundInv
<1>5. pc'[r] = "leave" /\ \/ rs'[r] = {"rejected"}
                          \/ rs'[r] = {"approved"} /\ row[Cur(r)] = "approved"
  <2>1. CASE Timeout(r)
    BY <1>4, <2>1 DEF Timeout, RoundAfter, Goto
  <2>2. CASE Hear(r)
    <3>1. buf[Cur(r)] \in Decisions /\ row[Cur(r)] = buf[Cur(r)]
      BY <1>2, <2>2 DEF Hear, HookInv
    <3> QED
      BY <1>4, <2>2, <3>1 DEF Hear, RoundAfter, Goto, Decisions
  <2> QED
    BY <2>1, <2>2
<1>6. Phase(r)' \in {"granted", "refused"} /\ (Phase(r)' = "granted" => row[Cur(r)] = "approved")
  BY <1>5 DEF Phase
<1>7. Gate!Conclude(r, Cur(r), Phase(r)')
  BY <1>2, <1>3, <1>4, <1>6 DEF Gate!Conclude, Gate!Here, Phases, Fates
<1> QED
  BY <1>2, <1>6, <1>7 DEF Gate!Next

-----------------------------------------------------------------------------
(* Only high-risk calls are denied. *)

DenyInv == \A r \in Rounds : pc[r] = "call" /\ verdict[r] = "deny" => Cur(r) \in HighRisk

LEMMA NextDenyInv == IInv /\ DenyInv /\ [Next]_vars => DenyInv'
<1> SUFFICES ASSUME IInv, DenyInv, [Next]_vars, NEW q \in Rounds,
                    pc'[q] = "call", verdict'[q] = "deny"
             PROVE  Cur(q)' \in HighRisk
  BY DEF DenyInv
<1> USE DEF IInv, TypeOK
<1>1. ASSUME NEW r \in Rounds, Begin(r) \/ RoundStep(r) PROVE Cur(q)' \in HighRisk
  <2>1. CASE q # r
    <3>1. pc'[q] = pc[q] /\ at'[q] = at[q] /\ verdict'[q] = verdict[q]
      BY <1>1, <2>1 DEF Begin, RoundStep, Pick, Create, Store, Push, Hear, Timeout,
         Leave, Call, PersistResults, Goto
    <3> QED
      BY <3>1 DEF DenyInv, Cur
  <2>2. CASE q = r
    <3>1. at' = at
      BY <1>1, <2>2 DEF Begin, RoundStep, Pick, Create, Store, Push, Hear, Timeout,
         Leave, Call, PersistResults, Goto, hookVars
    <3>2. CASE Pick(r)
      BY <2>2, <3>1, <3>2 DEF Pick, Allowed, Cur
    <3>3. CASE Create(r)
      BY <2>2, <3>1, <3>3 DEF Create, Settled, Cur
    <3>4. CASE Leave(r)
      BY <2>2, <3>1, <3>4 DEF Leave, RoundInv, Asking, Cur
    <3> QED
      BY <1>1, <2>2, <3>2, <3>3, <3>4 DEF Begin, RoundStep, Store, Push, Hear, Timeout,
         Call, PersistResults, Goto
  <2> QED
    BY <2>1, <2>2
<1>2. ASSUME UNCHANGED roundVars PROVE Cur(q)' \in HighRisk
  BY <1>2 DEF roundVars, DenyInv, Cur
<1>3. CASE Crash
  BY <1>3 DEF Crash
<1> QED
  BY <1>1, <1>2, <1>3 DEF Next, RunPost, DecideStep, Decide, DecideFails, SignalLoad,
     SignalSend, Quiescent, vars

LEMMA CallGate ==
    ASSUME IInv, DenyInv, NEW r \in Rounds, Call(r)
    PROVE  [Gate!Next]_(Gate!vars)
<1> USE DEF IInv, TypeOK
<1>1. pc[r] = "call" /\ RoundInv(r)
  BY DEF Call
<1>2. Cur(r) \in Blocks /\ at[r] \in DOMAIN Calls[r] /\ Cur(r) = Calls[r][at[r]]
  BY <1>1, CurBlock
<1>3. rs' = rs /\ row' = row /\ pc' = [pc EXCEPT ![r] = "pick"] /\ at' = [at EXCEPT ![r] = @ + 1]
  BY DEF Call, hookVars, Goto
<1>4. Phases' = Phases
  BY <1>1, <1>3 DEF Phases, Phase
<1>5. Phase(r) = (IF rs[r] = {} THEN "open" ELSE IF "rejected" \in rs[r] THEN "refused" ELSE "granted")
  BY <1>1 DEF Phase
<1>6. PICK o \in CallOutcomes(verdict[r]) : outcome' = [outcome EXCEPT ![Cur(r)] = o]
  BY DEF Call
<1>7. o \in {"ran", "failed", "denied"} /\ (o = "denied" <=> verdict[r] = "deny")
  BY <1>6 DEF CallOutcomes
<1>8. CASE o # "denied"
  <2>1. Fates' = [Fates EXCEPT ![Cur(r)] = "made"]
    BY <1>2, <1>6, <1>7, <1>8 DEF Fates, Fate, Made
  <2>2. verdict[r] = "allow"
    BY <1>1, <1>7, <1>8 DEF RoundInv
  <2>3. Cur(r) \in HighRisk => rs[r] = {"approved"}
    BY <1>1, <2>2 DEF RoundInv
  <2>4. Phase(r) \in {"open", "granted", "refused"} /\ (Cur(r) \in HighRisk => Phase(r) = "granted")
    BY <1>5, <2>3
  <2>5. Gate!Make(r, Cur(r))
    BY <1>2, <1>3, <1>4, <2>1, <2>4 DEF Gate!Make, Gate!Here, Phases, Fates
  <2> QED
    BY <1>2, <2>5 DEF Gate!Next
<1>9. CASE o = "denied"
  <2>1. Fates' = [Fates EXCEPT ![Cur(r)] = "denied"]
    BY <1>2, <1>6, <1>9 DEF Fates, Fate, Made
  <2>2. Cur(r) \in HighRisk /\ rs[r] # {"approved"}
    BY <1>1, <1>2, <1>7, <1>9 DEF DenyInv, RoundInv
  <2>3. Phase(r) \in {"open", "refused"}
    BY <1>5, <2>2 DEF Decisions
  <2>4. Gate!Deny(r, Cur(r))
    BY <1>2, <1>3, <1>4, <2>1, <2>2, <2>3 DEF Gate!Deny, Gate!Here, Phases, Fates
  <2> QED
    BY <1>2, <2>4 DEF Gate!Next
<1> QED
  BY <1>8, <1>9

-----------------------------------------------------------------------------

LEMMA DecideGate ==
    ASSUME IInv, NEW d \in Deciders, DecideStep(d)
    PROVE  [Gate!Next]_(Gate!vars)
<1> USE DEF IInv, TypeOK
<1>1. CASE \E b \in HighRisk, decision \in Bodies : Decide(d, b, decision)
  <2>1. PICK b \in HighRisk, decision \in Bodies : Decide(d, b, decision)
    BY <1>1
  <2>2. Phases' = Phases /\ Fates' = Fates /\ at' = at
    BY <2>1 DEF Decide, roundVars, Phases, Phase, Fates, Fate, Made
  <2>3. b \in Blocks /\ decision \in Gate!Decisions
    BY <2>1, CallsAssumption DEF Decide, Valid, Decisions, Gate!Decisions
  <2>4. Gate!Decide(b, decision)
    BY <2>1, <2>2 DEF Decide, Affected, Gate!Decide, Phases, Fates
  <2> QED
    BY <2>3, <2>4 DEF Gate!Next
<1> QED
  BY <1>1, Stutter DEF DecideStep, DecideFails, SignalLoad, SignalSend, roundVars, hookVars

LEMMA CrashGate ==
    ASSUME IInv, Crash
    PROVE  [Gate!Next]_(Gate!vars)
<1> DEFINE R == {r \in Rounds : pc[r] \in InRound}
<1>1. Phases' = [r \in Rounds |-> IF r \in R THEN "over" ELSE Phases[r]]
  BY DEF IInv, TypeOK, Crash, Phases, Phase
<1>2. Fates' = Fates /\ row' = row /\ at' = at
  BY DEF Crash, Fates, Fate, Made
<1>3. Gate!Finish(R)
  BY <1>1, <1>2 DEF Gate!Finish, Phases, Fates
<1> QED
  BY <1>3 DEF Gate!Next

LEMMA StepGate == IInv /\ DenyInv /\ [Next]_vars => [Gate!Next]_(Gate!vars)
<1> SUFFICES ASSUME IInv, DenyInv, [Next]_vars
             PROVE  [Gate!Next]_(Gate!vars)
  OBVIOUS
<1>1. ASSUME NEW r \in Rounds, Begin(r) \/ RoundStep(r) PROVE [Gate!Next]_(Gate!vars)
  BY <1>1, QuietStep, CreateGate, ConcludeGate, CallGate DEF RoundStep
<1>2. ASSUME NEW b \in Blocks, RunPost(b) PROVE [Gate!Next]_(Gate!vars)
  BY <1>2, Stutter DEF RunPost, roundVars, hookVars
<1>3. CASE UNCHANGED vars
  BY <1>3, Stutter DEF vars, roundVars, hookVars
<1> QED
  BY <1>1, <1>2, <1>3, DecideGate, CrashGate DEF Next, Quiescent

\* RunPre, Signal and Decide together keep the promise of the approval gate, for any
\* rounds, calls and requests, through refused writes, timeouts and crashes.
THEOREM GateHolds == Spec => GateImplemented
<1>1. Init => DenyInv
  BY DEF Init, DenyInv
<1>2. Spec => []DenyInv
  BY <1>1, NextDenyInv, ApprovalCorrect, PTL DEF Spec
<1> QED
  BY <1>2, InitGate, StepGate, ApprovalCorrect, PTL DEF Spec, GateImplemented, Gate!Spec
=============================================================================
