----------------------------- MODULE Transcript -----------------------------
(***************************************************************************)
(* The messages table of ONE conversation: who writes it (the POST handler, *)
(* orchestrator runs, subagents), how loadHistory reads and compacts it,    *)
(* and how the list endpoint pages through it.                              *)
(*                                                                          *)
(* Rows come back ordered by (created_at, id). created_at has milliseconds  *)
(* and ids are random UUIDs, so a new row may land anywhere among the rows  *)
(* of its millisecond: `table` is the table in that order, and an insert    *)
(* picks any place its created_at allows. Reading the clock and the INSERT  *)
(* are one step here. A step is one statement, or the end of an LLM call.   *)
(***************************************************************************)
EXTENDS Integers, Sequences, SequencesExt, FiniteSets

CONSTANTS
    Runs,        \* calls of Service.Run, each started by a stored user message
    Subs,        \* subagent threads
    Pagers,      \* clients that page through the messages
    PinnedHead, LiveTail, CompactThreshold,
    Limit,       \* page size
    Gaps,        \* milliseconds that may pass before a write
    Faults,      \* may the database or the LLM refuse a call?
    MaxRows      \* bound on the rows of the conversation

ASSUME CompactionAssumption ==
    /\ PinnedHead \in Nat /\ LiveTail \in Nat /\ CompactThreshold \in Nat
    /\ CompactThreshold > PinnedHead + LiveTail
ASSUME OtherAssumption ==
    /\ Limit \in Nat \ {0} /\ MaxRows \in Nat
    /\ Gaps \subseteq Nat /\ Faults \in BOOLEAN
    /\ Runs \cap Subs = {}

Sessions == Runs \cup Subs

VARIABLES
    table,       \* the rows, ordered by (created_at, id)
    compacted,   \* ids of the rows with compacted = 1
    clock,
    pc,          \* where each run or subagent is
    snap,        \* per session: the rows its loadHistory read
    loaded,      \* per session: ids of all rows there were at that moment
    made,        \* per session: the summary row it inserted
    hist,        \* per session: the history it gives the LLM
    calls,       \* per run: the id of its last tool_use message
    cursor,      \* per pager: the last row it was given
    listed,      \* per pager: the ids it was given
    whole,       \* per pager: ids of all rows there were at its first page
    paging       \* where each pager is

rows    == <<table, compacted, clock>>
locals  == <<snap, loaded, made, hist>>
pagerVars == <<cursor, listed, whole, paging>>
vars == <<rows, pc, locals, calls, pagerVars>>

\* A row; `about` holds the ids a tool_result answers or a summary sums up.
Row(id, at, kind, about) == [id |-> id, at |-> at, kind |-> kind, about |-> about]
NoRow == Row(0, 0, "none", {})

Ids(q) == {q[i].id : i \in DOMAIN q}

Init ==
    /\ table = <<>> /\ compacted = {} /\ clock = 0
    /\ pc = [p \in Sessions |-> "idle"]
    /\ snap = [p \in Sessions |-> <<>>]
    /\ loaded = [p \in Sessions |-> {}]
    /\ made = [p \in Sessions |-> NoRow]
    /\ hist = [p \in Sessions |-> <<>>]
    /\ calls = [r \in Runs |-> 0]
    /\ cursor = [g \in Pagers |-> NoRow]
    /\ listed = [g \in Pagers |-> <<>>]
    /\ whole = [g \in Pagers |-> {}]
    /\ paging = [g \in Pagers |-> "idle"]

Goto(p, l) == pc' = [pc EXCEPT ![p] = l]

-----------------------------------------------------------------------------
(* The table. Seeded faults (M_...) precede the definition they replace. *)

\* ORDER BY created_at, id: place i keeps the order, whatever the id is.
M_Fits(i, at) == i = Len(table) + 1
Fits(i, at) ==
    /\ \A j \in 1..(i - 1) : table[j].at <= at
    /\ \A j \in i..Len(table) : at <= table[j].at

Insert(row) ==
    /\ Len(table) < MaxRows
    /\ \E i \in 1..(Len(table) + 1) :
          Fits(i, row.at) /\ table' = InsertAt(table, i, row)

NextId == Len(table) + 1

\* persistMessage and SaveUserMessage: created_at is the current time.
Write(kind, about) ==
    \E g \in Gaps :
        /\ clock' = clock + g
        /\ Insert(Row(NextId, clock + g, kind, about))
        /\ UNCHANGED compacted

Refusable == Faults \/ Len(table) = MaxRows

\* The rows at some places of the table, in their order.
Ordered(S) ==
    [k \in 1..Cardinality(S) |-> CHOOSE i \in S : Cardinality({j \in S : j <= i}) = k]
RowsAt(places) == [k \in DOMAIN places |-> table[places[k]]]

Visible == RowsAt(Ordered({i \in DOMAIN table : table[i].id \notin compacted}))

-----------------------------------------------------------------------------
(* Runs and subagents. *)

\* Past its load a session no longer uses what it read.
Forget(p) ==
    /\ snap' = [snap EXCEPT ![p] = <<>>]
    /\ loaded' = [loaded EXCEPT ![p] = {}]
    /\ made' = [made EXCEPT ![p] = NoRow]
    /\ hist' = [hist EXCEPT ![p] = <<>>]

\* POST /messages: store the user's message, then start the run.
Send(r) ==
    /\ pc[r] = "idle"
    /\ Write("text", {})
    /\ Goto(r, "load")
    /\ UNCHANGED <<locals, calls, pagerVars>>

\* loadHistory: read the non-compacted rows; short histories are used as they are.
Load(p) ==
    LET read == Visible
        long == Len(read) >= CompactThreshold
    IN  /\ pc[p] = "load"
        /\ snap' = [snap EXCEPT ![p] = read]
        /\ loaded' = [loaded EXCEPT ![p] = Ids(table)]
        /\ hist' = [hist EXCEPT ![p] = IF long THEN <<>> ELSE read]
        /\ Goto(p, IF long THEN "summarise" ELSE "ready")
        /\ UNCHANGED <<rows, made, calls, pagerVars>>

\* maybeCompact: the three slices.
HeadOf(q) == SubSeq(q, 1, PinnedHead)
Middle(q) == SubSeq(q, PinnedHead + 1, Len(q) - LiveTail)
M_TailOf(q) == SubSeq(q, Len(q) - LiveTail + 2, Len(q))
TailOf(q) == SubSeq(q, Len(q) - LiveTail + 1, Len(q))

\* compactMessages: created_at of the summary, and the rows of the UPDATE.
M_SummaryAt(middle) == Last(middle).at
SummaryAt(middle) == Last(middle).at + 1
M_Marked(middle) == {m \in Ids(table) : \E i \in DOMAIN table :
                        table[i].id = m /\ table[i].at <= Last(middle).at}
Marked(middle) == Ids(middle)

\* What the row that replaces a middle holds: its summary, or for a response without
\* text the notice "(summary unavailable)".
StandIns == {"summary", "notice"}

\* The LLM call that sums up the middle returns, with or without text, and the row that
\* stands in for the middle is inserted.
InsertSummary(p) ==
    LET middle == Middle(snap[p])
        StandIn(kind) == Row(NextId, SummaryAt(middle), kind, Ids(middle))
    IN  /\ pc[p] = "summarise"
        /\ \E kind \in StandIns :
              /\ Insert(StandIn(kind))
              /\ made' = [made EXCEPT ![p] = StandIn(kind)]
        /\ Goto(p, "mark")
        /\ UNCHANGED <<compacted, clock, snap, loaded, hist, calls, pagerVars>>

Mark(p) ==
    /\ pc[p] = "mark"
    /\ compacted' = compacted \cup Marked(Middle(snap[p]))
    /\ hist' = [hist EXCEPT ![p] =
                  HeadOf(snap[p]) \o <<made[p]>> \o TailOf(snap[p])]
    /\ Goto(p, "ready")
    /\ UNCHANGED <<table, clock, snap, loaded, made, calls, pagerVars>>

\* The summary's LLM call, INSERT or UPDATE failed: use what was read.
Fallback(p) ==
    /\ \/ pc[p] = "summarise" /\ Refusable
       \/ pc[p] = "mark" /\ Faults
    /\ hist' = [hist EXCEPT ![p] = snap[p]]
    /\ Goto(p, "ready")
    /\ UNCHANGED <<rows, snap, loaded, made, calls, pagerVars>>

\* The orchestrator's LLM ends its turn; running subagents are waited for. (The
\* registry that counts them is in Dispatch; here they count if they run.)
EndTurn(r) ==
    /\ pc[r] = "ready"
    /\ Write("text", {})
    /\ Goto(r, IF \E s \in Subs : pc[s] \notin {"idle", "gone"}
               THEN "wait" ELSE "gone")
    /\ Forget(r)
    /\ UNCHANGED <<calls, pagerVars>>

FanIn(r) ==
    /\ pc[r] = "wait"
    /\ \A s \in Subs : pc[s] \in {"idle", "gone"}
    /\ Write("text", {})
    /\ Goto(r, "load")
    /\ UNCHANGED <<locals, calls, pagerVars>>

\* The LLM asks for tools: the assistant message is stored before they run ...
CallTools(r) ==
    /\ pc[r] = "ready"
    /\ Write("tool_use", {})
    /\ calls' = [calls EXCEPT ![r] = NextId]
    /\ Goto(r, "tools")
    /\ Forget(r)
    /\ UNCHANGED pagerVars

\* ... one of them may be dispatch_to_agent ...
Dispatch(r, s) ==
    /\ pc[r] = "tools" /\ pc[s] = "idle"
    /\ Goto(s, "load")
    /\ UNCHANGED <<rows, locals, calls, pagerVars>>

\* ... and their results are stored as one user message.
Results(r) ==
    /\ pc[r] = "tools"
    /\ Write("tool_result", {calls[r]})
    /\ calls' = [calls EXCEPT ![r] = 0]
    /\ Goto(r, "load")
    /\ UNCHANGED <<locals, pagerVars>>

\* A subagent replies, or the orchestrator's LLM stops for another reason: its
\* text, if it has any, is stored.
Stop(p) ==
    /\ pc[p] = "ready"
    /\ Write("text", {}) \/ UNCHANGED rows
    /\ Goto(p, "gone")
    /\ Forget(p)
    /\ UNCHANGED <<calls, pagerVars>>

\* A query, an LLM stream or a write fails, and with it the run or the subagent.
Fail(p) ==
    /\ \/ pc[p] \in {"load", "ready"} /\ Faults
       \/ pc[p] \in {"wait", "tools"} /\ Refusable
    /\ Goto(p, "gone")
    /\ Forget(p)
    /\ calls' = [r \in Runs |-> IF r = p THEN 0 ELSE calls[r]]
    /\ UNCHANGED <<rows, pagerVars>>

-----------------------------------------------------------------------------
(* GET /messages, followed page by page until a page is not full. *)

\* The cursor condition of List: (created_at, id) after the cursor's.
M_IsAfter(i, c) == table[i].at > c.at
IsAfter(i, c) ==
    \/ table[i].at > c.at
    \/ table[i].at = c.at /\ \E j \in 1..(i - 1) : table[j].id = c.id

\* Without a cursor the list starts at the first row.
Page(c) ==
    LET after == Ordered({i \in DOMAIN table : c = NoRow \/ IsAfter(i, c)})
        n == IF Len(after) < Limit THEN Len(after) ELSE Limit
    IN  RowsAt(SubSeq(after, 1, n))

List(g) ==
    LET page == Page(cursor[g])
    IN  /\ paging[g] # "done"
        /\ whole' = [whole EXCEPT ![g] = IF paging[g] = "idle" THEN Ids(table) ELSE @]
        /\ listed' = [listed EXCEPT ![g] = @ \o [k \in DOMAIN page |-> page[k].id]]
        /\ cursor' = [cursor EXCEPT ![g] = IF page = <<>> THEN @ ELSE Last(page)]
        /\ paging' = [paging EXCEPT ![g] = IF Len(page) < Limit THEN "done" ELSE "more"]
        /\ UNCHANGED <<rows, pc, locals, calls>>

-----------------------------------------------------------------------------

\* The process dies: sessions are gone, the table stays.
Crash ==
    /\ pc' = [p \in Sessions |-> IF pc[p] = "idle" THEN "idle" ELSE "gone"]
    /\ snap' = [p \in Sessions |-> <<>>]
    /\ loaded' = [p \in Sessions |-> {}]
    /\ made' = [p \in Sessions |-> NoRow]
    /\ hist' = [p \in Sessions |-> <<>>]
    /\ calls' = [r \in Runs |-> 0]
    /\ UNCHANGED <<rows, pagerVars>>

\* Every run has ended, or the row bound leaves no room for its message.
Quiescent ==
    /\ \A r \in Runs : pc[r] = "gone" \/ (pc[r] = "idle" /\ Len(table) = MaxRows)
    /\ \A s \in Subs : pc[s] \in {"idle", "gone"}
    /\ \A g \in Pagers : paging[g] = "done"
    /\ UNCHANGED vars

Next ==
    \/ \E r \in Runs : Send(r) \/ EndTurn(r) \/ FanIn(r) \/ CallTools(r) \/ Results(r)
    \/ \E r \in Runs, s \in Subs : Dispatch(r, s)
    \/ \E p \in Sessions :
          \/ Load(p) \/ InsertSummary(p) \/ Mark(p) \/ Fallback(p)
          \/ Stop(p) \/ Fail(p)
    \/ \E g \in Pagers : List(g)
    \/ Crash \/ Quiescent

Spec == Init /\ [][Next]_vars

-----------------------------------------------------------------------------
(* Properties. *)

Kinds == {"text", "tool_use", "tool_result"} \cup StandIns
Rows  == [id : 1..MaxRows, at : Nat, kind : Kinds, about : SUBSET (1..MaxRows)]

\* Every variable has its type, and the table is in created_at order.
TypeOK ==
    /\ table \in Seq(Rows) /\ Ids(table) = 1..Len(table)
    /\ \A i, j \in DOMAIN table : i < j => table[i].at <= table[j].at
    /\ compacted \subseteq Ids(table) /\ clock \in Nat
    /\ pc \in [Sessions -> {"idle", "load", "summarise", "mark", "ready",
                            "wait", "tools", "gone"}]
    /\ snap \in [Sessions -> Seq(Rows)] /\ hist \in [Sessions -> Seq(Rows)]
    /\ loaded \in [Sessions -> SUBSET Ids(table)]
    /\ made \in [Sessions -> Rows \cup {NoRow}]
    /\ calls \in [Runs -> 0..Len(table)]
    /\ cursor \in [Pagers -> Rows \cup {NoRow}]
    /\ listed \in [Pagers -> Seq(Ids(table))]
    /\ whole \in [Pagers -> SUBSET Ids(table)]
    /\ paging \in [Pagers -> {"idle", "more", "done"}]

\* The ids that some rows of a table stand for, following summaries of summaries: those
\* in every set that has the rows and all that its rows of these kinds replaced.
Replaced(q, ids, kinds) ==
    UNION {q[i].about : i \in {j \in DOMAIN q : q[j].id \in ids /\ q[j].kind \in kinds}}
StandFor(q, ids, kinds) ==
    {x \in Ids(q) : \A T \in SUBSET Ids(q) :
                       ids \subseteq T /\ Replaced(q, T, kinds) \subseteq T => x \in T}

\* What notices replaced.
GivenUp(q) == UNION {q[i].about : i \in {j \in DOMAIN q : q[j].kind = "notice"}}

\* ph7: a compaction may fail at any step, or run beside another one, and the LLM still
\* gets every message there was when its history was read, in full or through a summary
\* (or the summary of a summary). What an empty response of the compaction's LLM was to
\* sum up is lost, and only that: the history then has the notice instead.
CompleteFor(p) ==
    LET kept == StandFor(table, Ids(hist[p]), {"summary"})
        lost == StandFor(table, GivenUp(table), {"summary"})
    IN  /\ loaded[p] \subseteq kept \cup lost
        /\ loaded[p] \subseteq StandFor(table, Ids(hist[p]), StandIns)
HistoryComplete == \A p \in Sessions : pc[p] = "ready" => CompleteFor(p)

\* ph7: "If the compaction LLM call fails (network error, empty response, DB write
\* failure), loadHistory ... falls through with the original full history". Not so for
\* an empty response.
EmptyResponseKeeps ==
    \A p \in Sessions : pc[p] = "ready" =>
        loaded[p] \subseteq StandFor(table, Ids(hist[p]), {"summary"})

\* ph7: "first 4 messages -- pinned head, never dropped" and the live tail: however
\* compactions overlap, the first and the last rows of the table stay visible.
EndsKept ==
    \A i \in DOMAIN table :
        table[i].id \in compacted => PinnedHead < i /\ i <= Len(table) - LiveTail

\* compaction.go: "Place summary just after the last middle message to preserve
\* ordering": no row comes after the summary that sums it up.
SummaryAfterMiddle ==
    \A i, j \in DOMAIN table :
        table[j].kind \in StandIns /\ table[i].id \in table[j].about => i < j

\* A client that follows the cursor to the end gets every message there was at its
\* first page, but for those compacted by then, and none twice, although rows share
\* their created_at and new ones are inserted while it pages.
PagedExactly(g) ==
    /\ \A i, j \in DOMAIN listed[g] : listed[g][i] = listed[g][j] => i = j
    /\ paging[g] = "done" =>
          whole[g] \ compacted \subseteq {listed[g][i] : i \in DOMAIN listed[g]}
PagesExact == \A g \in Pagers : PagedExactly(g)

\* frontend-integration.md: "Compacted messages are never returned by the list endpoint
\* -- the filter is applied server-side". Not so: List has no such filter.
CompactedNotListed ==
    [][\A g \in Pagers : \A k \in DOMAIN listed'[g] \ DOMAIN listed[g] :
          listed'[g][k] \notin compacted]_vars

\* tool_dispatch.go: "Persist all tool results as a single user message (Anthropic
\* API requirement)": in a history given to the LLM a tool call is directly followed
\* by the message with its results, and results directly follow their call.
PairsTogether ==
    \A p \in Sessions : pc[p] = "ready" =>
        \A i \in DOMAIN hist[p] :
            /\ hist[p][i].kind = "tool_use" =>
                  i < Len(hist[p]) /\ hist[p][i].id \in hist[p][i + 1].about
            /\ hist[p][i].kind = "tool_result" =>
                  i > 1 /\ hist[p][i - 1].id \in hist[p][i].about

\* The inductive invariant behind all but the last: what the table holds, what a session
\* that compacts has read and inserted, and what a pager has been given so far.
SumsUpOlder(q) ==
    \A i \in DOMAIN q : q[i].kind \in StandIns => \A x \in q[i].about : x < q[i].id

TableInv ==
    /\ \A i, j \in DOMAIN table : table[i].id = table[j].id => i = j
    /\ SumsUpOlder(table)
    /\ \A x \in compacted : \E i \in DOMAIN table :
          table[i].kind \in StandIns /\ x \in table[i].about
    /\ EndsKept /\ SummaryAfterMiddle

\* A row that was read is still there, behind as many rows and before as many as then.
SnapInv(p) ==
    LET q == snap[p]
    IN  /\ Len(q) >= CompactThreshold
        /\ \A k \in DOMAIN q : \E i \in DOMAIN table :
              table[i] = q[k] /\ k <= i /\ Len(q) - k <= Len(table) - i
        /\ \A k, l \in DOMAIN q : k < l => q[k].at <= q[l].at
        /\ loaded[p] \subseteq StandFor(table, Ids(q), StandIns)

MadeInv(p) ==
    /\ \E i \in DOMAIN table : table[i] = made[p]
    /\ made[p].kind \in StandIns /\ made[p].about = Ids(Middle(snap[p]))

SessionInv(p) ==
    /\ pc[p] \in {"summarise", "mark"} => SnapInv(p)
    /\ pc[p] = "mark" => MadeInv(p)
    /\ pc[p] = "ready" => /\ Ids(hist[p]) \subseteq Ids(table)
                          /\ loaded[p] \subseteq StandFor(table, Ids(hist[p]), StandIns)

\* List does not look at compacted: in the end a pager has every row.
PagedAll(g) ==
    /\ \A i, j \in DOMAIN listed[g] : listed[g][i] = listed[g][j] => i = j
    /\ paging[g] = "done" => whole[g] \subseteq {listed[g][i] : i \in DOMAIN listed[g]}

\* Up to its cursor a pager has every row that was there at its first page.
PagerInv(g) ==
    /\ paging[g] = "idle" => cursor[g] = NoRow
    /\ cursor[g] = NoRow => listed[g] = <<>>
    /\ cursor[g] # NoRow => \E c \in DOMAIN table :
          /\ table[c] = cursor[g]
          /\ \A k \in DOMAIN listed[g] : \E i \in 1..c : table[i].id = listed[g][k]
          /\ \A i \in 1..c : table[i].id \in whole[g] =>
                \E k \in DOMAIN listed[g] : listed[g][k] = table[i].id
    /\ PagedAll(g)

IInv ==
    /\ TypeOK /\ TableInv
    /\ \A p \in Sessions : SessionInv(p)
    /\ \A r \in Runs : pc[r] = "tools" => calls[r] # 0
    /\ \A g \in Pagers : PagerInv(g)
=============================================================================
