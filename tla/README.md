# agent-weave: a TLA+ model and its proofs

agent-weave is a Go server that lets a user talk to an LLM agent which calls tools, hands
work to subagents, and asks the user before it does anything dangerous; a Vue client
follows along on a server-sent-events stream. This directory holds TLA+ modules of the
server's concurrent core, TLC configurations that check them on small instances, and
TLAPS proofs for every instance. `PROJECT.json` maps every definition to source lines.

Paths below are relative to `src/server/internal/` unless they begin with `src/`.

## 1. The system

| part | code | state | operations | how it is reached |
|---|---|---|---|---|
| orchestrator run | `agent/run.go`, `agent/service.go` | local: history, round | one LLM call per turn; on end_turn fan-in or stop; on tool_use a tool round | a goroutine per POST of a message or report |
| tool rounds and hooks | `agent/tool_dispatch.go`, `hook/` | `RoundApprovalState`; `ApprovalHook.channels` (sync.Map of channels); tables `approvals`, `audit_logs` | pre hooks, call, post hooks (own goroutine); `Decide` endpoint signals the waiting hook | called by a run; decided by HTTP requests |
| dispatch and fan-in | `agent/dispatch.go`, `tool/builtin/dispatch_to_agent.go` | per conversation: pending counter, WaitGroup, results | `Add`, `Done`, `Pending`, `Wait`, `Drain` | tool handler, subagents, end_turn |
| subagents, threads | `agent/subagent.go`, `service/thread.go` | table `threads` | one text-only LLM call, settle the row, report; `CancelAllThreads` | goroutine per dispatch; HTTP DELETE |
| event hub | `agent/sse.go`, `handler/stream.go` | `HubRegistry` map; per hub a buffered channel and a closed flag | `GetOrCreate`, `Push` (drains when full), `Close`, `Delete`; the stream handler's loop | every producer pushes; one request per connected client |
| transcript | `agent/history.go`, `agent/compaction.go`, `service/message.go` | table `messages` | append, load with compaction (summary row, mark rows), keyset paging | runs, subagents, HTTP |
| Docker sandbox | `sandbox/` | mutex, map of containers; the daemon's containers; host directories | `Ensure`, five tools, `Close` | tool calls; shutdown |
| catalog | `service/{agent,skill,conversation,report}.go`, `seeding/` | tables `agents`, `skills`, `agent_skills`, `conversations`, `conversation_agents` | CRUD with read-only system rows; find-or-create seeding | HTTP; startup of every process |
| MCP router, tool registry | `mcp/`, `tool/` | routes, offered tools and sessions, filled at startup; the global map of builtin tools | connect, list and prefix each configured server; look up, call; close | startup; tool rounds; shutdown |
| process, config, database | `src/server/cmd/server/`, `config/`, `db/` | the pool, the sandbox manager, the listener, the signal channel | providers in order with a clean-up of each error path; serve; graceful shutdown | operator, operating system |
| web client | `src/web/src/` | EventSource, views | connects, reconnects | HTTP |

### What is hard

* Nothing stops a second POST while a run is going: two runs of one conversation share the
  hub, the dispatch registry and the message table. An `Add` of one between the other's `Wait`
  and `Drain` makes the registry forget a goroutine that is running.
* The registry's counter and its WaitGroup are updated in two critical sections, and `Drain`
  deletes both.
* `Push` tests `len(ch)` and then receives, while the stream receives without the lock. A subagent
  pushes before it reports, so its `Done` may be as late as its clients.
* A stream that ends deletes whatever hub is registered then.
* A decision, its row, the channel and the timeout race; the process may die in between.
* A compaction inserts a summary and marks rows in two statements, beside another one.
* `Ensure` holds one mutex during requests to Docker; containers outlive the process.
* Services read a row and save it in two statements; seeding runs in several processes.
* What a run and its subagents push goes to hubs that each of them looked up on its own, while
  clients leave, come back, and replace the registered hub.
* A process starts through nine providers that may fail, and ends while requests, streams and
  runs go on.

The complete list, each at its line and with the properties that cover it, is
`PROJECT.json` "hazards".

### What makes each part correct

* dispatch: pending counts the running subagents; `Wait` returns neither early nor never;
  no WaitGroup misuse; each result is injected at most once. Overlapping runs can break the first
  three, in one way only: the modules name it, and section 6 has the traces.
* hub: it implements a feed that neither repeats nor reorders a producer's events; no send on
  a closed channel, one open hub, a connected stream ends.
* a turn: whoever receives the end of a run has been told of its subagents; a stream on the
  run's hub ends, however the run ends.
* approval: it implements a gate that asks once per round and makes no high-risk call it has
  not granted; the database decides first; no channel leaks; rounds end.
* transcript: whatever compactions do, the LLM gets every message in full or summed up, but for what
  an empty summary replaced; pinned head and live tail stay; paging returns every message once.
* sandbox: a call works in its own conversation's workspace only; one container per
  workspace; the mutex is always released.
* catalog: seeded rows are read-only, but for a Save of a row deleted meanwhile; processes that
  start together all come up, with every seed there, unless a user has taken a seed's name; a start
  that finds the skills gives the agents their loadouts.
* tools and process: a call of an offered tool is answered by who offered it; a failed start and
  a finished shutdown leave nothing open; no request loses what it needs within 30 s; a signal ends
  the process, unless a call to Docker, an MCP server or the database never returns.

## 2. Modules

| module | models | checked by | proved in |
|---|---|---|---|
| `Dispatch` | registry, fan-in, subagents, cancellation | `MCDispatch` | `DispatchProofs` |
| `SSEHub` | hub, registry, stream handler | `MCSSEHub` | `SSEHubProofs` |
| `EventFeed` | abstract: what the clients of a conversation are promised | `MCSSEHub`, as a property | `SSEHubProofs` |
| `Turn` | composes Dispatch and SSEHub: who pushes what, and when | `MCTurn` | `TurnProofs` |
| `Approval` | tool rounds, hooks, decisions, audit | `MCApproval` | `ApprovalProofs` |
| `ApprovalGate` | abstract: what the approval hook promises | `MCApproval`, as a property | `ApprovalProofs` |
| `Transcript` | messages table, compaction, paging | `MCTranscript` | `TranscriptProofs` |
| `Sandbox` | Ensure, tools, Close, restarts | `MCSandbox` | `SandboxProofs` |
| `Catalog` | CRUD, links and seeding of several processes | `MCCatalog` | `CatalogProofs` |
| `Tools` | MCP router and tool registry | through `Server` | `ServerProofs` |
| `Server` | composes Tools with the process: startup, serving, shutdown | `MCServer` | `ServerProofs` |

Conventions. Every module models one conversation, except Sandbox and Catalog, which are
about several, and Tools and Server, which are about the process: registry maps are keyed by
the conversation and no operation of theirs reads two keys. `pc[x]` says where goroutine `x` is; a step is one critical section, one
database statement, one channel operation or one request to Docker, so everything another
goroutine can do in between is interleaved. `M_...` operators are seeded faults: each
stands before the definition it would replace and no action uses it; with the replacement
made, TLC violates the property that `PROJECT.json` "mutants" names.

**Dispatch.** `pending`, `wgs`, `outs` are the three maps of the registry at one key; `wgs`
names the WaitGroup by the Sub whose `Add` made it, and `count` holds the counters, so that
a goroutine that fetched a WaitGroup keeps it when `Drain` deletes the map entry. `Done` is
`DoneRecord` (under the lock) and `DoneSignal` (`wg.Done` after it); `Wait` is `WaitFetch`,
`WaitEnter`, `WaitReturn`. A negative counter or a reuse of a WaitGroup before its waiter
has returned sets `proc` to "panicked", as `sync.WaitGroup` does. A subagent settles its row
(`Settle`, whose error is dropped), pushes (`PushReturns`) and reports. Runs of the conversation may
overlap in every way. `RunError`, refused writes and `Crash` cover the error paths of `run`. Two history
variables serve the properties: `raced` (an Add came between another run's `Wait` and its
`Drain`) and `refused` (the subagents whose row update the database refused).

**SSEHub.** Hubs are numbered; `Push` splits into `PushNow` (room), `PushFull`, `DrainTest`
(`len(h.ch) > 0`), `DrainRecv` (`<-h.ch`) and `DrainSend`, under `hubLock`. A stream is
`Open`, `Receive`, `SeeClosed` or `Disconnect`, then `AfterDelete`; `Delete` takes the registry
lock and then the hub's in two steps, twice if the stream ended on `queue_drained`. What is
pushed is a `Script` per producer.

**EventFeed** knows producers, which emit numbered events, and clients, each of which got a
sequence of them: an event goes to one client at most, behind the earlier ones of its producer.
`SSEHub!Feed` maps `at` and `got` to it; buffers, evictions, closed hubs and locks are the
implementation's affair and must not show.

**Turn** instantiates SSEHub with the goroutines of Dispatch as producers and gives up
the scripts' freedom: a run pushes `round_done` and `queue_drained` after its loop, with an error
too; a subagent pushes `thread_status` after its row's update and before `reg.Done`, and each
goes on only when its push has returned. A run and its subagents look their hub up separately, as the
code does. Runs may overlap as in Dispatch; `Awaited` names the subagents whose run ended with
end_turn before any Add overtook a Drain. The events before those are left to SSEHub, where they only fill the buffer; cancellations
and restarts are left to Dispatch.

**Approval.** A round goes `pick`, `store`, `push`, `select`, `leave`, `call`; `rs` is
`RoundApprovalState`, `row` the `approvals` table, `reg` and `buf` the sync.Map and its
channels of capacity one. `Timeout` may be taken although a decision is in the channel: Go's
select chooses. A decision request updates the row (`Decide`), then loads the channel, then
sends, in three steps. Post hooks are goroutines (`RunPost`) and a refused insert is dropped.

**ApprovalGate** has a phase per round (open, asked, granted, refused, over), the row and the
fate of each call: a round asks once, at its first high-risk call, and makes high-risk
calls only if granted. The mapping `Approval!Gate` derives phase and fate from `pc`, `rs` and
`outcome`; channels, timers and requests have no counterpart.

**Transcript.** `table` is the table in the order of (created_at, id). Ids are random, so an
insert may land anywhere among the rows of its millisecond. `Load`, `InsertSummary`, `Mark`,
`Fallback` are `loadHistory` and `compactMessages`. What replaces a middle is one of `StandIns`: the
LLM's summary or, when its response has no text, the notice "(summary unavailable)". The history `loaded` is a ghost: what there
was when it was read. What a query returns is `RowsAt` the places that satisfy its condition, in order;
what a history stands for (`StandFor`) is the least set of ids closed under "a row stands for what it
replaced", for summaries only or for notices too.

**Sandbox.** A file of a workspace is abstracted to whose content it has, a workspace to one
file. `lock` is `m.mu`, `cache` is `m.containers`, `docker` the daemon's containers, which
survive `Exit` and `Restart`. `ContainerStart` that returns an error may have removed the
container, left it, or started it.

**Catalog.** `rows` holds the three tables, `links` the pairs of `agent_skills` and
`conversation_agents`, both with their cascades. A server boots through the phases in the
order of `wire_gen.go` (agents, reports, skills); seeds of a phase come in any order, as Go
iterates its maps. `Save` is gorm's: an UPDATE by id, and if no row has that id an upsert. Users may give
their rows any name, a seed's too, and the database may hold rows that users of an
earlier build made, before the name was seeded (`Earlier`). History variables name what users have
done to the seeds: `taken` (names), `unloaded` (skills taken off), and `again` the servers
that found every skill there when they booted.

**Tools** models a tool name as the sequence of its parts between `__`, so that prefixing is the
concatenation it is in the code and two servers may come to offer one name. `routes` and
`offered` are `r.routes` and `r.tools`; `last` is the last call and who answered it: an MCP
route first, then the global registry, else nobody.

**Server** follows `main`: `config.Load`, the pool, the migrations, `ProvideMCPRouter` server by
server, the four providers after it (each may fail, and wire's error path cleans up what
was returned before), the second read of config.yaml, the listener's goroutine, `signal.Notify`, the wait,
`Shutdown` with its 30 s, and the deferred clean-up, whose `Manager.Close` first waits for the mutex
that a run's `Ensure` (`EnsureBegins`, `EnsureReturns`) may hold. A call of main to the
database, Docker or an MCP server may never return (`hung`), nor may the Docker request of
that `Ensure` (`stuck`): the code gives neither a time limit. Requests, the runs they leave
behind, signals and edits of config.yaml happen between any two of these.

## 3. Runs

Every property is violated by its mutant; `PROJECT.json` "mutants" lists them. Bounds are named constants.

| run | instance | what it shows |
|---|---|---|
| `dispatch` | 2 runs that may overlap, 2 subagents, 1 cancellation, 1 crash, refused updates; 913,252 states | `TypeOK`, `PendingAccurate`, `NoPanic`, `WaitCoversAll`, `ResultOnce`, `ResultAfterRow`, `CancelKeepsTerminal` |
| `dispatch_wait` | 2 runs that may overlap, 2 subagents; 229,639 states | `WaitEnds` |
| `dispatch_lost` | 1 run, 2 subagents | violation of `EveryResultInjected` |
| `hub` | a run and a subagent, 2 streams, buffer of 2, up to 5 hubs | `TypeOK`, `NoSendOnClosed`, `OneOpenHub`, `StreamEnds`, and `FeedImplemented`: the refinement of EventFeed |
| `hub_block` | 1 run, 1 stream, buffer of 2 | violation of `PushNeverBlocks` |
| `turn` | 1 run, 1 subagent, 2 clients, buffer of 2, up to 4 hubs | `ClientSeesSubagents`, `TurnReachesClient` |
| `approval` | a round of risky, harmless, risky; 2 requests; refused writes; 1 crash | `TypeOK`, `RiskNeedsApproval`, `DatabaseFirst`, `ChannelsReleased`, `AuditMatchesApprovals`, `RoundEnds`, and `GateImplemented`: the refinement of ApprovalGate |
| `transcript` | a run, a subagent, a pager with pages of 3; head 1, tail 1, threshold 3; 5 rows | `TypeOK`, `HistoryComplete`, `EndsKept`, `SummaryAfterMiddle`, `PagesExact` |
| `transcript_pairs` | a run with tool rounds, head 2, tail 2, threshold 6 | violation of `PairsTogether` |
| `sandbox` | 3 conversations (2 share a name prefix), 2 callers, 2 containers, 2 processes | `TypeOK`, `WorkspaceIsolated`, `OneContainer`, `EnsureEnds` |
| `catalog` | 2 processes, 2 users who may take the seeds' names, an empty database or one with such a row, one seed of each kind, 4 rows, links added up to 1 | `TypeOK`, `StartsSucceed`, `SeedsThere`, `SystemRowsStay` |
| `server` | 4 server lists, 2 tool lists, 2 builtin tools, 2 requests; any remote call may hang; 500,104 states | `TypeOK`, `CallReachesOfferer`, `ReleasedOnReturn`, `RequestsServed`, `ShutdownEnds` |

Why the bounds are enough. Two runs and two subagents are the least that make one subagent's
`Done` interleave with another's `Add` and with two waits. They overlap: TLC reaches the race of
section 6, and the properties hold up to it. A buffer of two makes a drain
take more than one event, with one left for the stream to steal; the code's 256 only needs
longer runs. In `turn` a run, its subagent and two clients are the least for which the two look
up different hubs because a client left in between, and a run and a subagent make at most two
of the four lookups that can make a hub. Risky, harmless, risky covers a decision that carries over and a call it does
not concern; two requests race for a row. Head 1, tail 1, threshold 3 compacts a middle as
soon as there is one; five rows leave room for a summary of a summary, and for a second page after a full one. Two containers are
one more than a name admits, so a leftover and its successor can meet. Two processes and two users make each read-then-write of
startup and of requests interleave; four rows are the three seeds and one row of a user, or a seed that
was taken, renamed and made again. One round is what TLC can do of Approval; the theorems are for any number.
The server lists have prefixes of their own, no prefix, a prefix that starts the other one, and a
transport other than http; the tool lists make names collide between two servers and with a
builtin tool; two requests leave one in flight while the other's run goes on.
Symmetry is used in runs without liveness properties only.

Deadlock is checked in all runs but five: in `hub`, `hub_block` and `turn` clients may be connected to a hub
nobody pushes to any more, and in `dispatch` and `dispatch_wait` a run may wait for ever on a
WaitGroup that another run's `Drain` forgot (section 6).
Where the modelled work is finite, `Quiescent` states that it is over.

### Fairness

The code sets three time limits: 30 s for `fetch_url`, 120 s for an approval, 30 s for `Shutdown`. The
LLM client, the MCP clients, Docker and the database have none, and runs use
`context.Background()`. What is assumed to answer is therefore named for each part.

* Dispatch: weak fairness of a run from `Wait` to the fan-in message, and of a subagent's `Done`: the Go
  scheduler runs every goroutine that can move, and the database answers a write, with a
  result or an error. Nothing is assumed of the LLM or of `Push`: that no subagent hangs in either is the
  premise `NobodyHangs` of `WaitEnds`.
* SSEHub: strong fairness per producer and stream. They compete for mutexes, and Go's mutex
  hands itself to a waiter after a millisecond (starvation mode). Clients need not connect or leave.
* Turn: strong fairness of each run, each subagent and each stream, for both reasons. The LLM
  and the database answer, with or without an error. A push on a full buffer may wait for ever, and
  `TurnReachesClient` says so (`BufferFilled`).
* Approval: weak fairness of the round; the timer fires. The push of the
  request and the tools are assumed to return; users need not decide.
* Sandbox: weak fairness of what the holder of the mutex does (Docker answers), strong
  fairness of taking it, again by starvation mode. The HTTP context is not used as a timeout there,
  so a daemon that never answers would block every caller; there it is assumed to answer.
* Server: weak fairness of `main` unless its call never returns (`hung`), of a Docker request of `Ensure`
  unless it is stuck, and strong fairness of `Close` taking the manager's mutex, by starvation
  mode. The shutdown's timer fires. Requests, runs and streams need not end and no signal need come.
  `ShutdownEnds` says that a signal ends the process or leaves it in such a call.
* Catalog and Transcript state safety only.

## 4. Proofs

`DispatchProofs` (for any finite set of subagents, any runs, overlapping or not, any cancellations,
refused writes, any number of crashes):

* `TypeCorrect`: `Spec => []TypeOK`.
* `RegistryCorrect`: `IInv` is invariant. It holds `TypeOK`, `RowInv` and `raced \/ FanInInv`: until an
  Add comes between another run's `Wait` and `Drain`, registry and goroutines agree. `pending =
  |InFlight|` is not inductive alone: `Done` works in two steps and `Drain` forgets the
  WaitGroup, so `RegistryInv` ties the counter of the registered WaitGroup to the subagents that have
  not signalled, says that every other one is at zero and that who has recorded holds the registered one; `RunAt`
  says that a waiter holds it too and that past `Wait` (`PastWait`) nobody is left to signal. That
  is what an Add of another run destroys, and the only thing: every other step of every run keeps it,
  `Drain` included, since nobody who has yet to signal is forgotten.
* `FanInSafe` (with `WaitReleases`: nobody waits once all have called Done), `EndTurnWaitsHolds`,
  `NoPanicHolds`, `WaitCoversAllHolds` follow from it.
* `CancelKeepsTerminalHolds`: from `RowInv`.
* `ResultOnceHolds`: also after the race. `PlaceInv` says at most once where each result
  is: `Done` puts it in the registry once, `Drain` takes all the registry has, a fan-in message
  takes all a run holds.
* `ResultAfterRowHolds`: also after the race, from `OutcomeInv`: a subagent past the update of its row has
  settled it or is in `refused`, and cancellation does not undo that.

`ApprovalProofs` (any rounds, blocks, requests, refused writes, crashes): `ApprovalCorrect`
proves `IInv` = types, `HookInv` (a request past its UPDATE, and a channel, hold what the row
holds) and `RoundInv` per round. The three round properties are part of `RoundInv`
because they are about finished calls, whose story only the round state still tells: `rs` is
empty until the one prompt is over, and stays what it became. `ApprovalSafe`,
`DatabaseFirstHolds`, `DecisionFinalHolds`, `TypeCorrect` follow; `ChannelsReleasedHolds` needs that
a channel has a round that is still in the hook, which each exit of the hook ends with `Delete`;
`AuditMatchesApprovalsHolds` adds `AuditInv`, that an audit row says what became of a finished call.

`SSEHubProofs` (any buffer size, hubs, producers, scripts and streams): `HubCorrect` proves
`IInv` = types, `RegistryInv`, `ProducerInv`, `StreamInv`. `OneOpenHub` and `NoSendOnClosed` need what
the two locks guarantee together. `RegistryInv`: the registered hub is open, every other hub
made is closed, and while a stream holds the registry lock the hub it is about to close stays
registered. `ProducerInv`: a producer between the test of `closed` and its send holds the hub's
mutex, and the hub is open. `StreamInv`: exactly the stream between the two steps of `Delete`
holds the registry lock. `TypeCorrect`, `NoSendOnClosedHolds`, `OneOpenHubHolds` follow.

`SandboxProofs` (any conversations, id prefixes, callers, refused requests, deaths of containers,
crashes): `SandboxCorrect` proves `IInv` = types, `DockerInv` (a name is a function of the conversation,
ids and names are unique), `CacheInv` and `CallInv` (an id held by the map or by a call is, if
it still exists, a container of the conversation it is held for, and was started if it is used).
`WorkspaceIsolated` is not inductive without them: what a call writes to is determined by an id
it got from the map a while ago. Two lemmas carry the argument: the daemon only keeps, starts or
removes containers (`KeptDocker`), and a new one has a fresh id (`Origin`), so no held id can
come to mean another container. `WorkspaceIsolatedHolds`, `OneContainerHolds`,
`CachedWasStartedHolds`, `TypeCorrect` follow.

The end of `SSEHubProofs` has `FeedHolds`, that SSEHub implements EventFeed. `FeedInv` says that
the buffers are sorted per producer and disjoint, hold emitted events that no stream has got
and, per stream, only later ones than it has got; a stream receives from one hub all its life. Evictions and closed
hubs only remove events, a receive is `Deliver`, a push `Emit`.

The end of `ApprovalProofs` has `GateHolds`, that Approval implements ApprovalGate. Each
action is matched with one of the gate or a stutter under the mapping; `DenyInv` adds to `IInv` why a
denied call's round was not granted.

`TurnProofs` (any runs, overlapping or not, subagents, clients, buffer size and number of hubs, refused
writes) reuses the invariants of both parts: `PartsImplemented` shows that a turn is a behaviour of
Dispatch and of SSEHub, so their invariants and promises hold in it (`TurnPartsSafe`, `TurnFeed`).
`ClientSeesSubagentsHolds` needs more, since neither part knows which event belongs to which
subagent. `TurnInvHolds` proves `TurnInv`. Its `GoroutineInv` says where a goroutine is in both modules
at once: who has begun there has looked a hub up here, a run pushes only after its loop, a
subagent has pushed when it reports; a run that ended with end_turn before the race has only subagents that reported; and a
subagent that looked a hub up holds its run's as long as that one is open, because
only one hub is (`OneOpenHub`). `MailInv` says where the events are, unless a full buffer was drained: a
`thread_status` pushed to an open hub is received or in that hub's buffer, and wherever a `queue_drained` of a run that
ended with end_turn is, each `thread_status` of its subagents is ahead of it or received. That nobody
can hold a `queue_drained` before the run pushes it is `FeedInv`. A run whose hub is closed
tells nobody; if it is still open when the run pushes `queue_drained`, it is the hub of its subagents and
was open when they pushed, since a closed hub is never opened again.

`ServerProofs` (any server lists, tool lists, builtin tools and requests): `ServerCorrect` proves `IInv` =
types, `RoutesInv` (what is offered was listed and is routed, what is routed was listed by a server
whose session was kept), `FreshInv` (a server the router has not come to has listed nothing), `OpenInv` (what is
open where main is) and `ServeInv` (who may still be served, and that one run at most holds the sandbox's
mutex, none while `Close` stops the containers). `CallReachesOfferer` is part of it since it
is about the last call, whose routes have to be the same ever since. That prefix-free names
have one offerer is a lemma about sequences: `x \o s = y \o t` makes one of `x`, `y` an initial
part of the other. `TypeCorrect`, `CallReachesOffererHolds`, `ReleasedOnReturnHolds`,
`RequestsServedHolds` follow.

`TranscriptProofs` (any runs, subagents, pagers, gaps, refused calls; any page size, head, tail and a
threshold above their sum): `InvHolds` proves `IInv`, with four parts besides the types.
`TableInv`: ids are unique, summaries and notices replace older ids only, and only what one replaced is
marked. `SnapInv`, for a session that compacts: each row it read is still in the table, behind as many
rows and before as many as in what it read, so the first `PinnedHead` and the last `LiveTail` rows of a
table that has grown meanwhile can never be in its middle; `MadeInv`: its summary is there and sums up
that middle. `PagerInv`: up to its cursor a pager has every row that was there at its first page,
wherever later rows were inserted. Three lemmas carry the argument. `InsertOK`: an insert keeps the order of the
rows there were and moves none to the front (`Grows`), which is all that sessions and pagers which do not
move need. `GrowsStandFor`: what some rows stand for survives an insert; `VisibleStandsFor`: the visible
rows stand for all rows, notices counted, which needs no induction on the depth of summaries since a summary is younger than
what it sums up: the oldest row the visible ones do not stand for would be summed up by an older one.
`LostToNotices`: what they stand for only through a notice is what notices replaced, or what that stands for.
`CursorPlace` and `PageFacts` say where a cursor is and which rows a page holds. `TypesHold`,
`HistoriesComplete`, `EndsStay`, `SummariesAfter`, `PagingExact` follow.

`CatalogProofs` (any processes, requests, seeds, loadouts, names, earlier tables and bounds, refused
statements): `CatalogCorrect` proves `IInv`. Nothing keeps users from the seeds' names: `taken` holds
those they took, and what the invariant says of a seed, it says unless its name is in it. `RowsInv` has
the keys, says that system rows have seeds' names, and that a row with such a name is a system row or taken.
`ClientInv` says that who is about to save or delete holds an id that stands for no system row, also
when the row is gone, was brought back, or never comes back. So a Save by id never reaches a system
row, and only the upsert onto a taken name does (`StaleSave`). `PlaceInv` says that what a startup
has found is still there at its next statement, `SeededInv` what it has seeded so far, `LoadoutInv` which
skills a server in `again` has loaded or has yet to load. The steps' effect on the tables is summed up
in facts like `Keep` (seeded rows and conversations stay, or the name was taken) and `KeepIds` (an id keeps
what it stands for), from which everybody who does not move keeps what it relies on. `TypeCorrect`, `StartsSucceedHolds`,
`SeedsThereHolds` and `SystemRowsStayHolds` follow.

The proofs assume only the named `ASSUME`s of the modules, which TLC evaluates in each run. The strengthenings `IInv` were checked by TLC before they were proved.

Only model-checked: the liveness properties (`WaitEnds`, `StreamEnds`, `TurnReachesClient`, `RoundEnds`,
`EnsureEnds`, `ShutdownEnds`). They rest on fairness, and with it on ENABLED, which is beyond the prover.
Every invariant, action property and refinement of the passing runs is a theorem.

## 5. Findings: what the code does and what it says

Each is the counterexample of a violation run; `PROJECT.json` quotes the line.

1. A subagent that is done before the orchestrator ends its turn is not waited for, and its
   result is not injected (`dispatch_lost`).
2. `Push` can block on the receive of its drain loop (`hub_block`).
3. A compaction can separate a tool call from its results (`transcript_pairs`).

## 6. Divergences and observations without a run of their own

### Where code and documents differ

Each is stated in the modules as an operator no run checks, or follows from a checked one without its
exception. To see a trace, put the operator where the cfg has its properties.

* **Overlapping runs** (`agent/dispatch.go:54` "Pending returns the number of still-running subagent
  goroutines", `:61` "Wait blocks until all subagent goroutines for convID have called Done";
  `src/docs/analysis/backend-overview.md:49` "The orchestrator waits for all pending subagents before
  exiting the loop"). Nothing refuses a second POST while a run goes on (`handler/message.go:76`),
  and both runs use one registry. Let run r wait for s1, and let s1 report. Before r drains, run q adds s2
  (this is `raced`). Then, depending on who moves next:
  r resumes in `wg.Wait` and `sync.WaitGroup` panics, which kills the process (15 steps from the start);
  r is past `Wait` and drains while s2 runs, and `Drain` resets the count (`PendingIsRunning`,
  `MCDispatch.cfg`, 15 steps), so that q ends its turn without s2; or q has fetched the WaitGroup that
  r's `Drain` then forgets, s2's `Done` finds none, and q waits for ever with the count at -1 (23 steps).
  `PendingAccurate`, `NoPanic`, `WaitCoversAll`, `WaitEnds`, `ClientSeesSubagents` therefore hold until
  `raced`, and the proofs show that nothing else breaks them.
* **A refused row update.** `agent/subagent.go:42` drops the error of the transaction that stores a
  subagent's outcome, and reports the result all the same: the orchestrator is then given the result of a thread whose
  row says running for ever. `ResultAfterRow` allows it for `refused` subagents only.
* **Failed calls.** `src/docs/ph2-mcp.md:55` "returns fmt.Errorf(...) when true, so the agent loop
  marks the tool_result block as an error and AuditHook records it correctly"; likewise the comment at
  `mcp/http_client.go:106` and `tool/registry.go:10` "Errors returned here become error
  tool_results". But `agent/tool_dispatch.go:94` and `:102` reset `toolErr` before both: a call that
  was made and failed is not marked as an error for the LLM (only its text begins with "tool error:"), and is
  audited as a success. `AuditMatchesApprovals`
  therefore says only that what is audited as a success was made, with its approval.
* **An empty summary.** `src/docs/ph7-context-and-memory.md:71` "If the compaction LLM call fails (network
  error, empty response, DB write failure), loadHistory ... falls through with the original full
  history". `agent/compaction.go:69` instead inserts "(summary unavailable)" and marks the middle compacted, so
  the LLM never sees it again: `EmptyResponseKeeps` as an INVARIANT of `MCTranscript.cfg` is
  violated in 7 steps. `HistoryComplete` says that this is all that is lost.
* **Compacted rows.** `src/docs/frontend-integration.md:386` "Compacted messages are never returned by the
  list endpoint". The query of `service/message.go:48` has no such filter: `CompactedNotListed` as a PROPERTY of
  `MCTranscript.cfg` is violated in 8 steps. `PagesExact` demands the other rows only.
* **Loadouts.** `service/agent.go:215` "SkillService.Init must have run first" and
  `src/docs/ph4a-agent-skill-hubs.md:103` "code-reviewer (loaded with code-review-guidelines)".
  `src/server/cmd/server/wire_gen.go:48` seeds agents before `:72` seeds skills, so on an empty database
  the agents' loadouts stay empty until the next start: `LoadoutsThere` as an INVARIANT of
  `MCCatalog.cfg` is violated in 15 steps. `SeedsThere` demands them of a server that found the skills.
* **System rows.** `service/agent.go:64` "System agents are read-only". `Update` reads, then saves, and gorm's
  Save of a row deleted meanwhile inserts it; if its new name is a seed's, MySQL's upsert overwrites the
  system row: `SystemReadOnly` as a PROPERTY of `MCCatalog.cfg` is violated in 19 steps. Otherwise the
  deleted row comes back. `SystemRowsStay` says that this is the only way.
* **Shutdown.** `src/docs/ph0-foundation.md:317` "SIGINT/SIGTERM -> 30 s graceful shutdown". `Manager.Close`
  takes `m.mu` (`sandbox/manager.go:228`), which the `Ensure` of a run nobody waits for may hold during a Docker
  request; neither the Docker client (`sandbox/provider.go:17`) nor the MCP client
  (`mcp/http_client.go:37`) has a time limit: `ShutdownAlwaysEnds` as a PROPERTY of `MCServer.cfg` is
  violated in 19 steps and a stutter. `ShutdownEnds` says that nothing but such a call keeps the process.

### Other observations

* A cancelled thread whose goroutine is still running is overwritten with done or error
  (`agent/subagent.go:42`); `src/docs/frontend-integration.md:353` describes cancellation.
* A full buffer is discarded whole, `round_done` and approval requests included
  (`agent/sse.go:85`), although `src/docs/ph0-foundation.md:169` says those two are never lost
  (and `src/docs/frontend-integration.md:146` that terminal signals are never dropped).
* A stream that ends deletes the registered hub, also when another stream reads it. A client that
  reconnects then gets a new hub while the run keeps the closed one (`handler/stream.go:63`), so it
  receives nothing more of that run (`src/docs/frontend-integration.md:388` describes reconnecting).
* The `queue_drained` of a run nobody read stays in the buffer, and ends the stream of the next
  client that connects.
* `round_done` does not always mean "subagents done" (`src/docs/frontend-integration.md:228`): a run that
  fails or stops for another reason pushes it while subagents run. `ClientSeesSubagents` is
  therefore about runs that end with end_turn.
* A decision that finds no channel, or arrives as the hook times out, is recorded as approved
  and answered 200, and the call is denied as timed out (`hook/approval_hook.go:110`).
* The summary of a compaction takes the millisecond after the last row it sums up, which
  rows of the tail may share or precede; it may then come after them.
* Two compactions of one history insert two summaries of the same rows; nothing is lost.
* Two processes or requests can create two conversations of one report: the title is not unique, and
  the second look at `service/report.go:97` never happens.
* A container that was created and not started, or that a dead process left, keeps its name,
  and `Ensure` fails for that conversation (and for one that shares 8 characters) until it is removed.
  A cached container that died is never replaced while the process lives.
* Calls go on during shutdown: an `Ensure` after `Close` starts a container nobody stops,
  although `src/docs/ph8-docker-sandbox.md` says shutdown stops them all.
* `edit_file` reads, then writes; a write in between is lost, within the conversation.
* Prefix `a` with tool `b__c` and prefix `a__b` with tool `c` give one name: both are offered to the
  LLM, the later server answers. `src/docs/ph2-mcp.md` asks operators for distinct prefixes, which is
  not enough; `PrefixFree` is.
* Failed migrations leave the pool open (`db/db.go:34`); `os.Exit` in main (a second read of
  config.yaml that fails, a listener that fails) skips the deferred clean-up.
* Shutdown waits for requests, not for the runs they started: these go on with a closed pool and
  closed sessions until main returns.
* The web client binds its stream to the conversation it was first shown for
  (`src/web/src/composables/useSSE.ts`, called with a plain value): after a change of route its next connection
  is to the old one, and a late answer of the message list is shown in the new one.

## 7. Not modelled

* `SecurityHook`: the wired denylist is empty and it keeps no state.
* `fetch_url`, truncation and HTML stripping: string formatting around one HTTP request without state;
  a tool call is its outcome in Approval and who answers it in Tools.
* LLM streaming inside a turn, prompts, token counts, block contents.
* DSN and defaults in `config`, the statements of the migrations beyond keys and cascades, routes, logging.
* The web client's views and store, beyond its connections, which are the streams of SSEHub and Turn:
  they are the rendering and routing of a UI framework over what the server answers. The two races
  met while reading them are the last observations of section 6.
* Read-only listings of the catalog. The weekly report's date arithmetic is plain text production.
* A restart finds thread rows that say running (`agent/subagent.go:42`): no code settles them, so there is
  no behaviour to model; Dispatch's `Crash` leaves them so.

## 8. Order of work

Dispatch, SSEHub, Approval, Transcript first, as the concurrent core; then Sandbox and Catalog; then the abstract
specifications ApprovalGate and EventFeed with their refinement proofs, the composition Turn, Tools and Server,
and the proofs of all of these, those of Transcript and Turn last. What is left:

1. Liveness, should the prover come to handle ENABLED.
2. The web client's reducer over events, if its views come to keep state that outlives an answer.
3. Overlapping runs: should the server come to refuse a second POST during a run, or the registry to count
   per run, `raced` goes, and with it the exception in the fan-in's properties.
4. Approval with two rounds under TLC, if its state space can be cut; the theorems already cover it.

How to run: `tlc -config MCX.cfg MCX` for a run of `PROJECT.json`, `tlapm XProofs.tla` for
the proofs.
