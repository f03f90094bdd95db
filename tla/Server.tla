------------------------------- MODULE Server -------------------------------
(***************************************************************************)
(* The server process from main to its end: InitializeApp with the clean-up *)
(* of each failing provider, the second read of config.yaml, the listener's *)
(* goroutine, requests and the runs they leave behind, signals, the         *)
(* graceful shutdown with its 30 s limit and the deferred clean-up.         *)
(* Composes Tools, whose sessions it opens and closes.                      *)
(*                                                                         *)
(* A step is a provider, a call of main, or what another goroutine, an      *)
(* operator or the operating system does between two of them.               *)
(***************************************************************************)
EXTENDS Tools

CONSTANTS
    Requests     \* HTTP requests, each of which may start a run

VARIABLES
    file,        \* config.yaml can be read and decoded
    pc,          \* where main is
    next,        \* the server ProvideMCPRouter is at
    db,          \* the pool: none, open (not migrated), ready, closed
    box,         \* the sandbox manager: none, open, closed
    listener,    \* none, starting, open, closed
    sig,         \* the channel `quit` holds a signal
    late,        \* Shutdown gave up after 30 s
    reqs,        \* requests in flight
    runs,        \* runs in flight, by the request that started them
    ensuring,    \* the run that holds m.mu of the sandbox manager, if one does
    stuck,       \* and the Docker request it makes there never returns
    hung         \* the call main is in never returns

netVars == <<ensuring, stuck, hung>>
procVars == <<file, pc, next, db, box, listener, sig, late, reqs, runs, netVars>>
vars == <<toolVars, procVars>>

\* InitializeApp's providers that can fail once a database is there, in its order.
Failing   == {"agents", "sandbox", "report", "skill"}
Starting  == {"config", "db", "migrate", "mcp", "list"} \cup Failing
Serving   == {"notify", "wait"}
\* error: InitializeApp failed; exit1: os.Exit(1); killed: by a signal.
Ended     == {"error", "exit1", "killed", "returned"}
MainPcs   == Starting \cup Serving \cup Ended
               \cup {"reload", "listen", "shutdown", "clean3", "stop3", "clean2", "clean1"}
Alive     == pc \notin Ended

Init ==
    /\ ToolsInit
    /\ file \in BOOLEAN
    /\ pc = "config" /\ next = 1
    /\ db = "none" /\ box = "none" /\ listener = "none"
    /\ sig = FALSE /\ late = FALSE
    /\ reqs = {} /\ runs = {}
    /\ ensuring = {} /\ stuck = FALSE /\ hung = FALSE

-----------------------------------------------------------------------------
(* InitializeApp. *)

\* config.Load: the file cannot be opened or decoded, or gives the server list.
LoadConfig ==
    /\ pc = "config"
    /\ IF file THEN pc' = "db" /\ \E c \in Configs : UseConfig(c)
       ELSE pc' = "error" /\ UNCHANGED toolVars
    /\ UNCHANGED <<file, next, db, box, listener, sig, late, reqs, runs, netVars>>

\* ProvideDB: a bad database_url or no connection; then the migrations, whose
\* failure leaves the pool open.
OpenDB ==
    /\ pc = "db"
    /\ \/ db' = "open" /\ pc' = "migrate"
       \/ UNCHANGED db /\ pc' = "error"
    /\ UNCHANGED <<toolVars, file, next, box, listener, sig, late, reqs, runs, netVars>>

Migrate ==
    /\ pc = "migrate"
    /\ \/ db' = "ready" /\ pc' = "mcp"
       \/ UNCHANGED db /\ pc' = "error"
    /\ UNCHANGED <<toolVars, file, next, box, listener, sig, late, reqs, runs, netVars>>

\* ProvideMCPRouter never fails: it goes on with the next server.
RouteServer ==
    /\ pc = "mcp" /\ next \in DOMAIN cfg
    /\ \/ SkipServer(next) /\ next' = next + 1 /\ UNCHANGED pc
       \/ Connect(next) /\ pc' = "list" /\ UNCHANGED next
    /\ UNCHANGED <<file, db, box, listener, sig, late, reqs, runs, netVars>>

RouteTools ==
    /\ pc = "list"
    /\ ListFails(next) \/ ListTools(next)
    /\ next' = next + 1 /\ pc' = "mcp"
    /\ UNCHANGED <<file, db, box, listener, sig, late, reqs, runs, netVars>>

RouterReady ==
    /\ pc = "mcp" /\ next \notin DOMAIN cfg
    /\ pc' = "agents"
    /\ UNCHANGED <<toolVars, file, next, db, box, listener, sig, late, reqs, runs, netVars>>

NextProvider ==
    [agents |-> "sandbox", sandbox |-> "report", report |-> "skill", skill |-> "reload"]

\* The agents' seeds, the sandbox manager, the reports' and the skills' seeds.
Provide ==
    /\ pc \in Failing
    /\ pc' = NextProvider[pc]
    /\ box' = IF pc = "sandbox" THEN "open" ELSE box
    /\ UNCHANGED <<toolVars, file, next, db, listener, sig, late, reqs, runs, netVars>>

\* Wire's error paths: what the providers before returned is cleaned up.
BoxAfterError == IF box = "open" THEN "closed" ELSE box
ProvideFails ==
    /\ pc \in Failing
    /\ pc' = "error"
    /\ box' = BoxAfterError /\ sess' = ClosedSessions /\ db' = "closed"
    /\ UNCHANGED <<cfg, listed, routes, offered, last, file, next, listener, sig, late,
                   reqs, runs, netVars>>

-----------------------------------------------------------------------------
(* main. *)

\* config.yaml is read again, for the port; os.Exit runs no deferred function.
Reload ==
    /\ pc = "reload"
    /\ pc' = IF file THEN "listen" ELSE "exit1"
    /\ UNCHANGED <<toolVars, file, next, db, box, listener, sig, late, reqs, runs, netVars>>

Listen ==
    /\ pc = "listen"
    /\ listener' = "starting" /\ pc' = "notify"
    /\ UNCHANGED <<toolVars, file, next, db, box, sig, late, reqs, runs, netVars>>

\* signal.Notify: from here on a signal no longer kills the process.
Notify ==
    /\ pc = "notify" /\ pc' = "wait"
    /\ UNCHANGED <<toolVars, file, next, db, box, listener, sig, late, reqs, runs, netVars>>

\* <-quit, then Shutdown closes the listener.
WaitSignal ==
    /\ pc = "wait" /\ sig
    /\ sig' = FALSE /\ listener' = "closed" /\ pc' = "shutdown"
    /\ UNCHANGED <<toolVars, file, next, db, box, late, reqs, runs, netVars>>

\* Shutdown returns when no request is in flight, or after 30 s.
M_Idle == TRUE
Idle == reqs = {}
ShutdownDone ==
    /\ pc = "shutdown" /\ Idle
    /\ pc' = "clean3"
    /\ UNCHANGED <<toolVars, file, next, db, box, listener, sig, late, reqs, runs, netVars>>

M_TimeLimit == FALSE
TimeLimit == TRUE
ShutdownTimeout ==
    /\ TimeLimit
    /\ pc = "shutdown" /\ reqs # {}
    /\ late' = TRUE /\ pc' = "clean3"
    /\ UNCHANGED <<toolVars, file, next, db, box, listener, sig, reqs, runs, netVars>>

\* The deferred clean-up: cleanup3, cleanup2, cleanup, and main returns. Manager.Close
\* waits for m.mu, stops the containers while it holds it, and closes its client.
CleanUp ==
    \/ /\ pc = "clean3" /\ ensuring = {} /\ pc' = "stop3"
       /\ UNCHANGED <<toolVars, box, db>>
    \/ /\ pc = "stop3" /\ pc' = "clean2" /\ box' = "closed"
       /\ UNCHANGED <<toolVars, db>>
    \/ /\ pc = "clean2" /\ pc' = "clean1" /\ sess' = ClosedSessions
       /\ UNCHANGED <<cfg, listed, routes, offered, last, db, box>>
    \/ /\ pc = "clean1" /\ pc' = "returned" /\ db' = "closed"
       /\ UNCHANGED <<toolVars, box>>

CleanStep == CleanUp /\ UNCHANGED <<file, next, listener, sig, late, reqs, runs, netVars>>

\* Where main waits for the database, for MCP servers or for Docker. Neither
\* NewHTTPClient nor ProvideManager sets a time limit, and ctx is Background.
Remote == {"db", "migrate", "mcp", "list", "agents", "report", "skill",
           "stop3", "clean2", "clean1"}
MainHangs ==
    /\ pc \in Remote /\ ~hung /\ hung' = TRUE
    /\ UNCHANGED <<toolVars, file, pc, next, db, box, listener, sig, late, reqs, runs,
                   ensuring, stuck>>

-----------------------------------------------------------------------------
(* The other goroutines, and the world. *)

ListenStep ==
    /\ Alive
    /\ \/ listener = "starting" /\ listener' = "open" /\ UNCHANGED pc
       \/ listener \in {"starting", "open"} /\ pc' = "exit1" /\ UNCHANGED listener
    /\ UNCHANGED <<toolVars, file, next, db, box, sig, late, reqs, runs, netVars>>

Accept(q) ==
    /\ Alive /\ listener = "open" /\ q \notin reqs \cup runs
    /\ reqs' = reqs \cup {q}
    /\ UNCHANGED <<toolVars, file, pc, next, db, box, listener, sig, late, runs, netVars>>

\* go agentSvc.Run(context.Background(), ...): the run is nobody's to wait for.
StartRun(q) ==
    /\ Alive /\ q \in reqs \ runs
    /\ runs' = runs \cup {q}
    /\ UNCHANGED <<toolVars, file, pc, next, db, box, listener, sig, late, reqs, netVars>>

Respond(q) ==
    /\ Alive /\ q \in reqs
    /\ reqs' = reqs \ {q}
    /\ UNCHANGED <<toolVars, file, pc, next, db, box, listener, sig, late, runs, netVars>>

RunCalls(q) ==
    /\ Alive /\ q \in runs
    /\ \E n \in OfferedNames \cup {<<"unknown">>} : CallTool(n)
    /\ UNCHANGED procVars

\* Ensure of a run's sandbox tool: m.mu is held while Docker creates the container and
\* starts it, with the run's context, which is Background.
EnsureBegins(q) ==
    /\ Alive /\ q \in runs
    /\ ensuring = {} /\ pc # "stop3"
    /\ ensuring' = {q} /\ stuck' \in BOOLEAN
    /\ UNCHANGED <<toolVars, file, pc, next, db, box, listener, sig, late, reqs, runs, hung>>

EnsureReturns(q) ==
    /\ Alive /\ q \in ensuring /\ ~stuck
    /\ ensuring' = {}
    /\ UNCHANGED <<toolVars, file, pc, next, db, box, listener, sig, late, reqs, runs, stuck,
                   hung>>

RunEnds(q) ==
    /\ Alive /\ q \in runs \ ensuring
    /\ runs' = runs \ {q}
    /\ UNCHANGED <<toolVars, file, pc, next, db, box, listener, sig, late, reqs, netVars>>

\* SIGINT or SIGTERM: fatal before Notify; one is kept, more are dropped.
Signal ==
    /\ Alive
    /\ IF pc \in Starting \cup {"reload", "listen", "notify"}
       THEN pc' = "killed" /\ UNCHANGED sig
       ELSE sig' = TRUE /\ UNCHANGED pc
    /\ UNCHANGED <<toolVars, file, next, db, box, listener, late, reqs, runs, netVars>>

EditConfig ==
    /\ Alive /\ file' = ~file
    /\ UNCHANGED <<toolVars, pc, next, db, box, listener, sig, late, reqs, runs, netVars>>

Stopped == ~Alive /\ UNCHANGED vars

Main ==
    /\ ~hung
    /\ \/ LoadConfig \/ OpenDB \/ Migrate \/ RouteServer \/ RouteTools \/ RouterReady
       \/ Provide \/ ProvideFails \/ Reload \/ Listen \/ Notify \/ WaitSignal
       \/ ShutdownDone \/ ShutdownTimeout \/ CleanStep

Next ==
    \/ Main \/ MainHangs \/ ListenStep \/ Signal \/ EditConfig \/ Stopped
    \/ \E q \in Requests :
          \/ Accept(q) \/ StartRun(q) \/ Respond(q) \/ RunCalls(q) \/ RunEnds(q)
          \/ EnsureBegins(q) \/ EnsureReturns(q)

Spec == Init /\ [][Next]_vars

\* Main runs on and the shutdown's timer fires, unless the call main is in never
\* returns; a Docker request of a run that is not stuck returns; and sync.Mutex does
\* not let the waiting Close starve. Requests and runs need not end, nor need a signal
\* come.
FairSpec ==
    /\ Spec
    /\ WF_vars(Main) /\ SF_vars(pc = "clean3" /\ Main)
    /\ \A q \in Requests : WF_vars(EnsureReturns(q))

-----------------------------------------------------------------------------
(* Properties. *)

\* Every variable of the process and of its tools has its type.
TypeOK ==
    /\ cfg \in Configs \cup {<<>>}
    /\ sess \in [DOMAIN cfg -> {"none", "open", "kept", "closed"}]
    /\ listed \in [DOMAIN cfg -> ToolLists \cup {{}}]
    /\ \A n \in DOMAIN routes : routes[n] \in (DOMAIN cfg) \X (UNION ToolLists)
    /\ \A o \in offered : o \in Seq(STRING) \X DOMAIN cfg
    /\ file \in BOOLEAN /\ pc \in MainPcs /\ next \in 1..(Len(cfg) + 1)
    /\ db \in {"none", "open", "ready", "closed"}
    /\ box \in {"none", "open", "closed"}
    /\ listener \in {"none", "starting", "open", "closed"}
    /\ sig \in BOOLEAN /\ late \in BOOLEAN
    /\ reqs \subseteq Requests /\ runs \subseteq Requests
    /\ ensuring \subseteq Requests /\ stuck \in BOOLEAN /\ hung \in BOOLEAN

OpenSession == \E i \in DOMAIN cfg : sess[i] \in {"open", "kept"}

\* ph2-mcp.md: "wire_gen.go wires cleanup2 (MCP client Close calls) into the app
\* shutdown function": InitializeApp that fails, at any provider, and main that returns
\* leave nothing open that a provider had returned, nor a session that was skipped.
ReleasedOnReturn ==
    pc \in {"error", "returned"} => ~OpenSession /\ box # "open" /\ db # "ready"

\* ph0-foundation.md: "SIGINT/SIGTERM -> 30 s graceful shutdown": nothing a request
\* needs is closed under it, unless it was still in flight 30 s after the signal.
RequestsServed ==
    Alive /\ reqs # {} /\ ~late =>
        /\ db = "ready" /\ box = "open"
        /\ \A i \in DOMAIN cfg : listed[i] # {} => sess[i] = "kept"

\* A signal that arrives once Notify was called ends the process, whatever streams stay
\* connected, runs go on or signals follow, unless the clean-up comes to a call that
\* never returns: one of its own, or, in Manager.Close, the Docker request of the run
\* that holds m.mu.
Blocked == hung \/ (pc = "clean3" /\ ensuring # {} /\ stuck)
ShutdownEnds == sig ~> (~Alive \/ Blocked)

\* ph0-foundation.md: "SIGINT/SIGTERM -> 30 s graceful shutdown". No run checks it: a
\* Docker request without a time limit keeps the process for ever.
ShutdownAlwaysEnds == sig ~> ~Alive

\* The inductive invariant behind the safety properties: where main is, the file it
\* read, the servers it has come to, what is open, and who may still be served.
Closing == {"shutdown", "clean3", "stop3", "clean2", "clean1"}

FreshInv ==
    /\ pc = "config" => next = 1
    /\ pc = "list" => next \in DOMAIN cfg
    /\ pc \in {"config", "db", "migrate"} => \A i \in DOMAIN cfg : sess[i] = "none"
    /\ pc \in {"config", "db", "migrate", "mcp", "list"} =>
          \A i \in DOMAIN cfg : i >= next => listed[i] = {}

OpenInv ==
    /\ pc \in {"config", "db"} => db = "none"
    /\ pc = "migrate" => db = "open"
    /\ pc \notin Ended \cup {"config", "db", "migrate"} => db = "ready"
    /\ pc \in Starting \ {"report", "skill"} => box = "none"
    /\ pc \in {"report", "skill", "reload", "listen", "notify", "wait", "shutdown",
              "clean3", "stop3"} => box = "open"
    /\ pc \in {"clean2", "clean1"} => box = "closed"
    /\ \A i \in DOMAIN cfg : sess[i] = "open" => pc \in {"list", "killed"} /\ i = next
    /\ pc = "clean1" => ~OpenSession
    /\ pc \notin Ended \cup {"clean1"} =>
          \A i \in DOMAIN cfg : listed[i] # {} => sess[i] = "kept"

ServeInv ==
    /\ pc \in Starting \cup {"reload", "listen"} => listener = "none"
    /\ listener = "none" => reqs = {} /\ runs = {} /\ last = None
    /\ ensuring \subseteq runs /\ (pc = "stop3" => ensuring = {})
    /\ \A q, r \in ensuring : q = r
    /\ stuck => ensuring # {}
    /\ pc \in Closing => listener = "closed"
    /\ pc \in Closing \ {"shutdown"} => reqs = {} \/ late

IInv ==
    /\ TypeOK /\ RoutesInv /\ FreshInv /\ OpenInv /\ ServeInv
    /\ CallReachesOfferer /\ ReleasedOnReturn
=============================================================================
