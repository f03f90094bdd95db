------------------------------ MODULE Sandbox ------------------------------
(***************************************************************************)
(* The Docker sandbox: Manager.Ensure with its mutex and its map of cached  *)
(* containers, the file and command tools that run in them, Close at        *)
(* shutdown, and server processes that follow one another on one Docker     *)
(* daemon. A step is one request to the daemon, or what Ensure and Close do  *)
(* under the mutex between two of them.                                     *)
(*                                                                         *)
(* A file is abstracted to the conversations whose calls wrote into it, and  *)
(* a conversation's workspace, a directory of the host, to one file.        *)
(***************************************************************************)
EXTENDS Naturals, FiniteSets

CONSTANTS
    Convs,          \* conversations
    Prefix,         \* per conversation: the first 8 characters of its id
    Calls,          \* goroutines that make sandbox tool calls, one after another
    None,
    Faults,         \* may a request to Docker be refused?
    MaxContainers,  \* bound on the containers ever created
    MaxStarts       \* bound on server processes

Closer == "Close"

ASSUME SandboxAssumption ==
    /\ None \notin Calls /\ Closer \notin Calls /\ None # Closer
    /\ Faults \in BOOLEAN
    /\ MaxContainers \in Nat /\ MaxStarts \in Nat \ {0}

VARIABLES
    proc,       \* the server process: "up", "closing", "closed" or "down"
    starts,     \* server processes so far
    lock,       \* who holds m.mu
    cache,      \* m.containers: per conversation a container id, or 0
    docker,     \* the daemon's containers
    born,       \* containers created so far; the last one has this id
    pc,         \* where each call is
    conv,       \* per call: its conversation
    box,        \* per call: id of the container it creates or works in
    seen,       \* per call: whose content the file had that it is editing
    file        \* per conversation: whose content its file has

callVars == <<pc, conv, box, seen>>
vars == <<proc, starts, lock, cache, docker, born, callVars, file>>

Init ==
    /\ proc = "up" /\ starts = 1
    /\ lock = None
    /\ cache = [c \in Convs |-> 0]
    /\ docker = {} /\ born = 0
    /\ pc = [k \in Calls |-> "idle"]
    /\ conv = [k \in Calls |-> None]
    /\ box = [k \in Calls |-> 0]
    /\ seen = [k \in Calls |-> {}]
    /\ file = [c \in Convs |-> {}]

Alive == proc # "down"
Goto(k, l) == pc' = [pc EXCEPT ![k] = l]

\* The call returns its result or its error.
Return(k) ==
    /\ Goto(k, "idle")
    /\ conv' = [conv EXCEPT ![k] = None]
    /\ box' = [box EXCEPT ![k] = 0]
    /\ seen' = [seen EXCEPT ![k] = {}]

-----------------------------------------------------------------------------
(* The daemon. Seeded faults (M_...) precede the definition they replace. *)

Container(id, c, name, st) == [id |-> id, conv |-> c, name |-> name, st |-> st]
With(id)    == {d \in docker : d.id = id}
Running(id) == \E d \in With(id) : d.st = "running"

\* Two containers never share a name.
M_Name(c) == <<Prefix[c], born>>
Name(c)   == <<Prefix[c]>>
Taken(c)  == \E d \in docker : d.name = Name(c)

\* AutoRemove: a container that stops is removed.
Without(id) == docker \ With(id)

-----------------------------------------------------------------------------
(* Ensure. *)

\* The map is keyed by the whole conversation id.
M_Cached(c) == LET Near == {d \in Convs : Prefix[d] = Prefix[c] /\ cache[d] # 0}
               IN  IF Near = {} THEN 0 ELSE cache[CHOOSE d \in Near : TRUE]
Cached(c) == cache[c]

\* What the map holds once a container is created but not started.
CacheCreated(c, id) == cache

\* The deferred Unlock.
M_Released == lock
Released == None

\* A tool handler runs, and asks for its conversation's container.
Begin(k, c) ==
    /\ Alive /\ pc[k] = "idle"
    /\ Goto(k, "lock")
    /\ conv' = [conv EXCEPT ![k] = c]
    /\ UNCHANGED <<proc, starts, lock, cache, docker, born, box, seen, file>>

\* With the mutex: a cached container is used, whatever became of it since.
EnterCached(k) ==
    /\ pc[k] = "lock" /\ lock = None
    /\ Cached(conv[k]) # 0
    /\ box' = [box EXCEPT ![k] = Cached(conv[k])]
    /\ Goto(k, "run")
    /\ UNCHANGED <<proc, starts, lock, cache, docker, born, conv, seen, file>>

EnterNew(k) ==
    /\ pc[k] = "lock" /\ lock = None
    /\ Cached(conv[k]) = 0
    /\ lock' = k
    /\ Goto(k, "create")
    /\ UNCHANGED <<proc, starts, cache, docker, born, conv, box, seen, file>>

\* ContainerCreate, with the conversation's host directory bound to /workspace.
Create(k) ==
    LET c == conv[k]
        id == born + 1
    IN  /\ pc[k] = "create" /\ ~Taken(c) /\ born < MaxContainers
        /\ docker' = docker \cup {Container(id, c, Name(c), "created")}
        /\ born' = id
        /\ box' = [box EXCEPT ![k] = id]
        /\ cache' = CacheCreated(c, id)
        /\ Goto(k, "start")
        /\ UNCHANGED <<proc, starts, lock, conv, seen, file>>

\* The call ends with an error result, and unlocks.
GiveUp(k) == lock' = Released /\ Return(k)

\* The name is taken, or mkdir or the daemon refuses.
CreateFails(k) ==
    /\ pc[k] = "create"
    /\ Taken(conv[k]) \/ Faults \/ born = MaxContainers
    /\ GiveUp(k)
    /\ UNCHANGED <<proc, starts, cache, docker, born, file>>

Start(k) ==
    LET id == box[k]
    IN  /\ pc[k] = "start"
        /\ docker' = Without(id) \cup {[d EXCEPT !.st = "running"] : d \in With(id)}
        /\ cache' = [cache EXCEPT ![conv[k]] = id]
        /\ lock' = Released
        /\ Goto(k, "run")
        /\ UNCHANGED <<proc, starts, born, conv, box, seen, file>>

\* ContainerStart returned an error: the daemon may have removed the container,
\* left it as it was, or started it while the answer was lost.
StartFails(k) ==
    LET id == box[k]
    IN  /\ pc[k] = "start" /\ Faults
        /\ docker' \in {Without(id), docker,
                        Without(id) \cup {[d EXCEPT !.st = "running"] : d \in With(id)}}
        /\ GiveUp(k)
        /\ UNCHANGED <<proc, starts, cache, born, file>>

-----------------------------------------------------------------------------
(* The tools, in the container Ensure returned. *)

\* The host directory a container has as /workspace.
Mount(id) == (CHOOSE d \in With(id) : TRUE).conv

\* read_file, list_directory, run_command: a command prints files of the workspace,
\* and run_command may write them as well.
Exec(k) ==
    /\ pc[k] = "run" /\ Running(box[k])
    /\ \/ file' = [file EXCEPT ![Mount(box[k])] = @ \cup {conv[k]}]
       \/ UNCHANGED file
    /\ Return(k)
    /\ UNCHANGED <<proc, starts, lock, cache, docker, born>>

\* EditFile: cat the file. The text it prints, an error message if there is no such
\* file, has to contain old_str (else ToolFails).
EditRead(k) ==
    /\ pc[k] = "run" /\ Running(box[k])
    /\ seen' = [seen EXCEPT ![k] = file[Mount(box[k])]]
    /\ Goto(k, "write")
    /\ UNCHANGED <<proc, starts, lock, cache, docker, born, conv, box, file>>

\* WriteFile, with content it was given or with what EditFile read, edited: mkdir,
\* then CopyToContainer.
Write(k) ==
    /\ pc[k] \in {"run", "write"} /\ Running(box[k])
    /\ file' = [file EXCEPT ![Mount(box[k])] = seen[k] \cup {conv[k]}]
    /\ Return(k)
    /\ UNCHANGED <<proc, starts, lock, cache, docker, born>>

\* The container is gone, the path is refused, old_str is not there, or the daemon
\* refuses.
ToolFails(k) ==
    /\ pc[k] \in {"run", "write"}
    /\ Return(k)
    /\ UNCHANGED <<proc, starts, lock, cache, docker, born, file>>

\* A container's process ends, for want of memory for one, and it is removed.
ContainerDies(id) ==
    /\ Faults /\ Running(id)
    /\ docker' = Without(id)
    /\ UNCHANGED <<proc, starts, lock, cache, born, callVars, file>>

-----------------------------------------------------------------------------
(* Shutdown. Runs are not waited for: their calls go on until the exit. *)

\* Close takes the mutex ...
CloseBegin ==
    /\ proc = "up" /\ lock = None
    /\ proc' = "closing" /\ lock' = Closer
    /\ UNCHANGED <<starts, cache, docker, born, callVars, file>>

\* ... stops the cached containers one by one; a failure is only logged ...
StopOne(c) ==
    /\ proc = "closing" /\ cache[c] # 0
    /\ docker' = Without(cache[c]) \/ (Faults /\ UNCHANGED docker)
    /\ cache' = [cache EXCEPT ![c] = 0]
    /\ UNCHANGED <<proc, starts, lock, born, callVars, file>>

\* ... and unlocks. The client it closes can still be used.
CloseEnd ==
    /\ proc = "closing" /\ \A c \in Convs : cache[c] = 0
    /\ proc' = "closed" /\ lock' = None
    /\ UNCHANGED <<starts, cache, docker, born, callVars, file>>

\* The process exits after Close, or dies at any moment; the daemon goes on.
Exit ==
    /\ Alive
    /\ proc' = "down"
    /\ lock' = None
    /\ cache' = [c \in Convs |-> 0]
    /\ pc' = [k \in Calls |-> "idle"]
    /\ conv' = [k \in Calls |-> None]
    /\ box' = [k \in Calls |-> 0]
    /\ seen' = [k \in Calls |-> {}]
    /\ UNCHANGED <<starts, docker, born, file>>

Restart ==
    /\ proc = "down" /\ starts < MaxStarts
    /\ proc' = "up"
    /\ starts' = starts + 1
    /\ UNCHANGED <<lock, cache, docker, born, callVars, file>>

\* The last server process the bound allows is gone.
Quiescent == proc = "down" /\ starts = MaxStarts /\ UNCHANGED vars

Enter(k) == EnterCached(k) \/ EnterNew(k)
Holding(k) == Create(k) \/ CreateFails(k) \/ Start(k) \/ StartFails(k)

Next ==
    \/ \E k \in Calls, c \in Convs : Begin(k, c)
    \/ \E k \in Calls : \/ Enter(k) \/ Holding(k)
                        \/ Exec(k) \/ EditRead(k) \/ Write(k) \/ ToolFails(k)
    \/ \E d \in docker : ContainerDies(d.id)
    \/ CloseBegin \/ (\E c \in Convs : StopOne(c)) \/ CloseEnd
    \/ Exit \/ Restart \/ Quiescent

Spec == Init /\ [][Next]_vars

\* The daemon answers every request. A sync.Mutex is handed to waiters in turn once
\* they have waited a millisecond, so a waiter gets it if it is free again and again.
Fairness ==
    /\ \A k \in Calls : SF_vars(Enter(k)) /\ WF_vars(Holding(k))
    /\ WF_vars(CloseEnd) /\ \A c \in Convs : WF_vars(StopOne(c))

FairSpec == Spec /\ Fairness

-----------------------------------------------------------------------------
(* Properties. *)

\* Every variable has its type, the mutex is held by whoever is in its critical
\* section and by nobody else, and at most one call is there.
TypeOK ==
    /\ proc \in {"up", "closing", "closed", "down"} /\ starts \in 1..MaxStarts
    /\ lock \in Calls \cup {None, Closer}
    /\ lock = Closer <=> proc = "closing"
    /\ \A k \in Calls : lock = k <=> pc[k] \in {"create", "start"}
    /\ cache \in [Convs -> 0..born] /\ born \in 0..MaxContainers
    /\ docker \subseteq [id : 1..born, conv : Convs, name : {<<Prefix[c]>> : c \in Convs},
                         st : {"created", "running"}]
    /\ pc \in [Calls -> {"idle", "lock", "create", "start", "run", "write"}]
    /\ conv \in [Calls -> Convs \cup {None}]
    /\ box \in [Calls -> 0..born]
    /\ seen \in [Calls -> SUBSET Convs] /\ file \in [Convs -> SUBSET Convs]

\* ph8: a call only works in a container that has its own conversation's workspace,
\* and a workspace is written by calls of its conversation only, although container
\* names keep 8 characters of the id, containers die, and servers are restarted.
WorkspaceIsolated ==
    /\ \A c \in Convs : file[c] \subseteq {c}
    /\ \A k \in Calls : pc[k] \in {"run", "write"} =>
          \A d \in With(box[k]) : d.conv = conv[k]

\* No two containers have the same workspace, not even one a crashed or interrupted
\* server left behind and one its successor made.
OneContainer ==
    \A d, e \in docker : d.conv = e.conv => d = e

\* A container that could not be started is never used: whatever a call works in,
\* or finds in the map, was started.
CachedWasStarted ==
    \A d \in docker : d.st = "created" =>
        /\ \A c \in Convs : cache[c] # d.id
        /\ \A k \in Calls : pc[k] \in {"run", "write"} => box[k] # d.id

\* A call that waits for the mutex gets its container or its error, although others
\* hold it for requests to Docker, and fail there.
EnsureEnds ==
    \A k \in Calls : pc[k] = "lock" ~> pc[k] \notin {"lock", "create", "start"}

\* The inductive invariant behind them: a name tells the conversation's prefix and
\* nobody else's, and whatever id the map or a call holds, the container of that id,
\* if it is still there, is of the conversation it is held for.
DockerInv ==
    \A d, e \in docker :
        /\ d.name = <<Prefix[d.conv]>>
        /\ d.id = e.id \/ d.name = e.name => d = e

CacheInv == \A c \in Convs : \A d \in docker : d.id = cache[c] => d.conv = c /\ d.st = "running"

CallInv(k) ==
    /\ pc[k] # "idle" => conv[k] \in Convs
    /\ pc[k] \in {"start", "run", "write"} =>
          \A d \in docker : d.id = box[k] =>
              d.conv = conv[k] /\ (pc[k] # "start" => d.st = "running")
    /\ seen[k] \subseteq {conv[k]}
    /\ pc[k] # "write" => seen[k] = {}

IInv ==
    /\ TypeOK /\ DockerInv /\ CacheInv
    /\ \A k \in Calls : CallInv(k)
    /\ \A c \in Convs : file[c] \subseteq {c}
=============================================================================
