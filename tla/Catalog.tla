------------------------------ MODULE Catalog ------------------------------
(***************************************************************************)
(* Agents, skills and conversations in the database: the requests of users,  *)
(* which read a row and then write it, and the seeding every server process  *)
(* does at startup in the order of wire_gen.go (agents with their loadouts,  *)
(* report conversations, skills), by find-or-create. Several processes may   *)
(* use one database. A step is one SQL statement.                           *)
(***************************************************************************)
EXTENDS Naturals, FiniteSets

CONSTANTS
    Servers,    \* server processes
    Clients,    \* API requests, one after another
    Agents, Skills, Reports,   \* names this build seeds
    Loadout,    \* per seeded agent: names of its skills
    UserNames,  \* per kind: names users give to what they create or rename, seeds' too
    Earlier,    \* tables that users of an earlier build, with fewer seeds, may have left
    Faults,     \* may the database refuse a statement?
    MaxRows,    \* bound on the rows ever created
    MaxLinks    \* bound on the links when a user adds one

Kinds == {"agent", "skill", "conversation"}

AllUserNames == UNION {UserNames[kind] : kind \in Kinds}

ASSUME CatalogAssumption ==
    /\ Loadout \in [Agents -> SUBSET Skills]
    /\ Servers \cap Clients = {}
    /\ Faults \in BOOLEAN /\ MaxRows \in Nat /\ MaxLinks \in Nat

\* Rows of users, numbered from 1, each name of an agent or a skill once.
ASSUME EarlierAssumption ==
    \A old \in Earlier :
        /\ IsFiniteSet(old) /\ Cardinality(old) <= MaxRows
        /\ old \subseteq [id : 1..Cardinality(old), kind : Kinds, name : AllUserNames, sys : {FALSE}]
        /\ \A r, q \in old :
              \/ r.id = q.id
              \/ r.kind = q.kind /\ r.name = q.name /\ r.kind # "conversation"
              => r = q

VARIABLES
    rows,       \* the three tables: [id, kind, name, sys]
    links,      \* agent_skills: <<agent id, skill id>>, and conversation_agents:
                \* <<conversation id, agent id>>
    born,       \* rows created so far; the last one has this id
    phase,      \* per server: what it is seeding, "up", "down" or "failed"
    todo,       \* per server: names left to seed in this phase
    left,       \* per server: skills left to load on the agent it has seeded
    pc,         \* per server and client: its next statement
    arg,        \* ... and the row or the names that one works on
    agentId,    \* per server: the agent whose skills it loads
    again,      \* servers that found the skills of every loadout there when they booted
    taken,      \* history: seeds' names that users have given to rows of theirs
    unloaded    \* history: seeded skills that users have taken off seeded agents

dbVars == <<rows, links, born, taken, unloaded>>
taskVars == <<phase, todo, left, agentId, again>>
vars == <<dbVars, taskVars, pc, arg>>

Actors == Servers \cup Clients
Row(id, kind, name, sys) == [id |-> id, kind |-> kind, name |-> name, sys |-> sys]
NoArg == Row(0, "agent", "none", FALSE)

\* The names only startup is meant to give, and what a user's row takes of them.
SeedNames == ({"agent"} \X Agents) \cup ({"skill"} \X Skills)
Takes(kind, name) == taken' = taken \cup ({<<kind, name>>} \cap SeedNames)

Init ==
    /\ rows \in Earlier /\ links = {} /\ born = Cardinality(rows)
    /\ taken = {<<r.kind, r.name>> : r \in rows} \cap SeedNames
    /\ unloaded = {} /\ again = {}
    /\ phase = [s \in Servers |-> "down"]
    /\ todo = [s \in Servers |-> {}] /\ left = [s \in Servers |-> {}]
    /\ pc = [a \in Actors |-> "idle"]
    /\ arg = [a \in Actors |-> NoArg]
    /\ agentId = [s \in Servers |-> 0]

Goto(a, l) == pc' = [pc EXCEPT ![a] = l]
Up == {s \in Servers : phase[s] = "up"}

-----------------------------------------------------------------------------
(* The database. Seeded faults (M_...) precede the definition they replace. *)

Named(kind, name) == {r \in rows : r.kind = kind /\ r.name = name}
Table(kind)       == {r \in rows : r.kind = kind}
ById(kind, id)    == {r \in rows : r.kind = kind /\ r.id = id}

\* Names of agents and of skills are unique, titles of conversations are not.
Duplicate(kind, name) == kind # "conversation" /\ Named(kind, name) # {}

\* ON DELETE CASCADE.
M_LinksWithout(id) == links
LinksWithout(id) == {l \in links : id \notin {l[1], l[2]}}

Insert(r) == rows' = rows \cup {r} /\ born' = born + 1 /\ UNCHANGED <<links, unloaded>>

\* A statement is refused; past the bound every insert is.
Refusable == Faults \/ born = MaxRows

\* The process dies, or its startup returns the database's error and it exits.
Down(s) ==
    /\ phase' = [phase EXCEPT ![s] = "down"]
    /\ todo' = [todo EXCEPT ![s] = {}]
    /\ left' = [left EXCEPT ![s] = {}]
    /\ agentId' = [agentId EXCEPT ![s] = 0]
    /\ again' = again \ {s}
    /\ arg' = [arg EXCEPT ![s] = NoArg]
    /\ Goto(s, "idle")

Exit(s) == phase[s] # "down" /\ Down(s) /\ UNCHANGED dbVars

\* The phases, what each seeds, and in which table.
After == [agents |-> "reports", reports |-> "skills", skills |-> "up"]
Seeds == [agents |-> Agents, reports |-> Reports, skills |-> Skills, up |-> {}]
KindOf == [agents |-> "agent", reports |-> "conversation", skills |-> "skill"]

Boot(s) ==
    /\ phase[s] = "down"
    /\ phase' = [phase EXCEPT ![s] = "agents"]
    /\ todo' = [todo EXCEPT ![s] = Seeds["agents"]]
    /\ again' = IF \A n \in Skills : Named("skill", n) # {} THEN again \cup {s} ELSE again
    /\ Goto(s, "next")
    /\ UNCHANGED <<dbVars, left, agentId, arg>>

-----------------------------------------------------------------------------
(* Startup: Init of AgentService, ReportService and SkillService. *)

NextSeed(s) ==
    /\ pc[s] = "next"
    /\ \E n \in todo[s] :
          /\ todo' = [todo EXCEPT ![s] = @ \ {n}]
          /\ arg' = [arg EXCEPT ![s] = Row(0, KindOf[phase[s]], n, TRUE)]
    /\ Goto(s, "find")
    /\ UNCHANGED <<dbVars, phase, left, agentId, again>>

NextPhase(s) ==
    /\ pc[s] = "next" /\ todo[s] = {}
    /\ phase' = [phase EXCEPT ![s] = After[@]]
    /\ todo' = [todo EXCEPT ![s] = Seeds[After[phase[s]]]]
    /\ Goto(s, IF After[phase[s]] = "up" THEN "idle" ELSE "next")
    /\ UNCHANGED <<dbVars, left, agentId, again, arg>>

\* getOrCreateSystemAgent, getOrCreateSystemSkill or GetOrCreateReportConversation
\* has an id: a server goes on seeding, a client's report run starts.
Have(a, id) ==
    /\ IF a \in Servers /\ phase[a] = "agents"
       THEN /\ left' = [left EXCEPT ![a] = Loadout[arg[a].name]]
            /\ agentId' = [agentId EXCEPT ![a] = id]
            /\ Goto(a, "skill")
       ELSE /\ Goto(a, IF a \in Servers THEN "next" ELSE "idle")
            /\ UNCHANGED <<left, agentId>>
    /\ arg' = [arg EXCEPT ![a] = NoArg]
    /\ UNCHANGED <<phase, todo, again>>

\* An error that is not the database's refusal.
Fails(a) ==
    /\ Goto(a, "idle")
    /\ arg' = [arg EXCEPT ![a] = NoArg]
    /\ phase' = [s \in Servers |-> IF s = a THEN "failed" ELSE phase[s]]
    /\ UNCHANGED <<todo, left, agentId, again>>

\* The first look: First finds a row, or there is none. For a conversation any
\* error is taken for "there is none".
Find(a) ==
    LET found == Named(arg[a].kind, arg[a].name)
    IN  /\ pc[a] = "find"
        /\ \/ \E r \in found : Have(a, r.id)
           \/ /\ found = {} \/ (arg[a].kind = "conversation" /\ Faults)
              /\ Goto(a, "create")
              /\ UNCHANGED <<taskVars, arg>>
        /\ UNCHANGED dbVars

\* The row startup creates; a conversation has no is_system.
M_SeedRow(id, r) == Row(id, r.kind, r.name, FALSE)
SeedRow(id, r) == Row(id, r.kind, r.name, r.kind # "conversation")

Create(a) ==
    /\ pc[a] = "create" /\ born < MaxRows
    /\ ~Duplicate(arg[a].kind, arg[a].name)
    /\ Insert(SeedRow(born + 1, arg[a]))
    /\ Have(a, born + 1)
    /\ UNCHANGED taken

\* isDuplicateKeyError: somebody else was first, look again.
M_LostRace(a) == Fails(a)
LostRace(a) == Goto(a, "refind") /\ UNCHANGED <<taskVars, arg>>

CreateLost(a) ==
    /\ pc[a] = "create" /\ Duplicate(arg[a].kind, arg[a].name)
    /\ LostRace(a)
    /\ UNCHANGED dbVars

Refind(a) ==
    LET found == Named(arg[a].kind, arg[a].name)
    IN  /\ pc[a] = "refind"
        /\ \/ \E r \in found : Have(a, r.id)
           \/ found = {} /\ Fails(a)
        /\ UNCHANGED dbVars

\* The agent's loadout: find each skill by its name, skip the ones that are absent.
NextSkill(s) ==
    /\ pc[s] = "skill"
    /\ \E n \in left[s] :
          /\ left' = [left EXCEPT ![s] = @ \ {n}]
          /\ \/ \E r \in Named("skill", n) :
                   arg' = [arg EXCEPT ![s] = r] /\ Goto(s, "check")
             \/ Named("skill", n) = {} /\ UNCHANGED <<arg, pc>>
    /\ UNCHANGED <<dbVars, phase, todo, agentId, again>>

LoadoutDone(s) ==
    /\ pc[s] = "skill" /\ left[s] = {}
    /\ Goto(s, "next")
    /\ UNCHANGED <<dbVars, taskVars, arg>>

\* LoadSkill: both rows have to be there, at the check and at the insert; a
\* duplicate link is ignored.
Loaded(s) ==
    /\ Goto(s, "skill")
    /\ arg' = [arg EXCEPT ![s] = NoArg]

Check(s) ==
    LET there == ById("agent", agentId[s]) # {} /\ ById("skill", arg[s].id) # {}
    IN  /\ pc[s] = "check"
        /\ \/ there /\ Goto(s, "link") /\ UNCHANGED <<taskVars, arg>>
           \/ ~there /\ Fails(s)
        /\ UNCHANGED dbVars

Link(s) ==
    LET there == ById("agent", agentId[s]) # {} /\ ById("skill", arg[s].id) # {}
    IN  /\ pc[s] = "link"
        /\ \/ /\ there /\ Loaded(s)
              /\ links' = links \cup {<<agentId[s], arg[s].id>>}
              /\ UNCHANGED taskVars
           \/ ~there /\ Fails(s) /\ UNCHANGED links
        /\ UNCHANGED <<rows, born, taken, unloaded>>

\* A statement of the startup is refused: the process exits.
Refused(s) ==
    /\ \/ Faults /\ pc[s] \in {"find", "refind", "skill", "check", "link"}
          /\ ~(pc[s] = "find" /\ arg[s].kind = "conversation")
       \/ pc[s] = "create" /\ Refusable
    /\ Down(s)
    /\ UNCHANGED dbVars

-----------------------------------------------------------------------------
(* Requests of users. *)

\* POST: a new agent, skill or conversation; 409 or 500 if the name is taken.
UserCreate(c, kind, name) ==
    /\ Up # {} /\ pc[c] = "idle" /\ born < MaxRows
    /\ ~Duplicate(kind, name)
    /\ Insert(Row(born + 1, kind, name, FALSE)) /\ Takes(kind, name)
    /\ UNCHANGED <<taskVars, pc, arg>>

\* ErrSystemReadOnly.
M_Writable(r) == TRUE
Writable(r) == ~r.sys

\* Update and Delete of an agent or a skill: Get the row ...
Get(c, r, l) ==
    /\ Up # {} /\ pc[c] = "idle"
    /\ r \in rows /\ r.kind # "conversation" /\ Writable(r)
    /\ Goto(c, l)
    /\ arg' = [arg EXCEPT ![c] = r]
    /\ UNCHANGED <<dbVars, taskVars>>

Done(c) == Goto(c, "idle") /\ arg' = [arg EXCEPT ![c] = NoArg]

\* ... then Save it with another name: UPDATE ... WHERE id = ?, which a unique name
\* may refuse; if there is no such row any more, gorm inserts the one it has, and on
\* a duplicate name overwrites the row of that name but for its id.
Save(c, name) ==
    LET old    == ById(arg[c].kind, arg[c].id)
        others == Named(arg[c].kind, name) \ old
    IN  /\ pc[c] = "save"
        /\ \/ /\ others = {} /\ Takes(arg[c].kind, name)
              /\ rows' = (rows \ old) \cup {[arg[c] EXCEPT !.name = name]}
           \/ /\ others # {} /\ old = {} /\ Takes(arg[c].kind, name)
              /\ rows' = (rows \ others) \cup {[r EXCEPT !.sys = arg[c].sys] : r \in others}
           \/ others # {} /\ old # {} /\ UNCHANGED <<rows, taken>>
        /\ Done(c)
        /\ UNCHANGED <<links, born, unloaded, taskVars>>

\* ... or DELETE ... WHERE id = ?.
Delete(c) ==
    /\ pc[c] = "delete"
    /\ rows' = rows \ ById(arg[c].kind, arg[c].id)
    /\ links' = LinksWithout(arg[c].id)
    /\ Done(c)
    /\ UNCHANGED <<born, taken, unloaded, taskVars>>

\* LoadSkill, whose checks the foreign keys repeat, and UnloadSkill.
LoadSkill(c, a, g) ==
    /\ Up # {} /\ pc[c] = "idle" /\ Cardinality(links) < MaxLinks
    /\ links' = links \cup {<<a.id, g.id>>}
    /\ UNCHANGED <<rows, born, taken, unloaded, taskVars, pc, arg>>

UnloadSkill(c, l) ==
    LET pairs == {<<a.name, g.name>> : a \in ById("agent", l[1]), g \in ById("skill", l[2])}
    IN  /\ Up # {} /\ pc[c] = "idle"
        /\ links' = links \ {l}
        /\ unloaded' = unloaded \cup (pairs \cap (Agents \X Skills))
        /\ UNCHANGED <<rows, born, taken, taskVars, pc, arg>>

\* AddAgentToConversation, whose check of the agent the foreign key repeats (only the
\* key checks the conversation), and RemoveAgentFromConversation.
AddAgentToConversation(c, v, a) ==
    /\ Up # {} /\ pc[c] = "idle" /\ Cardinality(links) < MaxLinks
    /\ links' = links \cup {<<v.id, a.id>>}
    /\ UNCHANGED <<rows, born, taken, unloaded, taskVars, pc, arg>>

RemoveAgentFromConversation(c, l) ==
    /\ Up # {} /\ pc[c] = "idle"
    /\ links' = links \ {l}
    /\ UNCHANGED <<rows, born, taken, unloaded, taskVars, pc, arg>>

\* POST /reports/:type/run looks for the report's conversation.
RunReport(c, title) ==
    /\ Up # {} /\ pc[c] = "idle"
    /\ arg' = [arg EXCEPT ![c] = Row(0, "conversation", title, FALSE)]
    /\ Goto(c, "find")
    /\ UNCHANGED <<dbVars, taskVars>>

\* A request is refused, or its server dies.
Lost(c) ==
    /\ pc[c] # "idle"
    /\ Done(c)
    /\ UNCHANGED <<dbVars, taskVars>>

Request(c) ==
    \/ \E kind \in Kinds : \E name \in UserNames[kind] : UserCreate(c, kind, name)
    \/ \E r \in rows : Get(c, r, "save") \/ Get(c, r, "delete")
    \/ \E name \in UserNames[arg[c].kind] : Save(c, name)
    \/ Delete(c)
    \/ \E a \in Table("agent"), g \in Table("skill") : LoadSkill(c, a, g)
    \/ \E v \in Table("conversation"), a \in Table("agent") :
          AddAgentToConversation(c, v, a)
    \/ \E l \in links : IF ById("agent", l[1]) # {} THEN UnloadSkill(c, l)
                        ELSE RemoveAgentFromConversation(c, l)
    \/ \E title \in Reports : RunReport(c, title)
    \/ Lost(c)

Startup(s) ==
    \/ NextSeed(s) \/ NextPhase(s) \/ NextSkill(s) \/ LoadoutDone(s)
    \/ Check(s) \/ Link(s) \/ Refused(s)

Next ==
    \/ \E s \in Servers : Boot(s) \/ Exit(s) \/ Startup(s)
    \/ \E a \in Actors : Find(a) \/ Create(a) \/ CreateLost(a) \/ Refind(a)
    \/ \E c \in Clients : Request(c)

Spec == Init /\ [][Next]_vars

-----------------------------------------------------------------------------
(* Properties. *)

\* Every variable has its type, names that have to be unique are, and links join
\* rows that exist.
TypeOK ==
    /\ born \in 0..MaxRows
    /\ \A r \in rows : r.id \in 1..born /\ r.kind \in Kinds /\ r.sys \in BOOLEAN
    /\ \A r, q \in rows : r.id = q.id => r = q
    /\ \A r \in rows : r.kind # "conversation" => Cardinality(Named(r.kind, r.name)) = 1
    /\ \A l \in links : \/ ById("agent", l[1]) # {} /\ ById("skill", l[2]) # {}
                        \/ ById("conversation", l[1]) # {} /\ ById("agent", l[2]) # {}
    /\ phase \in [Servers -> {"down", "agents", "reports", "skills", "up", "failed"}]
    /\ \A s \in Servers : todo[s] \subseteq Agents \cup Reports \cup Skills
    /\ left \in [Servers -> SUBSET Skills] /\ agentId \in [Servers -> 0..born]
    /\ again \subseteq Servers /\ taken \subseteq SeedNames
    /\ unloaded \subseteq Agents \X Skills
    /\ pc \in [Actors -> {"idle", "next", "find", "create", "refind", "skill", "check",
                          "link", "save", "delete"}]

\* ErrSystemReadOnly: whatever requests interleave, a row startup has seeded is never
\* deleted, and none is changed but by a Save of a row that another request has deleted
\* since this one read it: gorm then inserts it, onto the seeded row of that name.
Stale(c) == pc[c] = "save" /\ ById(arg[c].kind, arg[c].id) = {}
StaleSave(r) ==
    /\ \E c \in Clients : Stale(c) /\ arg[c].kind = r.kind /\ pc'[c] = "idle"
    /\ <<r.kind, r.name>> \in taken'
    /\ [r EXCEPT !.sys = FALSE] \in rows'

SystemRowsStay ==
    [][\A r \in rows : r.sys => r \in rows' \/ StaleSave(r)]_vars

\* Processes that start together, beside others that serve requests, all come up
\* unless the database refuses a statement or a user has taken a seed's name.
StartsSucceed ==
    \A s \in Servers : phase[s] = "failed" => taken # {}

\* A server that is up has every agent and skill it seeds, as a system row unless a
\* user has taken the name, and its report conversations. If it found the skills there
\* when it booted, its agents have their loadouts too, but for what users have taken off.
There(kind, n) ==
    \/ <<kind, n>> \in taken
    \/ \E r \in Named(kind, n) : kind # "conversation" => r.sys

Equipped(n, k) ==
    \/ <<"agent", n>> \in taken \/ <<"skill", k>> \in taken \/ <<n, k>> \in unloaded
    \/ \E a \in Named("agent", n), g \in Named("skill", k) : <<a.id, g.id>> \in links

SeedsThere ==
    \A s \in Up :
        /\ \A n \in Agents : There("agent", n)
        /\ \A n \in Skills : There("skill", n)
        /\ \A n \in Reports : There("conversation", n)
        /\ s \in again => \A n \in Agents : \A k \in Loadout[n] : Equipped(n, k)

\* What the comments say, and TLC refutes: system rows are read-only (agent.go:64), and
\* an agent has its loadout as SkillService.Init must have run first (agent.go:215).
SystemReadOnly ==
    [][\A r \in rows : r.sys => r \in rows']_vars

LoadoutsThere ==
    \A s \in Up : \A n \in Agents : \A k \in Loadout[n] : Equipped(n, k)

\* The inductive invariant behind them: what the tables hold, what a request that has
\* read a row may still do, and how far each startup has come. It uses that a user's
\* row, of whatever name, is no system row, and that a name is taken before a row that
\* was found under it can be gone.
RowType == [id : Nat, kind : Kinds, sys : BOOLEAN,
            name : Agents \cup Skills \cup Reports \cup AllUserNames \cup {"none"}]

TypesInv ==
    /\ rows \subseteq RowType
    /\ phase \in [Servers -> {"down", "agents", "reports", "skills", "up", "failed"}]
    /\ todo \in [Servers -> SUBSET (Agents \cup Reports \cup Skills)]
    /\ left \in [Servers -> SUBSET Skills]
    /\ agentId \in [Servers -> Nat]
    /\ again \subseteq Servers
    /\ pc \in [Actors -> {"idle", "next", "find", "create", "refind", "skill", "check",
                          "link", "save", "delete"}]
    /\ arg \in [Actors -> RowType]

RowsInv ==
    /\ born \in 0..MaxRows
    /\ \A r \in rows : r.id \in 1..born
    /\ \A r, q \in rows : r.id = q.id => r = q
    /\ \A r, q \in rows :
          r.kind = q.kind /\ r.name = q.name /\ r.kind # "conversation" => r = q
    /\ \A r \in rows : <<r.kind, r.name>> \in SeedNames =>
          r.sys \/ <<r.kind, r.name>> \in taken
    /\ \A r \in rows : r.sys => <<r.kind, r.name>> \in SeedNames
    /\ taken \subseteq SeedNames /\ unloaded \subseteq Agents \X Skills

LinksInv ==
    \A l \in links : \/ ById("agent", l[1]) # {} /\ ById("skill", l[2]) # {}
                     \/ ById("conversation", l[1]) # {} /\ ById("agent", l[2]) # {}

\* A request that will save or delete holds a row that was never seeded.
Holding == {c \in Clients : pc[c] \in {"save", "delete"}}
ClientInv ==
    /\ \A c \in Clients : pc[c] \in {"idle", "find", "create", "save", "delete"}
    /\ \A c \in Clients : pc[c] \in {"find", "create"} =>
          arg[c].kind = "conversation" /\ arg[c].name \in Reports
    /\ \A c \in Holding :
          /\ arg[c].id \in 1..born /\ ~arg[c].sys /\ arg[c].kind # "conversation"
          /\ \A r \in rows : r.id = arg[c].id => r.kind = arg[c].kind /\ ~r.sys
          /\ \A d \in Holding : arg[d].id = arg[c].id => arg[d].kind = arg[c].kind

Seeking == {"find", "create", "refind"}
Loading == {"skill", "check", "link"}
ToDo(s, n) == n \in todo[s] \/ (pc[s] \in Seeking /\ arg[s].name = n)

\* Where server s is, and what it works on.
PlaceInv(s) ==
    /\ phase[s] \in {"down", "up"} => pc[s] = "idle" /\ todo[s] = {}
    /\ phase[s] = "failed" => pc[s] = "idle" /\ taken # {}
    /\ phase[s] \in {"agents", "reports", "skills"} =>
          /\ pc[s] \in Seeking \cup {"next"} \/ (pc[s] \in Loading /\ phase[s] = "agents")
          /\ todo[s] \subseteq Seeds[phase[s]]
    /\ pc[s] \in Seeking =>
          arg[s].kind = KindOf[phase[s]] /\ arg[s].name \in Seeds[phase[s]]
    /\ pc[s] = "refind" => phase[s] # "reports" /\ There(arg[s].kind, arg[s].name)
    /\ agentId[s] <= born
    /\ pc[s] \in Loading => taken # {} \/ \E r \in ById("agent", agentId[s]) : r.sys
    /\ pc[s] \in {"check", "link"} =>
          taken # {} \/ (arg[s] \in rows /\ arg[s].kind = "skill" /\ arg[s].sys)

\* What it has seeded so far.
SeededInv(s) ==
    /\ phase[s] \notin {"down", "failed"} =>
          \A n \in Agents : There("agent", n) \/ (phase[s] = "agents" /\ ToDo(s, n))
    /\ phase[s] \in {"reports", "skills", "up"} =>
          \A n \in Reports : There("conversation", n) \/ (phase[s] = "reports" /\ ToDo(s, n))
    /\ phase[s] \in {"skills", "up"} =>
          \A n \in Skills : There("skill", n) \/ (phase[s] = "skills" /\ ToDo(s, n))

\* A server that found the skills when it booted has loaded, or has yet to load, each
\* skill k of agent n; the second alternative is the agent whose skills it is loading.
LoadLeft(s, a, g) ==
    /\ pc[s] \in Loading /\ agentId[s] = a.id
    /\ g.name \in left[s] \/ (pc[s] \in {"check", "link"} /\ arg[s].id = g.id)

LoadoutInv(s) ==
    s \in again =>
        /\ phase[s] # "down"
        /\ \A k \in Skills : There("skill", k)
        /\ phase[s] # "failed" => \A n \in Agents : \A k \in Loadout[n] :
              \/ Equipped(n, k)
              \/ phase[s] = "agents" /\ ToDo(s, n)
              \/ \E a \in Named("agent", n), g \in Named("skill", k) :
                    phase[s] = "agents" /\ LoadLeft(s, a, g)

IInv ==
    /\ TypesInv /\ RowsInv /\ LinksInv /\ ClientInv
    /\ \A s \in Servers : PlaceInv(s) /\ SeededInv(s) /\ LoadoutInv(s)
=============================================================================
