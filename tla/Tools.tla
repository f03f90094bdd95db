-------------------------------- MODULE Tools --------------------------------
(***************************************************************************)
(* The tools offered to the LLM and what a call of one reaches: the global *)
(* registry of builtin tools, and the MCP router with its sessions, which  *)
(* ProvideMCPRouter fills at startup from the configured servers. Tool     *)
(* rounds (hooks, results, audit) are Approval's; here a call is the choice *)
(* of who answers it.                                                      *)
(*                                                                         *)
(* A tool name is the sequence of its parts between "__" separators, so    *)
(* that prefixing is the concatenation it is in the code: prefix a and     *)
(* tool b__c give the same name as prefix a__b and tool c.                 *)
(***************************************************************************)
EXTENDS Naturals, Sequences

CONSTANTS
    Configs,     \* the server lists config.yaml may have, as [prefix, transport]
    ToolLists,   \* what a server may answer to tools/list, as a set of names
    Builtins,    \* the names tool.Register was given
    None

ASSUME ToolsAssumption ==
    /\ \A c \in Configs : c \in Seq([prefix : Seq(STRING), transport : STRING])
    /\ \A T \in ToolLists : \A t \in T : t \in Seq(STRING)
    /\ \A b \in Builtins : b \in Seq(STRING)
    /\ None \notin Nat

VARIABLES
    cfg,         \* the server list that was read
    sess,        \* per server: its session is none, open, kept (in clients) or closed
    listed,      \* per server: the tools it listed
    routes,      \* r.routes: per offered MCP name, the server and its own name
    offered,     \* r.tools, each name with the server it came from
    last         \* the last tool call: the name, who answered, the name they got

toolVars == <<cfg, sess, listed, routes, offered, last>>

ToolsInit ==
    /\ cfg = <<>> /\ sess = <<>> /\ listed = <<>>
    /\ routes = <<>> /\ offered = {} /\ last = None

-----------------------------------------------------------------------------
(* ProvideMCPRouter, one server after another. Seeded faults (M_...) precede *)
(* the definition they would replace.                                       *)

UseConfig(c) ==
    /\ cfg' = c
    /\ sess' = [i \in DOMAIN c |-> "none"]
    /\ listed' = [i \in DOMAIN c |-> {}]
    /\ UNCHANGED <<routes, offered, last>>

\* Another transport, or a server that does not answer: a warning, no session.
SkipServer(i) == UNCHANGED toolVars

Connect(i) ==
    /\ cfg[i].transport = "http"
    /\ sess' = [sess EXCEPT ![i] = "open"]
    /\ UNCHANGED <<cfg, listed, routes, offered, last>>

\* tools/list failed: the session is closed and the server skipped.
M_AfterListError == "open"
AfterListError == "closed"
ListFails(i) ==
    /\ sess' = [sess EXCEPT ![i] = AfterListError]
    /\ UNCHANGED <<cfg, listed, routes, offered, last>>

M_Prefixed(i, t) == t
Prefixed(i, t) == cfg[i].prefix \o t

M_ServerName(i, t) == Prefixed(i, t)
ServerName(i, t) == t

\* A name that is routed already goes to the later server from now on.
ListTools(i) ==
    \E T \in ToolLists :
        LET New == {Prefixed(i, t) : t \in T}
            Entry(n) == LET t == CHOOSE u \in T : Prefixed(i, u) = n
                        IN  <<i, ServerName(i, t)>>
        IN  /\ sess' = [sess EXCEPT ![i] = "kept"]
            /\ listed' = [listed EXCEPT ![i] = T]
            /\ routes' = [n \in DOMAIN routes \cup New |->
                             IF n \in New THEN Entry(n) ELSE routes[n]]
            /\ offered' = offered \cup (New \X {i})
            /\ UNCHANGED <<cfg, last>>

\* The router's cleanup closes the clients it kept.
ClosedSessions == [i \in DOMAIN cfg |-> IF sess[i] = "kept" THEN "closed" ELSE sess[i]]

-----------------------------------------------------------------------------
(* A tool call of a run. *)

\* dispatchToolsFromBlocks: an MCP route first, then the registry, else nobody.
Registry == 0
Answer(n) ==
    IF n \in DOMAIN routes THEN [name |-> n, by |-> routes[n][1], tool |-> routes[n][2]]
    ELSE [name |-> n, by |-> IF n \in Builtins THEN Registry ELSE None, tool |-> n]

\* The LLM calls a tool it was offered, or one it made up.
OfferedNames == {o[1] : o \in offered} \cup Builtins
CallTool(n) ==
    /\ last' = Answer(n)
    /\ UNCHANGED <<cfg, sess, listed, routes, offered>>

-----------------------------------------------------------------------------
(* Properties. *)

Initial(p, n) == Len(p) <= Len(n) /\ \A i \in DOMAIN p : p[i] = n[i]

\* No prefix starts another one or a builtin tool's name (ph2-mcp.md, Name-Prefix
\* Deduplication, tells operators to give every server a prefix of its own).
PrefixFree ==
    /\ \A i \in DOMAIN cfg : cfg[i].prefix # <<>>
    /\ \A i, j \in DOMAIN cfg : i # j => ~Initial(cfg[i].prefix, cfg[j].prefix)
    /\ \A i \in DOMAIN cfg, b \in Builtins : ~Initial(cfg[i].prefix, b)

Offerers(n) ==
    {o[2] : o \in {p \in offered : p[1] = n}} \cup (IF n \in Builtins THEN {Registry} ELSE {})

\* Whatever servers were skipped at startup: a tool the LLM was offered is answered by
\* someone who offered it, under the name that server listed it by; with prefix-free
\* names by the only one that offered it. No call ends at a ToolDef without Handler.
CallReachesOfferer ==
    last # None =>
        /\ IF last.by = None THEN Offerers(last.name) = {} ELSE last.by \in Offerers(last.name)
        /\ last.by \in DOMAIN cfg =>
              last.tool \in listed[last.by] /\ sess[last.by] \in {"kept", "closed"}
        /\ PrefixFree /\ last.by # None => Offerers(last.name) = {last.by}

\* Behind it: what is offered was listed, what is routed is offered, and whoever
\* listed anything has a session that was kept.
RoutesInv ==
    /\ \A o \in offered : \E t \in listed[o[2]] : o[1] = Prefixed(o[2], t)
    /\ \A o \in offered : o[1] \in DOMAIN routes
    /\ \A n \in DOMAIN routes :
          <<n, routes[n][1]>> \in offered /\ routes[n][2] \in listed[routes[n][1]]
    /\ \A i \in DOMAIN cfg : listed[i] # {} => sess[i] \in {"kept", "closed"}
=============================================================================
