---------------------------- MODULE ServerProofs ----------------------------
(***************************************************************************)
(* Theorems about Server and its Tools, for any lists of MCP servers, any  *)
(* tools they may list, any builtin tools and any requests: what a call    *)
(* reaches, what a failed or finished process has closed, and what a       *)
(* request in flight still finds open.                                     *)
(***************************************************************************)
EXTENDS Server, TLAPS

Entries == [prefix : Seq(STRING), transport : STRING]

LEMMA CfgIsSeq ==
    ASSUME cfg \in Configs \cup {<<>>}
    PROVE  /\ cfg \in Seq(Entries) /\ Len(cfg) \in Nat /\ DOMAIN cfg = 1..Len(cfg)
           /\ None \notin DOMAIN cfg /\ Registry \notin DOMAIN cfg
<1>1. cfg \in Seq(Entries)
  <2>1. CASE cfg \in Configs
    BY <2>1, ToolsAssumption DEF Entries
  <2>2. CASE cfg = <<>>
    BY <2>2
  <2> QED BY <2>1, <2>2
<1>2. Len(cfg) \in Nat /\ DOMAIN cfg = 1..Len(cfg)
  BY <1>1
<1> QED BY <1>1, <1>2, ToolsAssumption DEF Registry

LEMMA PrefixIsName ==
    ASSUME cfg \in Configs \cup {<<>>}, NEW i \in DOMAIN cfg
    PROVE  cfg[i].prefix \in Seq(STRING)
<1>1. cfg[i] \in Entries
  BY CfgIsSeq
<1> QED BY <1>1 DEF Entries

-----------------------------------------------------------------------------
(* Names. *)

\* Two names that are equal begin with the shorter of their prefixes.
LEMMA EqualNames ==
    ASSUME NEW p \in Seq(STRING), NEW q \in Seq(STRING),
           NEW s \in Seq(STRING), NEW t \in Seq(STRING), p \o s = q \o t
    PROVE  Initial(p, q) \/ Initial(q, p)
<1> DEFINE n == p \o s
<1>1. \A i \in 1..Len(p) : n[i] = p[i]
  OBVIOUS
<1>2. \A i \in 1..Len(q) : (q \o t)[i] = q[i]
  OBVIOUS
<1>3. Len(p) \in Nat /\ Len(q) \in Nat /\ DOMAIN p = 1..Len(p) /\ DOMAIN q = 1..Len(q)
  OBVIOUS
<1> HIDE DEF n
<1> QED BY <1>1, <1>2, <1>3 DEF Initial, n

LEMMA NameBegins ==
    ASSUME NEW p \in Seq(STRING), NEW s \in Seq(STRING)
    PROVE  Initial(p, p \o s)
BY DEF Initial

\* Names with prefixes of which none begins another come from one server only.
LEMMA OneServer ==
    ASSUME cfg \in Configs \cup {<<>>}, PrefixFree,
           NEW i \in DOMAIN cfg, NEW j \in DOMAIN cfg,
           NEW s \in Seq(STRING), NEW t \in Seq(STRING), Prefixed(i, s) = Prefixed(j, t)
    PROVE  i = j
<1>1. cfg[i].prefix \in Seq(STRING) /\ cfg[j].prefix \in Seq(STRING)
  BY PrefixIsName
<1>2. Initial(cfg[i].prefix, cfg[j].prefix) \/ Initial(cfg[j].prefix, cfg[i].prefix)
  BY <1>1, EqualNames DEF Prefixed
<1> QED BY <1>2 DEF PrefixFree

LEMMA NotBuiltin ==
    ASSUME cfg \in Configs \cup {<<>>}, PrefixFree, NEW i \in DOMAIN cfg,
           NEW s \in Seq(STRING)
    PROVE  Prefixed(i, s) \notin Builtins
<1>1. cfg[i].prefix \in Seq(STRING)
  BY PrefixIsName
<1>2. Initial(cfg[i].prefix, Prefixed(i, s))
  BY <1>1, NameBegins DEF Prefixed
<1> QED BY <1>2 DEF PrefixFree

-----------------------------------------------------------------------------
(* Tools. *)

ToolTypes ==
    /\ cfg \in Configs \cup {<<>>}
    /\ sess \in [DOMAIN cfg -> {"none", "open", "kept", "closed"}]
    /\ listed \in [DOMAIN cfg -> ToolLists \cup {{}}]
    /\ \A n \in DOMAIN routes : routes[n] \in (DOMAIN cfg) \X (UNION ToolLists)
    /\ \A o \in offered : o \in Seq(STRING) \X DOMAIN cfg

\* A call is answered by who offered the name, and by nobody else if names are prefix-free.
LEMMA CallOK ==
    ASSUME ToolTypes, RoutesInv, NEW n, CallTool(n)
    PROVE  ToolTypes' /\ RoutesInv' /\ CallReachesOfferer'
<1>1. ToolTypes' /\ RoutesInv'
  BY DEF CallTool, ToolTypes, RoutesInv, Prefixed
<1>2. last' = Answer(n) /\ UNCHANGED <<cfg, sess, listed, routes, offered>>
  BY DEF CallTool
<1>3. ASSUME n \in DOMAIN routes
      PROVE  CallReachesOfferer'
  <2> DEFINE j == routes[n][1]
  <2>1. j \in DOMAIN cfg /\ <<n, j>> \in offered /\ routes[n][2] \in listed[j]
    BY <1>3 DEF RoutesInv, ToolTypes
  <2>2. last' = [name |-> n, by |-> j, tool |-> routes[n][2]]
    BY <1>2, <1>3 DEF Answer
  <2>3. j \in Offerers(n)
    BY <2>1 DEF Offerers
  <2>4. sess[j] \in {"kept", "closed"}
    BY <2>1 DEF RoutesInv
  <2>5. \A o \in offered : PrefixFree /\ o[1] = n => o[2] = j
    <3> SUFFICES ASSUME NEW o \in offered, PrefixFree, o[1] = n
                 PROVE  o[2] = j
      OBVIOUS
    <3>1. PICK t \in listed[o[2]] : n = Prefixed(o[2], t)
      BY DEF RoutesInv
    <3>2. PICK u \in listed[j] : n = Prefixed(j, u)
      BY <2>1 DEF RoutesInv
    <3>3. o[2] \in DOMAIN cfg /\ t \in Seq(STRING) /\ u \in Seq(STRING)
      BY <2>1, ToolsAssumption DEF ToolTypes
    <3> QED BY <3>1, <3>2, <3>3, <2>1, OneServer DEF ToolTypes
  <2>6. PrefixFree => n \notin Builtins
    <3> SUFFICES ASSUME PrefixFree PROVE n \notin Builtins
      OBVIOUS
    <3>1. PICK u \in listed[j] : n = Prefixed(j, u)
      BY <2>1 DEF RoutesInv
    <3>2. u \in Seq(STRING)
      BY <2>1, ToolsAssumption DEF ToolTypes
    <3> QED BY <3>1, <3>2, <2>1, NotBuiltin DEF ToolTypes
  <2>7. PrefixFree => Offerers(n) = {j}
    BY <2>3, <2>5, <2>6 DEF Offerers
  <2>8. j # None
    BY <2>1, CfgIsSeq DEF ToolTypes
  <2>9. PrefixFree' <=> PrefixFree
    BY <1>2 DEF PrefixFree, Initial
  <2>10. Offerers(n)' = Offerers(n)
    BY <1>2 DEF Offerers
  <2> HIDE DEF j
  <2>11. last'.name = n /\ last'.by = j /\ last'.tool = routes[n][2]
    BY <2>2
  <2> QED BY <1>2, <2>1, <2>3, <2>4, <2>7, <2>8, <2>9, <2>10, <2>11 DEF CallReachesOfferer, Offerers
<1>4. ASSUME n \notin DOMAIN routes
      PROVE  CallReachesOfferer'
  <2>1. \A o \in offered : o[1] # n
    BY <1>4 DEF RoutesInv
  <2>2. Offerers(n) = IF n \in Builtins THEN {Registry} ELSE {}
    BY <2>1 DEF Offerers
  <2>3. last' = [name |-> n, by |-> IF n \in Builtins THEN Registry ELSE None, tool |-> n]
    BY <1>2, <1>4 DEF Answer
  <2>4. Registry # None /\ Registry \notin DOMAIN cfg /\ None \notin DOMAIN cfg
    BY CfgIsSeq, ToolsAssumption DEF ToolTypes, Registry
  <2>5. Offerers(n)' = Offerers(n)
    BY <1>2 DEF Offerers
  <2>6. last'.name = n /\ last'.by = IF n \in Builtins THEN Registry ELSE None
    BY <2>3
  <2>7. last'.by \in {Registry, None} /\ (last'.by = None <=> n \notin Builtins)
    BY <2>6, <2>4
  <2> QED BY <1>2, <2>2, <2>4, <2>5, <2>6, <2>7 DEF CallReachesOfferer, Offerers
<1> QED BY <1>1, <1>3, <1>4

\* A server that lists its tools: its names are routed to it from now on.
LEMMA ListOK ==
    ASSUME ToolTypes, RoutesInv, NEW i \in DOMAIN cfg, listed[i] = {}, ListTools(i)
    PROVE  ToolTypes' /\ RoutesInv'
<1>1. PICK T \in ToolLists :
        LET New == {Prefixed(i, t) : t \in T}
            Entry(n) == LET t == CHOOSE u \in T : Prefixed(i, u) = n
                        IN  <<i, ServerName(i, t)>>
        IN  /\ sess' = [sess EXCEPT ![i] = "kept"]
            /\ listed' = [listed EXCEPT ![i] = T]
            /\ routes' = [n \in DOMAIN routes \cup New |->
                             IF n \in New THEN Entry(n) ELSE routes[n]]
            /\ offered' = offered \cup (New \X {i})
            /\ UNCHANGED <<cfg, last>>
  BY DEF ListTools
<1> DEFINE New == {Prefixed(i, t) : t \in T}
           Own(n) == CHOOSE u \in T : Prefixed(i, u) = n
<1>2. \A n \in New : Own(n) \in T /\ Prefixed(i, Own(n)) = n
  OBVIOUS
<1>3. /\ sess' = [sess EXCEPT ![i] = "kept"]
      /\ listed' = [listed EXCEPT ![i] = T]
      /\ DOMAIN routes' = DOMAIN routes \cup New
      /\ \A n \in New : routes'[n] = <<i, Own(n)>>
      /\ \A n \in DOMAIN routes \ New : routes'[n] = routes[n]
      /\ offered' = offered \cup (New \X {i})
      /\ cfg' = cfg
  BY <1>1 DEF ServerName
<1>4. \A t \in T : Prefixed(i, t) \in Seq(STRING)
  <2>1. cfg[i].prefix \in Seq(STRING)
    BY PrefixIsName DEF ToolTypes
  <2> QED BY <2>1, ToolsAssumption DEF Prefixed
<1>5. New \subseteq Seq(STRING)
  BY <1>4
<1>6. \A u : Prefixed(i, u)' = Prefixed(i, u)
  BY <1>3 DEF Prefixed
<1> HIDE DEF Own
<1>7. ToolTypes'
  <2>1. \A n \in DOMAIN routes' : routes'[n] \in (DOMAIN cfg) \X (UNION ToolLists)
    <3> SUFFICES ASSUME NEW n \in DOMAIN routes'
                 PROVE  routes'[n] \in (DOMAIN cfg) \X (UNION ToolLists)
      OBVIOUS
    <3>1. CASE n \in New
      <4>1. Own(n) \in UNION ToolLists
        BY <3>1, <1>2
      <4>2. routes'[n] = <<i, Own(n)>>
        BY <3>1, <1>3
      <4> HIDE DEF New
      <4> QED BY <4>1, <4>2
    <3>2. CASE n \notin New
      BY <3>2, <1>3 DEF ToolTypes
    <3> QED BY <3>1, <3>2
  <2>2. \A o \in offered' : o \in Seq(STRING) \X DOMAIN cfg
    BY <1>3, <1>5 DEF ToolTypes
  <2>3. /\ sess' \in [DOMAIN cfg -> {"none", "open", "kept", "closed"}]
        /\ listed' \in [DOMAIN cfg -> ToolLists \cup {{}}]
    BY <1>3 DEF ToolTypes
  <2> QED BY <1>3, <2>1, <2>2, <2>3 DEF ToolTypes
<1>8. RoutesInv'
  <2> DEFINE R1(o) == \E t \in listed'[o[2]] : o[1] = Prefixed(o[2], t)'
             R3(n) == <<n, routes'[n][1]>> \in offered' /\ routes'[n][2] \in listed'[routes'[n][1]]
  <2>1. \A o \in offered' : R1(o) /\ o[1] \in DOMAIN routes'
    <3> SUFFICES ASSUME NEW o \in offered' PROVE R1(o) /\ o[1] \in DOMAIN routes'
      OBVIOUS
    <3>1. CASE o \in offered
      <4>1. PICK t \in listed[o[2]] : o[1] = Prefixed(o[2], t)
        BY <3>1 DEF RoutesInv
      <4>2. o[2] \in DOMAIN cfg /\ o[2] # i
        BY <3>1, <4>1 DEF ToolTypes
      <4>3. listed'[o[2]] = listed[o[2]] /\ Prefixed(o[2], t)' = Prefixed(o[2], t)
        BY <4>2, <1>3 DEF ToolTypes, Prefixed
      <4>4. o[1] \in DOMAIN routes'
        BY <3>1, <1>3 DEF RoutesInv
      <4> QED BY <4>1, <4>3, <4>4
    <3>2. CASE o \in New \X {i}
      <4>1. o[1] \in New /\ o[2] = i
        BY <3>2
      <4>2. PICK t \in T : o[1] = Prefixed(i, t)
        BY <4>1
      <4>3. listed'[i] = T
        BY <1>3 DEF ToolTypes
      <4> QED BY <4>1, <4>2, <4>3, <1>3, <1>6
    <3> QED BY <3>1, <3>2, <1>3
  <2>2. \A n \in DOMAIN routes' : R3(n)
    <3> SUFFICES ASSUME NEW n \in DOMAIN routes' PROVE R3(n)
      OBVIOUS
    <3>1. CASE n \in New
      BY <3>1, <1>2, <1>3 DEF ToolTypes
    <3>2. CASE n \in DOMAIN routes \ New
      <4>1. <<n, routes[n][1]>> \in offered /\ routes[n][2] \in listed[routes[n][1]]
        BY <3>2 DEF RoutesInv
      <4>2. routes[n][1] \in DOMAIN cfg /\ routes[n][1] # i
        BY <3>2, <4>1 DEF ToolTypes
      <4> QED BY <3>2, <4>1, <4>2, <1>3 DEF ToolTypes
    <3> QED BY <3>1, <3>2, <1>3
  <2>3. \A j \in DOMAIN cfg' : listed'[j] # {} => sess'[j] \in {"kept", "closed"}
    BY <1>3 DEF ToolTypes, RoutesInv
  <2> QED BY <2>1, <2>2, <2>3 DEF RoutesInv
<1> QED BY <1>7, <1>8

\* Any other step of the tools keeps what was listed, offered and routed.
SameTools == UNCHANGED <<cfg, listed, routes, offered>>

LEMMA SameToolsOK ==
    ASSUME ToolTypes, RoutesInv, SameTools,
           sess' \in [DOMAIN cfg -> {"none", "open", "kept", "closed"}],
           \A i \in DOMAIN cfg : listed[i] # {} => sess'[i] \in {"kept", "closed"}
    PROVE  ToolTypes' /\ RoutesInv'
BY DEF SameTools, ToolTypes, RoutesInv, Prefixed

LEMMA SameToolVarsOK ==
    ASSUME ToolTypes, RoutesInv, CallReachesOfferer, UNCHANGED toolVars
    PROVE  ToolTypes' /\ RoutesInv' /\ CallReachesOfferer'
<1>1. UNCHANGED <<cfg, sess, listed, routes, offered, last>>
  BY DEF toolVars
<1>2. ToolTypes' /\ RoutesInv'
  BY <1>1 DEF ToolTypes, RoutesInv, Prefixed
<1>3. (PrefixFree' <=> PrefixFree) /\ Offerers(last.name)' = Offerers(last.name)
  BY <1>1 DEF PrefixFree, Initial, Offerers
<1>4. CallReachesOfferer'
  BY <1>1, <1>3 DEF CallReachesOfferer
<1> QED BY <1>2, <1>4

-----------------------------------------------------------------------------
(* The process. *)

ProcTypes ==
    /\ file \in BOOLEAN /\ pc \in MainPcs /\ next \in 1..(Len(cfg) + 1)
    /\ db \in {"none", "open", "ready", "closed"}
    /\ box \in {"none", "open", "closed"}
    /\ listener \in {"none", "starting", "open", "closed"}
    /\ sig \in BOOLEAN /\ late \in BOOLEAN
    /\ reqs \subseteq Requests /\ runs \subseteq Requests
    /\ ensuring \subseteq Requests /\ stuck \in BOOLEAN /\ hung \in BOOLEAN

LEMMA Types == TypeOK <=> ToolTypes /\ ProcTypes
BY DEF TypeOK, ToolTypes, ProcTypes

ToolInv == ToolTypes /\ RoutesInv /\ CallReachesOfferer
ProcInv == ProcTypes /\ FreshInv /\ OpenInv /\ ServeInv /\ ReleasedOnReturn

LEMMA Parts == IInv <=> ToolInv /\ ProcInv
BY Types DEF IInv, ToolInv, ProcInv

LEMMA InitOK == Init => IInv
<1> SUFFICES ASSUME Init PROVE ToolInv /\ ProcInv
  BY Parts
<1>1. ToolInv
  BY DEF Init, ToolsInit, ToolInv, ToolTypes, RoutesInv, CallReachesOfferer
<1>2. DOMAIN cfg = {} /\ Len(cfg) = 0
  BY DEF Init, ToolsInit
<1>3. ProcTypes
  <2>1. file \in BOOLEAN /\ sig \in BOOLEAN /\ late \in BOOLEAN
    BY Zenon DEF Init
  <2>2. next \in 1..(Len(cfg) + 1)
    BY <1>2 DEF Init
  <2>3. reqs \subseteq Requests /\ runs \subseteq Requests
    BY DEF Init
  <2> QED BY <2>1, <2>2, <2>3, Zenon DEF Init, ProcTypes, MainPcs, Starting
<1>4. FreshInv /\ ServeInv /\ ReleasedOnReturn
  BY <1>2 DEF Init, ToolsInit, FreshInv, ServeInv, ReleasedOnReturn, Closing
<1>5. OpenInv
  BY <1>2 DEF Init, OpenInv, Starting, Failing, Ended, OpenSession
<1> QED BY <1>1, <1>3, <1>4, <1>5 DEF ProcInv

\* The steps that touch no tool and no session.
LEMMA ToolsKept ==
    ASSUME ToolInv, UNCHANGED toolVars
    PROVE  ToolInv'
BY SameToolVarsOK DEF ToolInv

\* The steps of main.
LEMMA MainOK ==
    ASSUME ToolInv, ProcInv, UNCHANGED toolVars,
           \/ /\ pc = "config" /\ pc' = "error"
              /\ UNCHANGED <<file, next, db, box, listener, sig, late, reqs, runs, netVars>>
           \/ OpenDB \/ Migrate \/ RouterReady \/ Provide \/ Reload \/ Listen \/ Notify
           \/ WaitSignal \/ ShutdownDone \/ ShutdownTimeout
    PROVE  ProcInv'
<1> USE DEF ProcInv, ProcTypes, FreshInv, OpenInv, ServeInv, ReleasedOnReturn,
            MainPcs, Starting, Failing, Serving, Ended, Closing, OpenSession, toolVars, netVars
<1>1. CASE /\ pc = "config" /\ pc' = "error"
           /\ UNCHANGED <<file, next, db, box, listener, sig, late, reqs, runs, netVars>>
  BY <1>1
<1>2. CASE OpenDB
  BY <1>2 DEF OpenDB
<1>3. CASE Migrate
  BY <1>3 DEF Migrate
<1>4. CASE RouterReady
  BY <1>4 DEF RouterReady
<1>5. CASE Provide
  BY <1>5 DEF Provide, NextProvider
<1>6. CASE Reload
  BY <1>6 DEF Reload
<1>7. CASE Listen
  BY <1>7 DEF Listen
<1>8. CASE Notify
  BY <1>8 DEF Notify
<1>9. CASE WaitSignal
  BY <1>9 DEF WaitSignal
<1>10. CASE ShutdownDone
  BY <1>10 DEF ShutdownDone, Idle
<1>11. CASE ShutdownTimeout
  BY <1>11 DEF ShutdownTimeout
<1> QED BY <1>1, <1>2, <1>3, <1>4, <1>5, <1>6, <1>7, <1>8, <1>9, <1>10, <1>11

\* The file is read: nothing was listed or offered before.
LEMMA LoadOK ==
    ASSUME ToolInv, ProcInv, LoadConfig, file
    PROVE  ToolInv' /\ ProcInv'
<1>1. PICK c \in Configs : UseConfig(c)
  BY DEF LoadConfig
<1>2. /\ pc = "config" /\ pc' = "db" /\ next = 1 /\ last = None /\ last' = None
      /\ UNCHANGED <<file, next, db, box, listener, sig, late, reqs, runs, routes, offered,
                     netVars>>
  BY <1>1 DEF LoadConfig, UseConfig, ProcInv, FreshInv, ServeInv, Starting, Failing
<1>3. \A i \in DOMAIN cfg : listed[i] = {}
  BY <1>2, CfgIsSeq DEF ProcInv, FreshInv, ToolInv, ToolTypes
<1>4. offered = {} /\ DOMAIN routes = {}
  BY <1>3 DEF ToolInv, ToolTypes, RoutesInv
<1>5. /\ cfg' = c /\ sess' = [i \in DOMAIN c |-> "none"]
      /\ listed' = [i \in DOMAIN c |-> {}]
  BY <1>1 DEF UseConfig
<1>6. ToolInv'
  BY <1>2, <1>4, <1>5 DEF ToolInv, ToolTypes, RoutesInv, CallReachesOfferer
<1>7. Len(cfg') \in Nat
  BY <1>6, CfgIsSeq, <1>5, ToolsAssumption
<1>8. ProcInv'
  BY <1>2, <1>5, <1>7 DEF ProcInv, ProcTypes, FreshInv, OpenInv, ServeInv, ReleasedOnReturn,
                    MainPcs, Starting, Failing, Serving, Ended, Closing, OpenSession, netVars
<1> QED BY <1>6, <1>8

\* A step that only changes sessions, while no tool was called yet.
LEMMA SessionsOK ==
    ASSUME ToolInv, SameTools, last = None, last' = None,
           sess' \in [DOMAIN cfg -> {"none", "open", "kept", "closed"}],
           \A i \in DOMAIN cfg : listed[i] # {} => sess'[i] \in {"kept", "closed"}
    PROVE  ToolInv'
BY SameToolsOK DEF ToolInv, CallReachesOfferer

LEMMA RouteServerOK ==
    ASSUME ToolInv, ProcInv, RouteServer
    PROVE  ToolInv' /\ ProcInv'
<1> USE DEF ProcInv, ProcTypes, FreshInv, OpenInv, ServeInv, ReleasedOnReturn,
            MainPcs, Starting, Failing, Serving, Ended, Closing, OpenSession, netVars
<1>1. pc = "mcp" /\ next \in DOMAIN cfg /\ last = None /\ listed[next] = {}
  BY CfgIsSeq DEF RouteServer, ToolInv, ToolTypes
<1>2. CASE SkipServer(next) /\ next' = next + 1 /\ UNCHANGED pc
  <2>1. ToolInv'
    BY <1>2, ToolsKept DEF SkipServer
  <2>2. next' \in 1..(Len(cfg) + 1) /\ \A i \in DOMAIN cfg : i >= next' => i >= next
    BY <1>1, <1>2, CfgIsSeq DEF ToolInv, ToolTypes
  <2>3. ProcInv'
    BY <1>1, <1>2, <2>2 DEF SkipServer, toolVars, RouteServer
  <2> QED BY <2>1, <2>3
<1>3. CASE Connect(next) /\ pc' = "list" /\ UNCHANGED next
  <2>1. /\ sess' = [sess EXCEPT ![next] = "open"]
        /\ UNCHANGED <<cfg, listed, routes, offered, last>>
    BY <1>3 DEF Connect
  <2>2. ToolInv'
    BY <1>1, <2>1, SessionsOK DEF ToolInv, ToolTypes, RoutesInv, SameTools
  <2>3. ProcInv'
    BY <1>1, <1>3, <2>1 DEF RouteServer, ToolInv, ToolTypes
  <2> QED BY <2>2, <2>3
<1> QED BY <1>2, <1>3 DEF RouteServer

LEMMA RouteToolsOK ==
    ASSUME ToolInv, ProcInv, RouteTools
    PROVE  ToolInv' /\ ProcInv'
<1> USE DEF ProcInv, ProcTypes, FreshInv, OpenInv, ServeInv, ReleasedOnReturn,
            MainPcs, Starting, Failing, Serving, Ended, Closing, OpenSession, netVars
<1>1. pc = "list" /\ next \in DOMAIN cfg /\ last = None /\ listed[next] = {}
  BY CfgIsSeq DEF RouteTools, ToolInv, ToolTypes
<1>2. /\ pc' = "mcp" /\ next' = next + 1
      /\ UNCHANGED <<file, db, box, listener, sig, late, reqs, runs, netVars>>
  BY DEF RouteTools
<1>3. next' \in 1..(Len(cfg) + 1) /\ \A i \in DOMAIN cfg : i >= next' => i >= next /\ i # next
  BY <1>1, <1>2, CfgIsSeq DEF ToolInv, ToolTypes
<1>4. CASE ListFails(next)
  <2>1. /\ sess' = [sess EXCEPT ![next] = "closed"]
        /\ UNCHANGED <<cfg, listed, routes, offered, last>>
    BY <1>4 DEF ListFails, AfterListError
  <2>2. ToolInv'
    BY <1>1, <2>1, SessionsOK DEF ToolInv, ToolTypes, RoutesInv, SameTools
  <2>3. ProcInv'
    BY <1>1, <1>2, <1>3, <2>1 DEF ToolInv, ToolTypes
  <2> QED BY <2>2, <2>3
<1>5. CASE ListTools(next)
  <2>1. /\ sess' = [sess EXCEPT ![next] = "kept"]
        /\ \E T \in ToolLists : listed' = [listed EXCEPT ![next] = T]
        /\ UNCHANGED <<cfg, last>>
    BY <1>5 DEF ListTools
  <2>2. ToolInv'
    BY <1>1, <1>5, <2>1, ListOK DEF ToolInv, CallReachesOfferer
  <2>3. \A i \in DOMAIN cfg : i # next => sess'[i] = sess[i] /\ listed'[i] = listed[i]
    BY <2>1 DEF ToolInv, ToolTypes
  <2>4. sess'[next] = "kept"
    BY <1>1, <2>1 DEF ToolInv, ToolTypes
  <2>5. ProcInv'
    BY <1>1, <1>2, <1>3, <2>1, <2>3, <2>4
  <2> QED BY <2>2, <2>5
<1> QED BY <1>4, <1>5 DEF RouteTools

\* The clean-up closes every session that was kept.
LEMMA Closed ==
    ASSUME ToolInv, sess' = ClosedSessions
    PROVE  /\ sess' \in [DOMAIN cfg -> {"none", "open", "kept", "closed"}]
           /\ \A i \in DOMAIN cfg : listed[i] # {} => sess'[i] = "closed"
           /\ \A i \in DOMAIN cfg : sess'[i] # "kept" /\ (sess'[i] = "open" => sess[i] = "open")
BY DEF ToolInv, ToolTypes, RoutesInv, ClosedSessions

LEMMA ProvideFailsOK ==
    ASSUME ToolInv, ProcInv, ProvideFails
    PROVE  ToolInv' /\ ProcInv'
<1> USE DEF ProcInv, ProcTypes, FreshInv, OpenInv, ServeInv, ReleasedOnReturn,
            MainPcs, Starting, Failing, Serving, Ended, Closing, OpenSession, netVars
<1>1. last = None /\ last' = None /\ SameTools /\ sess' = ClosedSessions
  BY DEF ProvideFails, SameTools
<1>2. ToolInv'
  BY <1>1, Closed, SessionsOK
<1>3. ProcInv'
  BY <1>1, Closed DEF ProvideFails, BoxAfterError
<1> QED BY <1>2, <1>3

LEMMA CleanOK ==
    ASSUME ToolInv, ProcInv, CleanStep
    PROVE  ToolInv' /\ ProcInv'
<1> USE DEF ProcInv, ProcTypes, FreshInv, OpenInv, ServeInv, ReleasedOnReturn,
            MainPcs, Starting, Failing, Serving, Ended, Closing, OpenSession, netVars
<1>1. CASE UNCHANGED toolVars
  <2>1. ToolInv'
    BY <1>1, ToolsKept
  <2>2. CASE pc = "stop3" /\ pc' = "clean2" /\ box' = "closed" /\ UNCHANGED db
    BY <1>1, <2>1, <2>2 DEF CleanStep, toolVars
  <2>5. CASE pc = "clean3" /\ ensuring = {} /\ pc' = "stop3" /\ UNCHANGED <<box, db>>
    BY <1>1, <2>1, <2>5 DEF CleanStep, toolVars
  <2>3. CASE pc = "clean1" /\ pc' = "returned" /\ db' = "closed" /\ UNCHANGED box
    BY <1>1, <2>1, <2>3 DEF CleanStep, toolVars
  <2>4. CASE pc = "clean2" /\ pc' = "clean1" /\ sess' = ClosedSessions /\ UNCHANGED <<db, box>>
    BY <1>1, <2>1, <2>4, Closed DEF CleanStep, toolVars
  <2> QED BY <2>1, <2>2, <2>3, <2>4, <2>5 DEF CleanStep, CleanUp
<1>2. CASE /\ pc = "clean2" /\ pc' = "clean1" /\ sess' = ClosedSessions
           /\ UNCHANGED <<cfg, listed, routes, offered, last, db, box>>
  <2>1. ToolTypes' /\ RoutesInv'
    BY <1>2, Closed, SameToolsOK DEF ToolInv, SameTools
  <2>2. (PrefixFree' <=> PrefixFree) /\ Offerers(last.name)' = Offerers(last.name)
    BY <1>2 DEF PrefixFree, Initial, Offerers
  <2>3. CallReachesOfferer'
    <3>1. \A i \in DOMAIN cfg : sess[i] \in {"kept", "closed"} => sess'[i] = "closed"
      BY <1>2 DEF ClosedSessions
    <3> QED BY <1>2, <2>2, <3>1 DEF CallReachesOfferer, ToolInv
  <2>4. ProcInv'
    BY <1>2, Closed DEF CleanStep
  <2> QED BY <2>1, <2>3, <2>4 DEF ToolInv
<1> QED BY <1>1, <1>2 DEF CleanStep, CleanUp

\* The other goroutines, the signals and the operator.
LEMMA WorldOK ==
    ASSUME ToolInv, ProcInv, UNCHANGED toolVars,
           ListenStep \/ MainHangs \/ Signal \/ EditConfig \/ UNCHANGED vars
    PROVE  ProcInv'
<1> USE DEF ProcInv, ProcTypes, FreshInv, OpenInv, ServeInv, ReleasedOnReturn,
            MainPcs, Starting, Failing, Serving, Ended, Closing, OpenSession, toolVars, netVars,
            Alive
<1>1. CASE ListenStep
  BY <1>1 DEF ListenStep
<1>2. CASE Signal
  <2>1. UNCHANGED <<file, next, db, box, listener, late, reqs, runs, netVars>>
    BY <1>2 DEF Signal
  <2>2. CASE /\ pc \in Starting \cup {"reload", "listen", "notify"}
             /\ pc' = "killed" /\ UNCHANGED sig
    BY <2>1, <2>2
  <2>3. CASE sig' = TRUE /\ UNCHANGED pc
    BY <2>1, <2>3
  <2> QED BY <1>2, <2>2, <2>3 DEF Signal
<1>3. CASE EditConfig
  BY <1>3 DEF EditConfig
<1>4. CASE UNCHANGED vars
  BY <1>4 DEF vars, procVars
<1>5. CASE MainHangs
  BY <1>5 DEF MainHangs
<1> QED BY <1>1, <1>2, <1>3, <1>4, <1>5

\* Requests come, start runs and are answered; runs end.
LEMMA RequestOK ==
    ASSUME ToolInv, ProcInv, NEW q \in Requests, UNCHANGED toolVars,
           \/ Accept(q) \/ StartRun(q) \/ Respond(q) \/ RunEnds(q)
           \/ EnsureBegins(q) \/ EnsureReturns(q)
    PROVE  ProcInv'
<1> USE DEF ProcInv, ProcTypes, FreshInv, OpenInv, ServeInv, ReleasedOnReturn,
            MainPcs, Starting, Failing, Serving, Ended, Closing, OpenSession, toolVars, netVars,
            Alive
<1>1. CASE Accept(q)
  BY <1>1 DEF Accept
<1>2. CASE StartRun(q)
  BY <1>2 DEF StartRun
<1>3. CASE Respond(q)
  BY <1>3 DEF Respond
<1>4. CASE RunEnds(q)
  BY <1>4 DEF RunEnds
<1>5. CASE EnsureBegins(q)
  <2>1. stuck' \in BOOLEAN
    BY <1>5, Zenon DEF EnsureBegins
  <2>2. ensuring' = {q} /\ pc # "stop3" /\ q \in runs
    BY <1>5 DEF EnsureBegins
  <2> QED BY <1>5, <2>1, <2>2 DEF EnsureBegins
<1>6. CASE EnsureReturns(q)
  BY <1>6 DEF EnsureReturns
<1> QED BY <1>1, <1>2, <1>3, <1>4, <1>5, <1>6

LEMMA RunCallsOK ==
    ASSUME ToolInv, ProcInv, NEW q \in Requests, RunCalls(q)
    PROVE  ToolInv' /\ ProcInv'
<1>1. PICK n \in OfferedNames \cup {<<"unknown">>} : CallTool(n)
  BY DEF RunCalls
<1>2. ToolInv'
  BY <1>1, CallOK DEF ToolInv
<1>3. listener # "none"
  BY DEF RunCalls, ProcInv, ServeInv
<1>4. UNCHANGED <<cfg, sess, listed>> /\ UNCHANGED procVars
  BY <1>1 DEF CallTool, RunCalls
<1>5. ProcInv'
  BY <1>3, <1>4 DEF procVars, netVars, ProcInv, ProcTypes, FreshInv, OpenInv, ServeInv,
                    ReleasedOnReturn, OpenSession
<1> QED BY <1>2, <1>5

-----------------------------------------------------------------------------
(* Theorems. *)

\* Every step keeps the invariant.
LEMMA StepOK ==
    ASSUME IInv, [Next]_vars
    PROVE  IInv'
<1>1. ToolInv /\ ProcInv
  BY Parts
<1>2. SUFFICES ToolInv' /\ ProcInv'
  BY DEF IInv, ToolInv, ProcInv, TypeOK, ToolTypes, ProcTypes
<1>3. CASE LoadConfig
  <2>1. CASE file
    BY <1>1, <1>3, <2>1, LoadOK
  <2>2. CASE ~file
    BY <1>1, <1>3, <2>2, ToolsKept, MainOK DEF LoadConfig
  <2> QED BY <2>1, <2>2
<1>4. CASE \/ OpenDB \/ Migrate \/ RouterReady \/ Provide \/ Reload \/ Listen \/ Notify
           \/ WaitSignal \/ ShutdownDone \/ ShutdownTimeout
  <2>1. UNCHANGED toolVars
    BY <1>4 DEF OpenDB, Migrate, RouterReady, Provide, Reload, Listen, Notify, WaitSignal,
                ShutdownDone, ShutdownTimeout
  <2> QED BY <1>1, <1>4, <2>1, ToolsKept, MainOK
<1>5. CASE RouteServer
  BY <1>1, <1>5, RouteServerOK
<1>6. CASE RouteTools
  BY <1>1, <1>6, RouteToolsOK
<1>7. CASE ProvideFails
  BY <1>1, <1>7, ProvideFailsOK
<1>8. CASE CleanStep
  BY <1>1, <1>8, CleanOK
<1>9. CASE \/ ListenStep \/ MainHangs \/ Signal \/ EditConfig \/ Stopped \/ UNCHANGED vars
  <2>1. UNCHANGED toolVars /\ (Stopped => UNCHANGED vars)
    BY <1>9 DEF ListenStep, MainHangs, Signal, EditConfig, Stopped, vars
  <2> QED BY <1>1, <1>9, <2>1, ToolsKept, WorldOK
<1>10. ASSUME NEW q \in Requests,
              \/ Accept(q) \/ StartRun(q) \/ Respond(q) \/ RunEnds(q)
              \/ EnsureBegins(q) \/ EnsureReturns(q)
       PROVE  ToolInv' /\ ProcInv'
  <2>1. UNCHANGED toolVars
    BY <1>10 DEF Accept, StartRun, Respond, RunEnds, EnsureBegins, EnsureReturns
  <2> QED BY <1>1, <1>10, <2>1, ToolsKept, RequestOK
<1>11. ASSUME NEW q \in Requests, RunCalls(q)
       PROVE  ToolInv' /\ ProcInv'
  BY <1>1, <1>11, RunCallsOK
<1> QED BY <1>3, <1>4, <1>5, <1>6, <1>7, <1>8, <1>9, <1>10, <1>11 DEF Next, Main

\* What main, its providers, the requests, the runs and the signals keep true together:
\* the tools offered and the sessions behind them (ProvideMCPRouter), what is open where
\* main is (InitializeApp, main.go) and who may still be served.
THEOREM ServerCorrect == Spec => []IInv
<1>1. Init => IInv
  BY InitOK
<1>2. IInv /\ [Next]_vars => IInv'
  BY StepOK
<1> QED BY <1>1, <1>2, PTL DEF Spec

\* Every variable of the process and of its tools keeps its type.
THEOREM TypeCorrect == Spec => []TypeOK
<1>1. IInv => TypeOK
  BY DEF IInv
<1> QED BY <1>1, ServerCorrect, PTL

\* A tool the LLM was offered is answered by somebody who offered it, under the name that
\* server listed it by, and with prefix-free names by the only one that offered it
\* (Router.Dispatch, dispatchToolsFromBlocks).
THEOREM CallReachesOffererHolds == Spec => []CallReachesOfferer
<1>1. IInv => CallReachesOfferer
  BY DEF IInv
<1> QED BY <1>1, ServerCorrect, PTL

\* InitializeApp that fails, at any provider, and main that returns leave no session, no
\* sandbox manager and no migrated pool open (wire_gen.go's clean-ups).
THEOREM ReleasedOnReturnHolds == Spec => []ReleasedOnReturn
<1>1. IInv => ReleasedOnReturn
  BY DEF IInv
<1> QED BY <1>1, ServerCorrect, PTL

\* Nothing a request in flight needs is closed under it within 30 s of the signal
\* (Shutdown, then the deferred clean-up).
THEOREM RequestsServedHolds == Spec => []RequestsServed
<1>1. IInv => RequestsServed
  <2> SUFFICES ASSUME IInv, Alive, reqs # {}, ~late
               PROVE  /\ db = "ready" /\ box = "open"
                      /\ \A i \in DOMAIN cfg : listed[i] # {} => sess[i] = "kept"
    BY DEF RequestsServed
  <2>1. listener # "none" /\ pc \notin Starting \cup {"reload", "listen"} \cup Ended
    BY DEF IInv, ServeInv, Alive
  <2>2. pc \in {"notify", "wait", "shutdown"}
    BY <2>1 DEF IInv, ServeInv, Closing, TypeOK, MainPcs, Serving
  <2> QED BY <2>2 DEF IInv, OpenInv, Ended
<1> QED BY <1>1, ServerCorrect, PTL
=============================================================================
