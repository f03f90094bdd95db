---------------------------- MODULE CatalogProofs ----------------------------
(***************************************************************************)
(* Theorems about Catalog, for any server processes, requests, seeds, names *)
(* of users, loadouts and bounds, with and without refused statements, from *)
(* whatever tables users of an earlier build have left: what startup finds  *)
(* and leaves, and what becomes of the rows it has seeded.                  *)
(***************************************************************************)
EXTENDS Catalog, FiniteSetTheorems, TLAPS

LEMMA NoArgIsRow == NoArg \in RowType
BY DEF NoArg, Row, RowType, Kinds

-----------------------------------------------------------------------------
(* What a statement may do to the tables. *)

\* Seeded rows stay unless a user takes their names, conversations stay, and ids are
\* not given twice.
Keep ==
    /\ born' \in Nat /\ born \in Nat /\ born <= born'
    /\ \A r \in rows : r.kind = "conversation" => r \in rows'
    /\ \A r \in rows : r.sys => r \in rows' \/ <<r.kind, r.name>> \in taken'
    /\ taken \subseteq taken' /\ unloaded \subseteq unloaded'

\* A link between two seeded rows stays unless a user takes it off.
KeepLinks ==
    \A a, g \in rows :
        a.kind = "agent" /\ a.sys /\ g.kind = "skill" /\ g.sys /\ <<a.id, g.id>> \in links
        => <<a.id, g.id>> \in links' \/ <<a.name, g.name>> \in unloaded'

\* An id is new, or stands for what it stood for, or is one a request brings back.
KeepIds ==
    \A r \in rows' :
        \/ r.id > born
        \/ \E q \in rows : q.id = r.id /\ q.kind = r.kind /\ (r.sys => q.sys)
        \/ \E d \in Holding : arg[d].id = r.id /\ arg[d].kind = r.kind /\ ~r.sys

RowsStep == rows' \subseteq RowType /\ RowsInv' /\ LinksInv' /\ Keep /\ KeepLinks /\ KeepIds

LEMMA SameRows ==
    ASSUME rows \subseteq RowType, RowsInv, LinksInv', UNCHANGED <<rows, born, taken>>,
           unloaded \subseteq unloaded', unloaded' \subseteq Agents \X Skills, KeepLinks
    PROVE  RowsStep
<1>1. RowsInv' /\ rows' \subseteq RowType
  BY DEF RowsInv
<1>2. Keep
  BY CatalogAssumption DEF Keep, RowsInv
<1>3. KeepIds
  BY DEF KeepIds
<1> QED BY <1>1, <1>2, <1>3 DEF RowsStep

LEMMA SameLinks ==
    ASSUME LinksInv, UNCHANGED <<rows, links>>
    PROVE  LinksInv'
BY DEF LinksInv, ById

LEMMA SameDb ==
    ASSUME IInv, UNCHANGED dbVars
    PROVE  RowsStep
<1>1. UNCHANGED <<rows, links, born, taken, unloaded>>
  BY DEF dbVars
<1>2. rows \subseteq RowType /\ RowsInv /\ LinksInv
  BY DEF IInv, TypesInv
<1>3. LinksInv' /\ KeepLinks
  BY <1>1, <1>2, SameLinks DEF KeepLinks
<1>4. unloaded \subseteq unloaded' /\ unloaded' \subseteq Agents \X Skills
  BY <1>1, <1>2 DEF RowsInv
<1> QED BY <1>1, <1>2, <1>3, <1>4, SameRows

\* A new row whose name is free, and which is a system row or takes a seed's name if it
\* has one.
LEMMA InsertOK ==
    ASSUME rows \subseteq RowType, RowsInv, LinksInv,
           taken \subseteq taken', taken' \subseteq SeedNames,
           NEW r \in RowType, r.id = born + 1, born < MaxRows, Insert(r),
           ~Duplicate(r.kind, r.name),
           <<r.kind, r.name>> \in SeedNames => r.sys \/ <<r.kind, r.name>> \in taken',
           r.sys => <<r.kind, r.name>> \in SeedNames
    PROVE  RowsStep
<1>1. /\ rows' = rows \cup {r} /\ born' = born + 1 /\ born \in Nat /\ MaxRows \in Nat
      /\ UNCHANGED <<links, unloaded>>
  BY CatalogAssumption DEF Insert, RowsInv
<1>2. \A q \in rows : q.id # r.id
  BY <1>1 DEF RowsInv
<1>3. \A q \in rows : q.kind = r.kind /\ q.name = r.name => r.kind = "conversation"
  BY DEF Duplicate, Named
<1>4. RowsInv'
  <2>1. \A q \in rows' : q.id \in 1..born'
    BY <1>1 DEF RowsInv
  <2>2. \A q, p \in rows' : q.id = p.id => q = p
    BY <1>1, <1>2 DEF RowsInv
  <2>3. \A q, p \in rows' :
           q.kind = p.kind /\ q.name = p.name /\ q.kind # "conversation" => q = p
    BY <1>1, <1>3 DEF RowsInv
  <2>4. born' \in 0..MaxRows
    BY <1>1
  <2>5. /\ \A q \in rows' : <<q.kind, q.name>> \in SeedNames =>
              q.sys \/ <<q.kind, q.name>> \in taken'
        /\ \A q \in rows' : q.sys => <<q.kind, q.name>> \in SeedNames
    BY <1>1 DEF RowsInv
  <2>6. unloaded' \subseteq Agents \X Skills
    BY <1>1 DEF RowsInv
  <2> QED BY <2>1, <2>2, <2>3, <2>4, <2>5, <2>6 DEF RowsInv
<1>5. LinksInv'
  <2>1. \A kind, id : ById(kind, id) # {} => ById(kind, id)' # {}
    BY <1>1 DEF ById
  <2> QED BY <1>1, <2>1 DEF LinksInv
<1>6. Keep /\ KeepLinks /\ KeepIds
  BY <1>1 DEF Keep, KeepLinks, KeepIds
<1> QED BY <1>1, <1>4, <1>5, <1>6 DEF RowsStep

\* The name a row is given is taken if it is a seed's.
LEMMA TakesIt ==
    ASSUME NEW kind, NEW name, Takes(kind, name), taken \subseteq SeedNames
    PROVE  /\ taken \subseteq taken' /\ taken' \subseteq SeedNames
           /\ <<kind, name>> \in SeedNames => <<kind, name>> \in taken'
BY Zenon DEF Takes

\* Save touches a seeded row only when it takes its name: the row it holds is none.
LEMMA SaveOK ==
    ASSUME IInv, NEW c \in Clients, NEW name \in AllUserNames, Save(c, name)
    PROVE  RowsStep /\ \A r \in rows : r.sys => r \in rows' \/ StaleSave(r)
<1> DEFINE a == arg[c]
           old == ById(a.kind, a.id)
           others == Named(a.kind, name) \ old
           new == [a EXCEPT !.name = name]
<1>1. c \in Holding /\ c \in Actors /\ a \in RowType
  BY DEF Save, Holding, Actors, IInv, TypesInv
<1>2. a.id \in 1..born /\ ~a.sys /\ a.kind # "conversation" /\ a.kind \in Kinds
  BY <1>1 DEF IInv, ClientInv, RowType
<1>3. \A r \in rows : r.id = a.id => r.kind = a.kind /\ ~r.sys
  BY <1>1 DEF IInv, ClientInv
<1>4. /\ rows \subseteq RowType /\ RowsInv /\ LinksInv /\ born \in Nat
      /\ taken \subseteq SeedNames /\ unloaded \subseteq Agents \X Skills
  BY CatalogAssumption DEF IInv, TypesInv, RowsInv
<1>5. /\ new \in RowType /\ new.id = a.id /\ new.kind = a.kind /\ new.name = name
      /\ new.sys = a.sys
  BY <1>1 DEF RowType
<1>6. \A r \in rows : r \in old <=> r.id = a.id
  BY <1>3 DEF ById
<1>7. UNCHANGED <<links, born, unloaded>> /\ Done(c) /\ UNCHANGED taskVars
  BY DEF Save
<1>8. KeepLinks
  BY <1>7 DEF KeepLinks
<1>9. CASE UNCHANGED <<rows, taken>>
  <2>1. RowsStep
    BY <1>4, <1>7, <1>9, SameDb DEF dbVars
  <2> QED BY <2>1, <1>9
<1>10. CASE /\ others = {} /\ Takes(a.kind, name)
            /\ rows' = (rows \ old) \cup {new}
  <2>1. \A r \in rows' : r = new \/ (r \in rows /\ r.id # a.id)
    BY <1>6, <1>10
  <2>2. new \in rows' /\ \A r \in rows : r.id # a.id => r \in rows'
    BY <1>6, <1>10
  <2>3. \A r \in rows : r.kind = a.kind /\ r.name = name => r.id = a.id
    BY <1>6, <1>10 DEF Named
  <2>9. /\ taken \subseteq taken' /\ taken' \subseteq SeedNames
        /\ <<a.kind, name>> \in SeedNames => <<a.kind, name>> \in taken'
    BY <1>4, <1>10, TakesIt
  <2> HIDE DEF new, old, others, a
  <2>4. RowsInv'
    <3>1. \A r \in rows' : r.id \in 1..born'
      BY <1>2, <1>4, <1>5, <1>7, <2>1 DEF RowsInv
    <3>2. \A r, q \in rows' : r.id = q.id => r = q
      BY <1>4, <1>5, <2>1 DEF RowsInv
    <3>3. \A r, q \in rows' :
             r.kind = q.kind /\ r.name = q.name /\ r.kind # "conversation" => r = q
      BY <1>4, <1>5, <2>1, <2>3 DEF RowsInv
    <3>4. \A r \in rows' : <<r.kind, r.name>> \in SeedNames =>
             r.sys \/ <<r.kind, r.name>> \in taken'
      BY <1>4, <1>5, <2>1, <2>9 DEF RowsInv
    <3>5. \A r \in rows' : r.sys => <<r.kind, r.name>> \in SeedNames
      BY <1>2, <1>4, <1>5, <2>1 DEF RowsInv
    <3> QED BY <1>4, <1>7, <2>9, <3>1, <3>2, <3>3, <3>4, <3>5 DEF RowsInv
  <2>5. LinksInv'
    <3>1. \A kind, id : ById(kind, id) # {} => ById(kind, id)' # {}
      <4> SUFFICES ASSUME NEW kind, NEW id, NEW r \in rows, r.kind = kind, r.id = id
                   PROVE  \E q \in rows' : q.kind = kind /\ q.id = id
        BY DEF ById
      <4>1. CASE r.id = a.id
        BY <4>1, <1>3, <1>5, <2>2
      <4>2. CASE r.id # a.id
        BY <4>2, <2>2
      <4> QED BY <4>1, <4>2
    <3> QED BY <3>1, <1>4, <1>7 DEF LinksInv
  <2>10. \A r \in rows : r.sys \/ r.kind = "conversation" => r \in rows'
    BY <1>2, <1>3, <2>2
  <2>6. Keep
    BY <1>4, <1>7, <2>9, <2>10 DEF Keep
  <2>7. KeepIds
    BY <1>1, <1>2, <1>5, <2>1 DEF KeepIds, a
  <2>8. rows' \subseteq RowType
    BY <1>4, <1>5, <2>1
  <2> QED BY <1>8, <2>4, <2>5, <2>6, <2>7, <2>8, <2>10 DEF RowsStep
<1>11. CASE /\ others # {} /\ old = {} /\ Takes(a.kind, name)
            /\ rows' = (rows \ others) \cup {[r EXCEPT !.sys = a.sys] : r \in others}
  <2>1. PICK t \in others : TRUE
    BY <1>11
  <2>2. t \in rows /\ t.kind = a.kind /\ t.name = name /\ t \in RowType
    BY <2>1, <1>4 DEF Named
  <2>3. a.sys = FALSE
    BY <1>1, <1>2 DEF RowType
  <2>4. \A r \in others : r = t
    <3>1. \A r \in others : r \in rows /\ r.kind = a.kind /\ r.name = name
      BY DEF Named
    <3> QED BY <3>1, <2>2, <1>2, <1>4 DEF RowsInv
  <2> DEFINE u == [t EXCEPT !.sys = FALSE]
  <2>5. others = {t}
    BY <2>1, <2>4
  <2>6. rows' = (rows \ {t}) \cup {u}
    BY <1>11, <2>3, <2>5
  <2>7. u.id = t.id /\ u.kind = t.kind /\ u.name = t.name /\ u.sys = FALSE /\ u \in RowType
    BY <2>2 DEF RowType
  <2>8. /\ taken \subseteq taken' /\ taken' \subseteq SeedNames
        /\ <<t.kind, t.name>> \in SeedNames => <<t.kind, t.name>> \in taken'
    BY <1>4, <1>11, <2>2, TakesIt
  <2>9. t.sys => StaleSave(t)
    <3>1. Stale(c) /\ pc'[c] = "idle"
      BY <1>1, <1>7, <1>11 DEF Stale, Save, Done, Goto, IInv, TypesInv
    <3>2. t.sys => <<t.kind, t.name>> \in taken'
      BY <1>4, <2>2, <2>8 DEF RowsInv
    <3> QED BY <2>2, <2>6, <3>1, <3>2 DEF StaleSave
  <2> HIDE DEF u, new, old, others, a
  <2>10. /\ \A r \in rows' : r = u \/ (r \in rows /\ r # t)
         /\ u \in rows' /\ \A r \in rows : r # t => r \in rows'
    BY <2>6
  <2>11. RowsInv'
    <3>1. \A r \in rows' : r.id \in 1..born'
      BY <1>4, <1>7, <2>2, <2>7, <2>10 DEF RowsInv
    <3>2. \A r, q \in rows' : r.id = q.id => r = q
      BY <1>4, <2>2, <2>7, <2>10 DEF RowsInv
    <3>3. \A r, q \in rows' :
             r.kind = q.kind /\ r.name = q.name /\ r.kind # "conversation" => r = q
      BY <1>4, <2>2, <2>7, <2>10 DEF RowsInv
    <3>4. \A r \in rows' : <<r.kind, r.name>> \in SeedNames =>
             r.sys \/ <<r.kind, r.name>> \in taken'
      BY <1>4, <2>7, <2>8, <2>10 DEF RowsInv
    <3>5. \A r \in rows' : r.sys => <<r.kind, r.name>> \in SeedNames
      BY <1>4, <2>7, <2>10 DEF RowsInv
    <3> QED BY <1>4, <1>7, <2>8, <3>1, <3>2, <3>3, <3>4, <3>5 DEF RowsInv
  <2>12. LinksInv'
    <3>1. \A kind, id : ById(kind, id) # {} => ById(kind, id)' # {}
      BY <2>7, <2>10 DEF ById
    <3> QED BY <3>1, <1>4, <1>7 DEF LinksInv
  <2>13. \A r \in rows : r.sys => r \in rows' \/ StaleSave(r)
    BY <2>9, <2>10
  <2>14. Keep
    <3>1. \A r \in rows : r.kind = "conversation" => r \in rows'
      BY <1>2, <2>2, <2>10
    <3>2. \A r \in rows : r.sys => r \in rows' \/ <<r.kind, r.name>> \in taken'
      BY <2>13 DEF StaleSave
    <3> QED BY <1>4, <1>7, <2>8, <3>1, <3>2 DEF Keep
  <2>15. KeepIds
    BY <2>2, <2>7, <2>10 DEF KeepIds
  <2>16. rows' \subseteq RowType
    BY <1>4, <2>7, <2>10
  <2> QED BY <1>8, <2>11, <2>12, <2>13, <2>14, <2>15, <2>16 DEF RowsStep
<1> QED BY <1>9, <1>10, <1>11 DEF Save

LEMMA DeleteOK ==
    ASSUME IInv, NEW c \in Clients, Delete(c)
    PROVE  RowsStep /\ \A r \in rows : r.sys => r \in rows'
<1> DEFINE a == arg[c]
<1>1. c \in Holding
  BY DEF Delete, Holding
<1>2. \A r \in rows : r.id = a.id => r.kind = a.kind /\ ~r.sys
  BY <1>1 DEF IInv, ClientInv
<1>3. rows \subseteq RowType /\ RowsInv /\ LinksInv /\ born \in Nat /\ a.kind # "conversation"
  BY <1>1, CatalogAssumption DEF IInv, TypesInv, RowsInv, ClientInv
<1>4. /\ rows' = rows \ ById(a.kind, a.id) /\ UNCHANGED <<born, taken, unloaded>>
      /\ links' = LinksWithout(a.id)
  BY DEF Delete
<1>5. /\ rows' \subseteq rows
      /\ \A r \in rows : r \in rows' <=> r.id # a.id
  BY <1>2, <1>4 DEF ById
<1>6. RowsInv'
  BY <1>3, <1>4, <1>5 DEF RowsInv
<1>7. LinksInv'
  <2>1. \A l \in links' : l \in links /\ l[1] # a.id /\ l[2] # a.id
    BY <1>4 DEF LinksWithout
  <2>2. \A kind, id : ById(kind, id) # {} /\ id # a.id => ById(kind, id)' # {}
    BY <1>5 DEF ById
  <2> QED BY <2>1, <2>2, <1>3 DEF LinksInv
<1>8. Keep /\ KeepIds
  BY <1>2, <1>3, <1>4, <1>5 DEF Keep, KeepIds
<1>9. KeepLinks
  BY <1>2, <1>4 DEF KeepLinks, LinksWithout
<1> QED BY <1>2, <1>3, <1>5, <1>6, <1>7, <1>8, <1>9 DEF RowsStep

-----------------------------------------------------------------------------
(* Who does not move keeps what it relies on. *)

LEMMA ThereStays ==
    ASSUME Keep, NEW kind, NEW n, There(kind, n)
    PROVE  There(kind, n)'
<1>1. CASE <<kind, n>> \in taken
  BY <1>1 DEF There, Keep
<1>2. ASSUME NEW r \in rows, r.kind = kind, r.name = n, kind # "conversation" => r.sys
      PROVE  There(kind, n)'
  <2>1. r \in rows' \/ <<kind, n>> \in taken'
    BY <1>2 DEF Keep
  <2> QED BY <1>2, <2>1 DEF There, Named
<1> QED BY <1>1, <1>2 DEF There, Named

\* What a place relies on of the tables.
LEMMA Onward ==
    ASSUME Keep, TypesInv, NEW s \in Servers, PlaceInv(s)
    PROVE  agentId[s] <= born' /\ (taken # {} => taken' # {})
<1>1. agentId[s] \in Nat /\ agentId[s] <= born
  BY DEF TypesInv, PlaceInv
<1> QED BY <1>1 DEF Keep

\* The rows of a seeded agent and a seeded skill stay, whichever link them, or a name
\* is taken.
LEMMA PairStays ==
    ASSUME RowsInv, Keep, NEW n \in Agents, NEW k \in Skills,
           NEW a \in Named("agent", n), NEW g \in Named("skill", k),
           ~Equipped(n, k)'
    PROVE  /\ a \in rows' /\ a.kind = "agent" /\ a.name = n /\ a.sys /\ a \in rows
           /\ g \in rows' /\ g.kind = "skill" /\ g.name = k /\ g.sys /\ g \in rows
<1>1. <<"agent", n>> \notin taken' /\ <<"skill", k>> \notin taken'
  BY DEF Equipped
<1>2. <<"agent", n>> \in SeedNames /\ <<"skill", k>> \in SeedNames
  BY DEF SeedNames
<1>3. /\ a \in rows /\ a.kind = "agent" /\ a.name = n
      /\ g \in rows /\ g.kind = "skill" /\ g.name = k
  BY DEF Named
<1>4. a.sys /\ g.sys
  BY <1>1, <1>2, <1>3 DEF RowsInv, Keep
<1> QED BY <1>1, <1>3, <1>4 DEF Keep

LEMMA EquippedStays ==
    ASSUME RowsInv, Keep, KeepLinks, NEW n \in Agents, NEW k \in Skills, Equipped(n, k)
    PROVE  Equipped(n, k)'
<1> SUFFICES ASSUME ~Equipped(n, k)' PROVE FALSE
  OBVIOUS
<1>1. /\ <<"agent", n>> \notin taken' /\ <<"skill", k>> \notin taken'
      /\ <<n, k>> \notin unloaded'
  BY DEF Equipped
<1>2. PICK a \in Named("agent", n), g \in Named("skill", k) : <<a.id, g.id>> \in links
  BY <1>1 DEF Equipped, Keep
<1>3. /\ a \in rows' /\ a.kind = "agent" /\ a.name = n /\ a.sys /\ a \in rows
      /\ g \in rows' /\ g.kind = "skill" /\ g.name = k /\ g.sys /\ g \in rows
  BY PairStays
<1>4. <<a.id, g.id>> \in links'
  BY <1>1, <1>2, <1>3 DEF KeepLinks
<1> QED BY <1>3, <1>4 DEF Equipped, Named

LEMMA ServerStays ==
    ASSUME TypesInv, RowsInv, Keep, KeepLinks,
           NEW s \in Servers, PlaceInv(s), SeededInv(s), LoadoutInv(s),
           phase'[s] = phase[s], todo'[s] = todo[s], pc'[s] = pc[s], arg'[s] = arg[s],
           agentId'[s] = agentId[s], left'[s] = left[s], s \in again' => s \in again
    PROVE  PlaceInv(s)' /\ SeededInv(s)' /\ LoadoutInv(s)'
<1>1. \A kind, n : There(kind, n) => There(kind, n)'
  BY ThereStays
<1>2. taken # {} \/ (\E r \in ById("agent", agentId[s]) : r.sys)
         => taken' # {} \/ (\E r \in ById("agent", agentId[s])' : r.sys)
  BY DEF Keep, ById
<1>6. \A r \in rows : r.sys => r \in rows' \/ taken' # {}
  BY DEF Keep
<1>7. agentId[s] <= born' /\ (taken # {} => taken' # {})
  BY Onward
<1>3. PlaceInv(s)'
  <2>1. \A l \in {"check", "link"} : pc[s] = l =>
           taken' # {} \/ (arg[s] \in rows' /\ arg[s].kind = "skill" /\ arg[s].sys)
    BY <1>6, <1>7 DEF PlaceInv
  <2> QED BY <1>1, <1>2, <1>7, <2>1 DEF PlaceInv
<1>4. SeededInv(s)'
  BY <1>1 DEF SeededInv, ToDo
<1>5. LoadoutInv(s)'
  <2> SUFFICES ASSUME s \in again, phase[s] # "failed", NEW n \in Agents, NEW k \in Loadout[n],
                      ~Equipped(n, k)', ~(phase[s] = "agents" /\ ToDo(s, n))
               PROVE  \E a \in Named("agent", n)', g \in Named("skill", k)' :
                         phase[s] = "agents" /\ LoadLeft(s, a, g)'
    BY <1>1 DEF LoadoutInv, ToDo
  <2>1. k \in Skills
    BY CatalogAssumption
  <2>2. ~Equipped(n, k)
    BY <2>1, EquippedStays
  <2>3. PICK a \in Named("agent", n), g \in Named("skill", k) :
           phase[s] = "agents" /\ LoadLeft(s, a, g)
    BY <2>2 DEF LoadoutInv
  <2>4. a \in Named("agent", n)' /\ g \in Named("skill", k)'
    BY <2>1, PairStays DEF Named
  <2> QED BY <2>3, <2>4 DEF LoadLeft
<1> QED BY <1>3, <1>4, <1>5

LEMMA ClientsStay ==
    ASSUME ClientInv, Keep, KeepIds,
           \A c \in Clients :
              \/ pc'[c] = "idle"
              \/ /\ pc'[c] \in {"find", "create"}
                 /\ arg'[c].kind = "conversation" /\ arg'[c].name \in Reports
              \/ pc'[c] = pc[c] /\ arg'[c] = arg[c]
    PROVE  ClientInv'
<1>1. \A c \in Clients : c \in Holding' => c \in Holding /\ arg'[c] = arg[c]
  BY DEF Holding
<1>2. \A c \in Holding : \A r \in rows' : r.id = arg[c].id => r.kind = arg[c].kind /\ ~r.sys
  <2> SUFFICES ASSUME NEW c \in Holding, NEW r \in rows', r.id = arg[c].id
               PROVE  r.kind = arg[c].kind /\ ~r.sys
    OBVIOUS
  <2>1. ~(r.id > born)
    BY DEF ClientInv, Keep
  <2> QED BY <2>1 DEF KeepIds, ClientInv
<1>3. \A c \in Holding : arg[c].id \in 1..born'
  BY DEF ClientInv, Keep
<1>4. Holding' \subseteq Clients
  BY DEF Holding
<1> QED BY <1>1, <1>2, <1>3, <1>4 DEF ClientInv

\* Server x does not move.
OthersStay(x) ==
    /\ phase'[x] = phase[x] /\ todo'[x] = todo[x] /\ agentId'[x] = agentId[x]
    /\ left'[x] = left[x] /\ (x \in again' => x \in again)

LEMMA ServerMoves ==
    ASSUME IInv, NEW s \in Servers, RowsStep, TypesInv',
           PlaceInv(s)', SeededInv(s)', LoadoutInv(s)',
           \A x \in Servers \ {s} : OthersStay(x),
           \A a \in Actors \ {s} : pc'[a] = pc[a] /\ arg'[a] = arg[a]
    PROVE  IInv'
<1>1. \A x \in Servers \ {s} : PlaceInv(x)' /\ SeededInv(x)' /\ LoadoutInv(x)'
  BY ServerStays DEF IInv, RowsStep, Actors, OthersStay
<1>2. ClientInv'
  BY ClientsStay, CatalogAssumption DEF IInv, RowsStep, Actors
<1> QED BY <1>1, <1>2 DEF IInv, RowsStep

LEMMA ClientMoves ==
    ASSUME IInv, RowsStep, TypesInv', UNCHANGED taskVars,
           \A s \in Servers : pc'[s] = pc[s] /\ arg'[s] = arg[s], ClientInv'
    PROVE  IInv'
<1>1. \A s \in Servers : PlaceInv(s)' /\ SeededInv(s)' /\ LoadoutInv(s)'
  BY ServerStays DEF IInv, RowsStep, taskVars
<1> QED BY <1>1 DEF IInv, RowsStep

-----------------------------------------------------------------------------
(* The steps of a server. *)

LEMMA InitOK == Init => IInv
<1> SUFFICES ASSUME Init PROVE IInv
  OBVIOUS
<1>0. /\ rows \in Earlier /\ links = {} /\ born = Cardinality(rows)
      /\ taken = {<<r.kind, r.name>> : r \in rows} \cap SeedNames
      /\ unloaded = {} /\ again = {}
  BY DEF Init
<1>1. /\ IsFiniteSet(rows) /\ born <= MaxRows /\ born \in Nat
      /\ rows \subseteq [id : 1..born, kind : Kinds, name : AllUserNames, sys : {FALSE}]
      /\ \A r, q \in rows :
            \/ r.id = q.id
            \/ r.kind = q.kind /\ r.name = q.name /\ r.kind # "conversation"
            => r = q
  BY <1>0, EarlierAssumption, FS_CardinalityType
<1>2. /\ rows \subseteq RowType
      /\ \A r \in rows : r.id \in 1..born /\ r.sys = FALSE
  <2> SUFFICES ASSUME NEW r \in rows PROVE r \in RowType /\ r.id \in 1..born /\ r.sys = FALSE
    OBVIOUS
  <2>1. r \in [id : 1..born, kind : Kinds, name : AllUserNames, sys : {FALSE}]
    BY <1>1
  <2>2. /\ r = [id |-> r.id, kind |-> r.kind, name |-> r.name, sys |-> r.sys]
        /\ r.id \in 1..born /\ r.kind \in Kinds /\ r.name \in AllUserNames
        /\ r.sys \in {FALSE}
    BY <2>1
  <2>3. r.sys = FALSE /\ r.sys \in BOOLEAN
    BY <2>2, Zenon
  <2>4. r.id \in Nat
    BY <1>1, <2>2
  <2> QED BY <2>2, <2>3, <2>4 DEF RowType
<1>3. RowsInv
  <2>1. \A r \in rows : <<r.kind, r.name>> \in SeedNames => <<r.kind, r.name>> \in taken
    BY <1>0
  <2>2. \A r \in rows : ~r.sys
    BY <1>2
  <2>3. born \in 0..MaxRows
    BY <1>1, CatalogAssumption
  <2>4. taken \subseteq SeedNames /\ unloaded \subseteq Agents \X Skills
    BY <1>0
  <2> QED BY <1>1, <1>2, <2>1, <2>2, <2>3, <2>4 DEF RowsInv
<1>4. LinksInv
  BY <1>0 DEF LinksInv
<1>5. TypesInv
  BY <1>0, <1>2, NoArgIsRow DEF Init, TypesInv
<1>6. ClientInv
  BY DEF Init, ClientInv, Holding, Actors
<1>7. \A s \in Servers : PlaceInv(s) /\ SeededInv(s) /\ LoadoutInv(s)
  BY <1>0, <1>1 DEF Init, PlaceInv, SeededInv, LoadoutInv, Actors, Seeking, Loading
<1> QED BY <1>3, <1>4, <1>5, <1>6, <1>7 DEF IInv

LEMMA DownOK ==
    ASSUME IInv, NEW s \in Servers, Down(s), UNCHANGED dbVars
    PROVE  IInv'
<1> USE DEF IInv, Actors
<1>1. RowsStep
  BY SameDb
<1>2. TypesInv'
  BY <1>1, NoArgIsRow DEF TypesInv, Down, Goto, RowsStep
<1>3. PlaceInv(s)' /\ SeededInv(s)' /\ LoadoutInv(s)'
  BY <1>1 DEF Down, Goto, TypesInv, PlaceInv, SeededInv, LoadoutInv, Seeking, Loading,
              RowsStep, Keep
<1>4. /\ \A x \in Servers \ {s} : OthersStay(x)
      /\ \A a \in Actors \ {s} : pc'[a] = pc[a] /\ arg'[a] = arg[a]
  BY DEF Down, Goto, TypesInv, OthersStay
<1> QED BY <1>1, <1>2, <1>3, <1>4, ServerMoves

LEMMA BootOK ==
    ASSUME IInv, NEW s \in Servers, Boot(s)
    PROVE  IInv'
<1> USE DEF IInv, Actors
<1>1. RowsStep
  BY SameDb DEF Boot
<1>2. TypesInv'
  BY <1>1 DEF TypesInv, Boot, Goto, Seeds, RowsStep
<1>3. /\ phase'[s] = "agents" /\ todo'[s] = Agents /\ pc'[s] = "next" /\ agentId' = agentId
      /\ s \notin again
  BY DEF Boot, Goto, TypesInv, Seeds, LoadoutInv
<1>4. PlaceInv(s)' /\ SeededInv(s)'
  <2>1. agentId[s] <= born'
    BY <1>1, Onward DEF RowsStep
  <2> QED BY <1>1, <1>3, <2>1 DEF PlaceInv, SeededInv, ToDo, Seeking, Loading, Seeds
<1>5. s \in again' => \A k \in Skills : There("skill", k)
  <2> SUFFICES ASSUME s \in again', NEW k \in Skills PROVE There("skill", k)
    OBVIOUS
  <2>1. PICK r \in Named("skill", k) : TRUE
    BY <1>3 DEF Boot
  <2>2. r \in rows /\ r.kind = "skill" /\ r.name = k /\ <<"skill", k>> \in SeedNames
    BY DEF Named, SeedNames
  <2> QED BY <2>1, <2>2 DEF RowsInv, There
<1>6. LoadoutInv(s)'
  <2>1. \A k \in Skills : There("skill", k) => There("skill", k)'
    BY <1>1, ThereStays DEF RowsStep
  <2> QED BY <1>3, <1>5, <2>1 DEF LoadoutInv, ToDo
<1>7. /\ \A x \in Servers \ {s} : OthersStay(x)
      /\ \A a \in Actors \ {s} : pc'[a] = pc[a] /\ arg'[a] = arg[a]
  BY DEF Boot, Goto, TypesInv, OthersStay
<1> QED BY <1>1, <1>2, <1>4, <1>6, <1>7, ServerMoves

\* What it has seeded stays seeded when it neither forgets a name nor changes phase.
LEMMA SeededStays ==
    ASSUME Keep, NEW s \in Servers, SeededInv(s), phase'[s] = phase[s],
           \A n \in Agents \cup Reports \cup Skills : ToDo(s, n) => ToDo(s, n)'
    PROVE  SeededInv(s)'
<1>1. \A kind, n : There(kind, n) => There(kind, n)'
  BY ThereStays
<1> QED BY <1>1 DEF SeededInv

\* ... and so do its loadouts, when it forgets no skill it has yet to load.
LEMMA LoadoutStays ==
    ASSUME RowsInv, Keep, KeepLinks, NEW s \in Servers, LoadoutInv(s), phase'[s] = phase[s],
           again' = again,
           \A n \in Agents : phase[s] = "agents" /\ ToDo(s, n) =>
              \/ ToDo(s, n)'
              \/ \A k \in Loadout[n] : ~Equipped(n, k)' =>
                    \E a \in Named("agent", n)', g \in Named("skill", k)' : LoadLeft(s, a, g)',
           \A n \in Agents : \A k \in Loadout[n] :
              \A a \in Named("agent", n), g \in Named("skill", k) :
                 ~Equipped(n, k)' /\ LoadLeft(s, a, g) => LoadLeft(s, a, g)'
    PROVE  LoadoutInv(s)'
<1>1. \A kind, n : There(kind, n) => There(kind, n)'
  BY ThereStays
<1> SUFFICES ASSUME s \in again, phase[s] # "failed", NEW n \in Agents, NEW k \in Loadout[n],
                    ~Equipped(n, k)', ~(phase[s] = "agents" /\ ToDo(s, n)')
             PROVE  \E a \in Named("agent", n)', g \in Named("skill", k)' :
                       phase[s] = "agents" /\ LoadLeft(s, a, g)'
  BY <1>1 DEF LoadoutInv
<1>2. k \in Skills
  BY CatalogAssumption
<1>3. ~Equipped(n, k)
  BY <1>2, EquippedStays
<1>4. CASE phase[s] = "agents" /\ ToDo(s, n)
  BY <1>4
<1>5. ASSUME NEW a \in Named("agent", n), NEW g \in Named("skill", k),
             phase[s] = "agents", LoadLeft(s, a, g)
      PROVE  \E x \in Named("agent", n)', y \in Named("skill", k)' :
                phase[s] = "agents" /\ LoadLeft(s, x, y)'
  <2>1. a \in Named("agent", n)' /\ g \in Named("skill", k)'
    BY <1>2, PairStays DEF Named
  <2> QED BY <1>5, <2>1
<1> QED BY <1>3, <1>4, <1>5 DEF LoadoutInv

LEMMA NextSeedOK ==
    ASSUME IInv, NEW s \in Servers, NextSeed(s)
    PROVE  IInv'
<1> USE DEF IInv, Actors
<1>1. PICK n \in todo[s] :
         /\ todo' = [todo EXCEPT ![s] = @ \ {n}]
         /\ arg' = [arg EXCEPT ![s] = Row(0, KindOf[phase[s]], n, TRUE)]
  BY DEF NextSeed
<1>2. phase[s] \in {"agents", "reports", "skills"} /\ n \in Seeds[phase[s]]
  BY <1>1 DEF NextSeed, PlaceInv, TypesInv
<1>3. /\ Row(0, KindOf[phase[s]], n, TRUE) \in RowType
      /\ n \in Agents \cup Reports \cup Skills
  BY <1>2 DEF Row, RowType, KindOf, Kinds, Seeds
<1>4. RowsStep
  BY SameDb DEF NextSeed
<1>5. TypesInv'
  BY <1>1, <1>3, <1>4 DEF TypesInv, NextSeed, Goto, RowsStep
<1>6. /\ phase' = phase /\ pc'[s] = "find" /\ todo'[s] = todo[s] \ {n} /\ again' = again
      /\ arg'[s].kind = KindOf[phase[s]] /\ arg'[s].name = n /\ agentId' = agentId
  <2>1. arg'[s] = Row(0, KindOf[phase[s]], n, TRUE)
    BY <1>1 DEF TypesInv
  <2>2. arg'[s].kind = KindOf[phase[s]] /\ arg'[s].name = n
    BY <2>1 DEF Row
  <2>3. /\ phase' = phase /\ pc'[s] = "find" /\ todo'[s] = todo[s] \ {n}
        /\ agentId' = agentId /\ again' = again
    BY <1>1 DEF NextSeed, Goto, TypesInv
  <2> QED BY <2>2, <2>3
<1>7. PlaceInv(s)'
  <2>1. agentId[s] <= born'
    BY <1>4, Onward DEF RowsStep
  <2> QED BY <1>2, <1>6, <2>1 DEF PlaceInv, Seeking, Loading, NextSeed
<1>8. \A m : ToDo(s, m) => ToDo(s, m)'
  BY <1>6 DEF ToDo, NextSeed, Seeking
<1>9. SeededInv(s)'
  BY <1>4, <1>6, <1>8, SeededStays DEF RowsStep
<1>10. LoadoutInv(s)'
  <2>1. \A a, g : ~LoadLeft(s, a, g)
    BY DEF NextSeed, LoadLeft, Loading
  <2> QED BY <1>4, <1>6, <1>8, <2>1, LoadoutStays DEF RowsStep
<1>11. /\ \A x \in Servers \ {s} : OthersStay(x)
       /\ \A a \in Actors \ {s} : pc'[a] = pc[a] /\ arg'[a] = arg[a]
  BY <1>1 DEF NextSeed, Goto, TypesInv, OthersStay
<1> QED BY <1>4, <1>5, <1>7, <1>9, <1>10, <1>11, ServerMoves

LEMMA NextPhaseOK ==
    ASSUME IInv, NEW s \in Servers, NextPhase(s)
    PROVE  IInv'
<1> USE DEF IInv, Actors
<1>1. phase[s] \in {"agents", "reports", "skills"} /\ pc[s] = "next" /\ todo[s] = {}
  BY DEF NextPhase, PlaceInv, TypesInv
<1>2. /\ phase' = [phase EXCEPT ![s] = After[@]]
      /\ todo' = [todo EXCEPT ![s] = Seeds[After[phase[s]]]]
      /\ pc' = [pc EXCEPT ![s] = IF After[phase[s]] = "up" THEN "idle" ELSE "next"]
      /\ UNCHANGED <<dbVars, left, agentId, again, arg>>
  BY DEF NextPhase, Goto
<1>3. /\ phase'[s] = After[phase[s]] /\ todo'[s] = Seeds[After[phase[s]]]
      /\ pc'[s] = IF After[phase[s]] = "up" THEN "idle" ELSE "next"
  BY <1>2 DEF TypesInv
<1>4. /\ After[phase[s]] \in {"reports", "skills", "up"}
      /\ Seeds[After[phase[s]]] \subseteq Agents \cup Reports \cup Skills
      /\ Seeds["up"] = {} /\ Seeds["reports"] = Reports /\ Seeds["skills"] = Skills
  BY <1>1 DEF After, Seeds
<1>5. RowsStep
  BY <1>2, SameDb
<1>6. TypesInv'
  BY <1>2, <1>4, <1>5 DEF TypesInv, RowsStep
<1>7. PlaceInv(s)'
  <2>1. agentId[s] <= born'
    BY <1>5, Onward DEF RowsStep
  <2> QED BY <1>1, <1>2, <1>3, <1>4, <2>1 DEF PlaceInv, Seeking, Loading
<1>10. \A n : ~ToDo(s, n)
  BY <1>1 DEF ToDo, Seeking
<1>11. \A kind, n : There(kind, n) => There(kind, n)'
  BY <1>5, ThereStays DEF RowsStep
<1>8. SeededInv(s)'
  <2>3. CASE phase[s] = "agents"
    <3>1. phase'[s] = "reports" /\ todo'[s] = Reports
      BY <2>3, <1>3, <1>4 DEF After
    <3> QED BY <1>11, <1>10, <2>3, <3>1 DEF SeededInv, ToDo
  <2>4. CASE phase[s] = "reports"
    <3>1. phase'[s] = "skills" /\ todo'[s] = Skills
      BY <2>4, <1>3, <1>4 DEF After
    <3> QED BY <1>11, <1>10, <2>4, <3>1 DEF SeededInv, ToDo
  <2>5. CASE phase[s] = "skills"
    <3>1. phase'[s] = "up"
      BY <2>5, <1>3 DEF After
    <3> QED BY <1>11, <1>10, <2>5, <3>1 DEF SeededInv
  <2> QED BY <1>1, <2>3, <2>4, <2>5
<1>12. LoadoutInv(s)'
  <2>1. \A a, g : ~LoadLeft(s, a, g)
    BY <1>1 DEF LoadLeft, Loading
  <2>2. s \in again => \A n \in Agents : \A k \in Loadout[n] : Equipped(n, k)
    BY <1>1, <1>10, <2>1 DEF LoadoutInv
  <2>3. \A n \in Agents : \A k \in Loadout[n] : Equipped(n, k) => Equipped(n, k)'
    BY <1>5, EquippedStays, CatalogAssumption DEF RowsStep
  <2> QED BY <1>2, <1>3, <1>4, <1>11, <2>2, <2>3 DEF LoadoutInv
<1>9. /\ \A x \in Servers \ {s} : OthersStay(x)
      /\ \A a \in Actors \ {s} : pc'[a] = pc[a] /\ arg'[a] = arg[a]
  BY <1>2 DEF TypesInv, OthersStay
<1> QED BY <1>5, <1>6, <1>7, <1>8, <1>9, <1>12, ServerMoves

\* A server that has found or made the row of a seed goes on.
LEMMA ServerHas ==
    ASSUME IInv, NEW s \in Servers, pc[s] \in Seeking, RowsStep, NEW r \in rows',
           r.kind = arg[s].kind, r.name = arg[s].name, Have(s, r.id)
    PROVE  IInv'
<1> USE DEF IInv, Actors
<1> DEFINE n == arg[s].name
           k == arg[s].kind
<1>1. phase[s] \in {"agents", "reports", "skills"}
  BY DEF PlaceInv, TypesInv, Seeking
<1>2. k = KindOf[phase[s]] /\ n \in Seeds[phase[s]]
  BY DEF PlaceInv
<1>3. r \in RowType /\ r.id \in 1..born' /\ born' \in Nat
  BY DEF RowsStep, RowsInv, Keep
<1>12. k # "conversation" => <<k, n>> \in SeedNames
  BY <1>1, <1>2 DEF KindOf, Seeds, SeedNames
<1>13. r.kind # "conversation" => r.sys \/ <<k, n>> \in taken'
  BY <1>12 DEF RowsStep, RowsInv
<1>4. \A kind, m : kind = k /\ m = n => There(kind, m)'
  BY <1>13 DEF There, Named
<1>5. /\ UNCHANGED <<phase, todo, again>> /\ arg' = [arg EXCEPT ![s] = NoArg]
      /\ IF phase[s] = "agents"
         THEN /\ left' = [left EXCEPT ![s] = Loadout[n]]
              /\ agentId' = [agentId EXCEPT ![s] = r.id]
              /\ pc' = [pc EXCEPT ![s] = "skill"]
         ELSE /\ pc' = [pc EXCEPT ![s] = "next"]
              /\ UNCHANGED <<left, agentId>>
  BY DEF Have, Goto
<1>6. phase[s] = "agents" => n \in Agents /\ Loadout[n] \subseteq Skills /\ k = "agent"
  BY <1>2, CatalogAssumption DEF Seeds, KindOf
<1>7. TypesInv'
  BY <1>3, <1>5, <1>6, NoArgIsRow DEF TypesInv, RowsStep, RowType
<1>8. /\ todo'[s] = todo[s] /\ phase'[s] = phase[s]
      /\ pc'[s] = IF phase[s] = "agents" THEN "skill" ELSE "next"
      /\ agentId'[s] = IF phase[s] = "agents" THEN r.id ELSE agentId[s]
      /\ phase[s] = "agents" => left'[s] = Loadout[n]
  BY <1>5 DEF TypesInv
<1>9. PlaceInv(s)'
  <2>1. phase[s] = "agents" => taken' # {} \/ \E q \in ById("agent", r.id)' : q.sys
    BY <1>6, <1>13 DEF ById
  <2>2. agentId'[s] <= born'
    BY <1>3, <1>8 DEF PlaceInv, RowsStep, Keep, TypesInv
  <2> QED BY <1>1, <1>8, <2>1, <2>2 DEF PlaceInv, Seeking, Loading
<1>14. \A m : ToDo(s, m) => m \in todo'[s] \/ m = n
  BY <1>8 DEF ToDo
<1>10. SeededInv(s)'
  <2>2. \A kind, m : There(kind, m) => There(kind, m)'
    BY ThereStays DEF RowsStep
  <2>3. \A m : m = n =>
           /\ phase[s] = "agents" => There("agent", m)'
           /\ phase[s] = "reports" => There("conversation", m)'
           /\ phase[s] = "skills" => There("skill", m)'
    BY <1>2, <1>4 DEF KindOf
  <2> HIDE DEF n, k
  <2> QED BY <1>8, <1>14, <2>2, <2>3 DEF SeededInv, ToDo
<1>15. LoadoutInv(s)'
  <2>1. \A a, g : ~LoadLeft(s, a, g)
    BY DEF LoadLeft, Loading, Seeking
  <2>2. ASSUME s \in again, phase[s] = "agents", NEW m \in Agents, m = n,
               NEW l \in Loadout[m], ~Equipped(m, l)'
        PROVE  \E a \in Named("agent", m)', g \in Named("skill", l)' : LoadLeft(s, a, g)'
    <3>1. l \in Skills
      BY <1>6, <2>2
    <3>2. There("skill", l)'
      BY <2>2, <3>1, ThereStays DEF LoadoutInv, RowsStep
    <3>3. PICK g \in Named("skill", l)' : g.name = l
      BY <2>2, <3>2 DEF There, Equipped, Named
    <3>4. r \in Named("agent", m)'
      BY <1>6, <2>2 DEF Named
    <3>5. pc'[s] = "skill" /\ agentId'[s] = r.id /\ l \in left'[s]
      BY <1>8, <2>2
    <3>6. LoadLeft(s, r, g)'
      BY <3>3, <3>5 DEF LoadLeft, Loading
    <3> QED BY <3>3, <3>4, <3>6
  <2>3. \A m \in Agents : phase[s] = "agents" /\ ToDo(s, m) => ToDo(s, m)' \/ m = n
    BY <1>14 DEF ToDo
  <2> HIDE DEF n, k
  <2>4. CASE s \in again
    <3>1. \A m \in Agents : phase[s] = "agents" /\ ToDo(s, m) =>
             \/ ToDo(s, m)'
             \/ \A l \in Loadout[m] : ~Equipped(m, l)' =>
                   \E a \in Named("agent", m)', g \in Named("skill", l)' : LoadLeft(s, a, g)'
      BY <2>2, <2>3, <2>4
    <3>2. RowsInv /\ Keep /\ KeepLinks /\ LoadoutInv(s) /\ again' = again
      BY <1>5 DEF RowsStep
    <3> QED BY <1>8, <2>1, <3>1, <3>2, LoadoutStays
  <2>5. CASE s \notin again
    BY <1>5, <2>5 DEF LoadoutInv
  <2> QED BY <2>4, <2>5
<1>11. /\ \A x \in Servers \ {s} : OthersStay(x)
       /\ \A a \in Actors \ {s} : pc'[a] = pc[a] /\ arg'[a] = arg[a]
  BY <1>5 DEF TypesInv, OthersStay
<1> QED BY <1>7, <1>9, <1>10, <1>11, <1>15, ServerMoves

\* A request that has the report's conversation is over.
LEMMA ClientHas ==
    ASSUME IInv, NEW c \in Clients, RowsStep, NEW id, Have(c, id)
    PROVE  IInv'
<1> USE DEF IInv, Actors
<1>1. /\ arg' = [arg EXCEPT ![c] = NoArg] /\ pc' = [pc EXCEPT ![c] = "idle"]
      /\ UNCHANGED taskVars
  BY CatalogAssumption DEF Have, Goto, taskVars
<1>2. TypesInv'
  BY <1>1, NoArgIsRow DEF TypesInv, RowsStep, taskVars
<1>3. ClientInv'
  BY <1>1, ClientsStay DEF RowsStep, TypesInv
<1>4. \A s \in Servers : pc'[s] = pc[s] /\ arg'[s] = arg[s]
  BY <1>1, CatalogAssumption DEF TypesInv
<1> QED BY <1>1, <1>2, <1>3, <1>4, ClientMoves

\* What a server that seeks keeps when it goes on seeking.
LEMMA SeekOn ==
    ASSUME IInv, NEW s \in Servers, RowsStep, pc[s] \in Seeking, pc'[s] \in Seeking,
           phase'[s] = phase[s], todo'[s] = todo[s], arg'[s] = arg[s], again' = again
    PROVE  SeededInv(s)' /\ LoadoutInv(s)'
<1>1. \A n : ToDo(s, n) => ToDo(s, n)'
  BY DEF ToDo
<1>2. \A a, g : ~LoadLeft(s, a, g)
  BY DEF LoadLeft, Loading, Seeking
<1>3. SeededInv(s)'
  BY <1>1, SeededStays DEF IInv, RowsStep
<1>4. LoadoutInv(s)'
  BY <1>1, <1>2, LoadoutStays DEF IInv, RowsStep
<1> QED BY <1>3, <1>4

\* A step after which only pc differs keeps the types and everybody else's place.
LEMMA GotoOK ==
    ASSUME IInv, NEW a \in Actors, NEW l, Goto(a, l), UNCHANGED <<dbVars, taskVars, arg>>,
           l \in {"next", "find", "create", "refind", "link", "idle"}
    PROVE  /\ RowsStep /\ TypesInv' /\ pc'[a] = l /\ again' = again
           /\ \A x \in Servers : phase'[x] = phase[x] /\ todo'[x] = todo[x] /\ OthersStay(x)
           /\ \A x \in Actors : arg'[x] = arg[x] /\ (x # a => pc'[x] = pc[x])
<1>1. RowsStep
  BY SameDb
<1> QED BY <1>1 DEF IInv, TypesInv, Goto, taskVars, OthersStay, RowsStep

LEMMA FindOK ==
    ASSUME IInv, NEW a \in Actors, Find(a)
    PROVE  IInv'
<1>1. pc[a] = "find" /\ UNCHANGED dbVars
  BY DEF Find
<1>2. RowsStep
  BY <1>1, SameDb
<1>3. ASSUME NEW r \in Named(arg[a].kind, arg[a].name), Have(a, r.id)
      PROVE  IInv'
  <2>1. r \in rows /\ r \in rows' /\ r.kind = arg[a].kind /\ r.name = arg[a].name
    BY <1>1 DEF Named, dbVars
  <2>2. CASE a \in Servers
    BY <1>1, <1>2, <1>3, <2>1, <2>2, ServerHas DEF Seeking
  <2>3. CASE a \in Clients
    BY <1>2, <1>3, <2>3, ClientHas
  <2> QED BY <2>2, <2>3 DEF Actors
<1>4. CASE Goto(a, "create") /\ UNCHANGED <<taskVars, arg>>
  <2>1. /\ TypesInv' /\ pc'[a] = "create" /\ again' = again
        /\ \A x \in Servers : phase'[x] = phase[x] /\ todo'[x] = todo[x] /\ OthersStay(x)
        /\ \A x \in Actors : arg'[x] = arg[x] /\ (x # a => pc'[x] = pc[x])
    BY <1>1, <1>4, GotoOK
  <2>2. CASE a \in Servers
    <3>1. PlaceInv(a)'
      <4>1. agentId[a] <= born'
        BY <1>2, <2>2, Onward DEF RowsStep, IInv
      <4> QED BY <1>1, <2>1, <2>2, <4>1 DEF IInv, PlaceInv, Seeking, Loading, OthersStay, Actors
    <3>2. SeededInv(a)' /\ LoadoutInv(a)'
      BY <1>1, <1>2, <2>1, <2>2, SeekOn DEF Seeking, Actors
    <3> QED BY <1>2, <2>1, <2>2, <3>1, <3>2, ServerMoves
  <2>3. CASE a \in Clients
    <3>1. arg[a].kind = "conversation" /\ arg[a].name \in Reports
      BY <1>1, <2>3 DEF IInv, ClientInv
    <3>2. ClientInv'
      BY <1>2, <2>1, <2>3, <3>1, ClientsStay DEF IInv, RowsStep, Actors
    <3>3. \A s \in Servers : pc'[s] = pc[s] /\ arg'[s] = arg[s]
      BY <2>1, <2>3, CatalogAssumption DEF Actors
    <3> QED BY <1>2, <1>4, <2>1, <3>2, <3>3, ClientMoves
  <2> QED BY <2>2, <2>3 DEF Actors
<1> QED BY <1>3, <1>4 DEF Find

LEMMA CreateOK ==
    ASSUME IInv, NEW a \in Actors, Create(a)
    PROVE  IInv'
<1> DEFINE r == SeedRow(born + 1, arg[a])
<1>1. /\ pc[a] = "create" /\ born < MaxRows /\ ~Duplicate(arg[a].kind, arg[a].name)
      /\ Insert(r) /\ Have(a, born + 1) /\ UNCHANGED taken
  BY DEF Create
<1>2. arg[a] \in RowType /\ born \in Nat /\ taken \subseteq SeedNames
  BY CatalogAssumption DEF IInv, TypesInv, RowsInv
<1>3. /\ r.id = born + 1 /\ r.kind = arg[a].kind /\ r.name = arg[a].name
      /\ (r.sys <=> arg[a].kind # "conversation") /\ r \in RowType
  <2>1. CASE arg[a].kind = "conversation"
    <3>0. (arg[a].kind # "conversation") = FALSE
      BY <2>1
    <3>1. r = Row(born + 1, "conversation", arg[a].name, FALSE)
      BY <2>1, <3>0, Zenon DEF SeedRow
    <3> HIDE DEF r
    <3>2. r.id = born + 1 /\ r.kind = arg[a].kind /\ r.name = arg[a].name
      BY <2>1, <3>1 DEF Row
    <3>4. r.sys = FALSE
      BY <3>1 DEF Row
    <3>3. r \in RowType
      BY <1>2, <2>1, <3>1 DEF Row, RowType
    <3> QED BY <2>1, <3>2, <3>3, <3>4
  <2>2. CASE arg[a].kind # "conversation"
    <3>0. (arg[a].kind # "conversation") = TRUE
      BY <2>2
    <3>1. r = Row(born + 1, arg[a].kind, arg[a].name, TRUE)
      BY <3>0, Zenon DEF SeedRow
    <3> HIDE DEF r
    <3>2. r.id = born + 1 /\ r.kind = arg[a].kind /\ r.name = arg[a].name
      BY <3>1 DEF Row
    <3>4. r.sys = TRUE
      BY <3>1 DEF Row
    <3>3. r \in RowType
      BY <1>2, <3>1 DEF Row, RowType
    <3> QED BY <2>2, <3>2, <3>3, <3>4
  <2> QED BY <2>1, <2>2
<1>4. \/ arg[a].kind = "conversation"
      \/ arg[a].kind = "agent" /\ arg[a].name \in Agents
      \/ arg[a].kind = "skill" /\ arg[a].name \in Skills
  <2>1. CASE a \in Clients
    BY <1>1, <2>1 DEF IInv, ClientInv
  <2>2. CASE a \in Servers
    <3>1. phase[a] \in {"agents", "reports", "skills"}
      BY <1>1, <2>2 DEF IInv, PlaceInv, TypesInv
    <3>2. arg[a].kind = KindOf[phase[a]] /\ arg[a].name \in Seeds[phase[a]]
      BY <1>1, <2>2 DEF IInv, PlaceInv, Seeking
    <3> QED BY <3>1, <3>2 DEF KindOf, Seeds
  <2> QED BY <2>1, <2>2 DEF Actors
<1> HIDE DEF r
<1>9. /\ r.sys => <<r.kind, r.name>> \in SeedNames
      /\ <<r.kind, r.name>> \in SeedNames => r.sys
  BY <1>3, <1>4 DEF SeedNames
<1>5. RowsStep
  BY <1>1, <1>2, <1>3, <1>9, InsertOK DEF IInv, TypesInv
<1>6. r \in rows'
  BY <1>1 DEF Insert
<1>7. CASE a \in Servers
  BY <1>1, <1>3, <1>5, <1>6, <1>7, ServerHas DEF Seeking
<1>8. CASE a \in Clients
  BY <1>1, <1>5, <1>8, ClientHas
<1> QED BY <1>7, <1>8 DEF Actors

LEMMA CreateLostOK ==
    ASSUME IInv, NEW a \in Actors, CreateLost(a)
    PROVE  IInv'
<1>1. /\ pc[a] = "create" /\ UNCHANGED dbVars
      /\ Goto(a, "refind") /\ UNCHANGED <<taskVars, arg>>
  BY DEF CreateLost, LostRace
<1>2. arg[a].kind # "conversation" /\ Named(arg[a].kind, arg[a].name) # {}
  BY DEF CreateLost, Duplicate
<1>3. a \in Servers
  BY <1>1, <1>2 DEF Actors, IInv, ClientInv
<1>4. PICK r \in rows : r.kind = arg[a].kind /\ r.name = arg[a].name
  BY <1>2 DEF Named
<1>7. /\ phase[a] # "reports"
      /\ phase[a] \in {"agents", "skills"} => <<arg[a].kind, arg[a].name>> \in SeedNames
  BY <1>1, <1>2, <1>3 DEF IInv, PlaceInv, Seeking, KindOf, Seeds, SeedNames
<1>11. phase[a] \in {"agents", "reports", "skills"}
  BY <1>1, <1>3 DEF IInv, PlaceInv, TypesInv
<1>5. There(arg[a].kind, arg[a].name)
  BY <1>4, <1>7, <1>11 DEF There, Named, IInv, RowsInv
<1>6. /\ RowsStep /\ TypesInv' /\ pc'[a] = "refind" /\ again' = again
      /\ \A x \in Servers : phase'[x] = phase[x] /\ todo'[x] = todo[x] /\ OthersStay(x)
      /\ \A x \in Actors : arg'[x] = arg[x] /\ (x # a => pc'[x] = pc[x])
  BY <1>1, GotoOK
<1>8. There(arg[a].kind, arg[a].name)'
  BY <1>5, <1>6, <1>3, ThereStays DEF RowsStep, Actors
<1>9. PlaceInv(a)'
  <2>1. agentId[a] <= born'
    BY <1>3, <1>6, Onward DEF RowsStep, IInv
  <2> QED BY <1>1, <1>3, <1>6, <1>7, <1>8, <1>11, <2>1
          DEF IInv, PlaceInv, Seeking, Loading, OthersStay, Actors
<1>10. SeededInv(a)' /\ LoadoutInv(a)'
  BY <1>1, <1>3, <1>6, SeekOn DEF Seeking, Actors
<1> QED BY <1>3, <1>6, <1>9, <1>10, ServerMoves

\* A startup that fails after a user has taken a seed's name.
LEMMA FailsOK ==
    ASSUME IInv, NEW s \in Servers, Fails(s), UNCHANGED dbVars, taken # {}
    PROVE  IInv'
<1> USE DEF IInv, Actors
<1>1. RowsStep
  BY SameDb
<1>2. /\ pc' = [pc EXCEPT ![s] = "idle"] /\ arg' = [arg EXCEPT ![s] = NoArg]
      /\ UNCHANGED <<todo, left, agentId, again>>
      /\ \A x \in Servers : phase'[x] = IF x = s THEN "failed" ELSE phase[x]
      /\ phase' \in [Servers -> {"down", "agents", "reports", "skills", "up", "failed"}]
  BY DEF Fails, Goto, TypesInv
<1>3. TypesInv'
  BY <1>1, <1>2, NoArgIsRow DEF TypesInv, RowsStep
<1>4. phase'[s] = "failed" /\ pc'[s] = "idle" /\ taken' # {}
  BY <1>2 DEF TypesInv, dbVars
<1>5. PlaceInv(s)' /\ SeededInv(s)'
  BY <1>1, <1>2, <1>4 DEF PlaceInv, SeededInv, Seeking, Loading, RowsStep, Keep, TypesInv
<1>6. LoadoutInv(s)'
  BY <1>1, <1>2, <1>4, ThereStays DEF LoadoutInv, RowsStep
<1>7. /\ \A x \in Servers \ {s} : OthersStay(x)
      /\ \A a \in Actors \ {s} : pc'[a] = pc[a] /\ arg'[a] = arg[a]
  BY <1>2 DEF TypesInv, OthersStay
<1> QED BY <1>1, <1>3, <1>5, <1>6, <1>7, ServerMoves

\* Who was there first is still there, or its name was taken and given up.
LEMMA RefindOK ==
    ASSUME IInv, NEW a \in Actors, Refind(a)
    PROVE  IInv'
<1>1. pc[a] = "refind" /\ UNCHANGED dbVars
  BY DEF Refind
<1>2. a \in Servers
  BY <1>1 DEF Actors, IInv, ClientInv
<1>3. taken # {} \/ Named(arg[a].kind, arg[a].name) # {}
  BY <1>1, <1>2 DEF IInv, PlaceInv, There
<1>4. CASE Named(arg[a].kind, arg[a].name) = {}
  BY <1>1, <1>2, <1>3, <1>4, FailsOK DEF Refind
<1>5. ASSUME NEW r \in Named(arg[a].kind, arg[a].name), Have(a, r.id)
      PROVE  IInv'
  <2>1. RowsStep
    BY <1>1, SameDb
  <2>2. r \in rows' /\ r.kind = arg[a].kind /\ r.name = arg[a].name
    BY <1>1 DEF Named, dbVars
  <2> QED BY <1>1, <1>2, <1>5, <2>1, <2>2, ServerHas DEF Seeking
<1> QED BY <1>4, <1>5 DEF Refind

\* The agent whose skills are loaded and the skill at hand are still there.
LEMMA BothThere ==
    ASSUME IInv, NEW s \in Servers, pc[s] \in {"check", "link"}
    PROVE  \/ taken # {}
           \/ ById("agent", agentId[s]) # {} /\ ById("skill", arg[s].id) # {}
<1>1. taken # {} \/ ById("agent", agentId[s]) # {}
  BY DEF IInv, PlaceInv, Loading
<1>2. taken # {} \/ arg[s] \in ById("skill", arg[s].id)
  BY DEF IInv, PlaceInv, ById
<1> QED BY <1>1, <1>2

\* The steps of LoadSkill and around it that do not fail.
LoadStep(s) ==
    \/ NextSkill(s) \/ LoadoutDone(s)
    \/ /\ pc[s] = "check" /\ Goto(s, "link") /\ UNCHANGED <<dbVars, taskVars, arg>>
    \/ /\ pc[s] = "link" /\ Loaded(s) /\ UNCHANGED <<rows, born, taken, unloaded, taskVars>>
       /\ links' = links \cup {<<agentId[s], arg[s].id>>}
       /\ ById("agent", agentId[s]) # {} /\ ById("skill", arg[s].id) # {}

\* Each of them leaves the skills that are to be loaded to be loaded, or has loaded them.
LEMMA LoadStepLeaves ==
    ASSUME IInv, NEW s \in Servers, LoadStep(s), s \in again, RowsStep,
           NEW n \in Agents, NEW k \in Loadout[n], ~Equipped(n, k)',
           NEW a \in Named("agent", n), NEW g \in Named("skill", k), LoadLeft(s, a, g)
    PROVE  LoadLeft(s, a, g)'
<1> USE DEF IInv, Actors
<1>1. k \in Skills /\ g.name = k /\ g \in rows /\ g.kind = "skill" /\ g \in RowType
  BY CatalogAssumption DEF Named, TypesInv
<1>2. pc[s] \in Loading /\ agentId[s] = a.id /\ agentId'[s] = agentId[s]
  BY DEF LoadLeft, LoadStep, NextSkill, LoadoutDone, taskVars
<1>3. CASE NextSkill(s)
  <2>1. PICK m \in left[s] :
           /\ left' = [left EXCEPT ![s] = @ \ {m}]
           /\ \/ \E q \in Named("skill", m) :
                    arg' = [arg EXCEPT ![s] = q] /\ Goto(s, "check")
              \/ Named("skill", m) = {} /\ UNCHANGED <<arg, pc>>
    BY <1>3 DEF NextSkill
  <2>2. pc[s] = "skill" /\ k \in left[s] /\ left'[s] = left[s] \ {m}
    BY <1>1, <1>3, <2>1 DEF NextSkill, LoadLeft, TypesInv
  <2>3. CASE UNCHANGED <<arg, pc>> /\ Named("skill", m) = {}
    BY <1>1, <1>2, <2>2, <2>3 DEF LoadLeft
  <2>4. ASSUME NEW q \in Named("skill", m), arg' = [arg EXCEPT ![s] = q], Goto(s, "check")
        PROVE  LoadLeft(s, a, g)'
    <3>1. arg'[s] = q /\ pc'[s] = "check"
      BY <2>4 DEF Goto, TypesInv
    <3>2. m = k => q = g
      BY <1>1 DEF Named, RowsInv
    <3> QED BY <1>1, <1>2, <2>2, <3>1, <3>2 DEF LoadLeft, Loading
  <2> QED BY <2>1, <2>3, <2>4
<1>4. CASE LoadoutDone(s)
  BY <1>4 DEF LoadoutDone, LoadLeft
<1>5. CASE pc[s] = "check" /\ Goto(s, "link") /\ UNCHANGED <<dbVars, taskVars, arg>>
  <2>1. pc'[s] = "link" /\ UNCHANGED <<arg, left>>
    BY <1>5 DEF Goto, TypesInv, taskVars
  <2> QED BY <1>2, <1>5, <2>1 DEF LoadLeft, Loading
<1>6. CASE /\ pc[s] = "link" /\ Loaded(s)
           /\ UNCHANGED <<rows, born, taken, unloaded, taskVars>>
           /\ links' = links \cup {<<agentId[s], arg[s].id>>}
  <2>1. pc'[s] = "skill" /\ left' = left
    BY <1>6 DEF Loaded, Goto, TypesInv, taskVars
  <2>2. arg[s].id # g.id
    <3> SUFFICES ASSUME arg[s].id = g.id PROVE FALSE
      OBVIOUS
    <3>1. <<a.id, g.id>> \in links'
      BY <1>2, <1>6
    <3> QED BY <1>6, <3>1 DEF Equipped, Named
  <2> QED BY <1>2, <2>1, <2>2 DEF LoadLeft, Loading
<1> QED BY <1>3, <1>4, <1>5, <1>6 DEF LoadStep

LEMMA LoadStepOK ==
    ASSUME IInv, NEW s \in Servers, LoadStep(s)
    PROVE  IInv'
<1> USE DEF IInv, Actors
<1>1. /\ pc[s] \in {"skill", "check", "link"}
      /\ UNCHANGED <<rows, born, taken, unloaded, phase, todo, agentId, again>>
  BY DEF LoadStep, NextSkill, LoadoutDone, taskVars, dbVars
<1>2. phase[s] = "agents" /\ (taken # {} \/ \E r \in ById("agent", agentId[s]) : r.sys)
  BY <1>1 DEF PlaceInv, TypesInv, Loading, Seeking
<1>3. /\ left' \in [Servers -> SUBSET Skills]
      /\ \A x \in Servers \ {s} : left'[x] = left[x]
      /\ pc'[s] \in {"skill", "check", "link", "next"}
      /\ \E l \in {"skill", "check", "link", "next"} : pc' = [pc EXCEPT ![s] = l]
      /\ \E r \in RowType : arg' = [arg EXCEPT ![s] = r]
      /\ pc'[s] \in {"check", "link"} =>
            taken # {} \/ (arg'[s] \in rows /\ arg'[s].kind = "skill" /\ arg'[s].sys)
      /\ LinksInv' /\ links \subseteq links'
  <2>0. /\ \A l : pc[s] = l => pc = [pc EXCEPT ![s] = l]
        /\ \A r : arg[s] = r => arg = [arg EXCEPT ![s] = r]
        /\ arg[s] \in RowType
    BY DEF TypesInv
  <2>1. CASE NextSkill(s)
    <3>1. PICK n \in left[s] :
             /\ left' = [left EXCEPT ![s] = @ \ {n}]
             /\ \/ \E r \in Named("skill", n) :
                      arg' = [arg EXCEPT ![s] = r] /\ Goto(s, "check")
                \/ UNCHANGED <<arg, pc>>
      BY <2>1 DEF NextSkill
    <3>2. /\ left' \in [Servers -> SUBSET Skills] /\ n \in Skills /\ LinksInv'
          /\ \A x \in Servers \ {s} : left'[x] = left[x]
          /\ pc[s] = "skill" /\ links' = links
      BY <2>1, <3>1, SameLinks DEF NextSkill, TypesInv, dbVars
    <3>3. ASSUME NEW r \in Named("skill", n), arg' = [arg EXCEPT ![s] = r], Goto(s, "check")
          PROVE  /\ pc'[s] = "check" /\ pc' = [pc EXCEPT ![s] = "check"]
                 /\ arg'[s] = r /\ r \in RowType
                 /\ r \in rows /\ r.kind = "skill" /\ (taken # {} \/ r.sys)
      <4>1. r \in rows /\ r.kind = "skill" /\ r.name = n
        BY DEF Named
      <4>2. <<r.kind, r.name>> \in SeedNames
        BY <3>2, <4>1 DEF SeedNames
      <4>3. taken # {} \/ r.sys
        BY <4>1, <4>2 DEF RowsInv
      <4> QED BY <3>2, <3>3, <4>1, <4>3 DEF Goto, TypesInv
    <3>4. CASE UNCHANGED <<arg, pc>>
      BY <2>0, <3>2, <3>4
    <3>5. CASE \E r \in Named("skill", n) : arg' = [arg EXCEPT ![s] = r] /\ Goto(s, "check")
      <4>1. PICK r \in Named("skill", n) : arg' = [arg EXCEPT ![s] = r] /\ Goto(s, "check")
        BY <3>5
      <4> QED BY <3>2, <3>3, <4>1
    <3> QED BY <3>1, <3>4, <3>5
  <2>2. CASE LoadoutDone(s)
    BY <2>0, <2>2, SameLinks DEF LoadoutDone, Goto, TypesInv, taskVars, dbVars
  <2>3. CASE pc[s] = "check" /\ Goto(s, "link") /\ UNCHANGED <<dbVars, taskVars, arg>>
    BY <1>1, <2>0, <2>3, SameLinks DEF Goto, TypesInv, PlaceInv, dbVars, taskVars
  <2>4. CASE /\ pc[s] = "link" /\ Loaded(s) /\ UNCHANGED taskVars
             /\ links' = links \cup {<<agentId[s], arg[s].id>>}
             /\ ById("agent", agentId[s]) # {} /\ ById("skill", arg[s].id) # {}
    <3>1. /\ pc' = [pc EXCEPT ![s] = "skill"]
          /\ arg' = [arg EXCEPT ![s] = NoArg] /\ UNCHANGED left
      BY <2>4 DEF Loaded, Goto, taskVars
    <3>2. LinksInv'
      <4>1. \A kind, id : ById(kind, id)' = ById(kind, id)
        BY <1>1 DEF ById
      <4> QED BY <2>4, <4>1 DEF LinksInv
    <3> QED BY <2>4, <3>1, <3>2, NoArgIsRow DEF TypesInv
  <2> QED BY <2>1, <2>2, <2>3, <2>4 DEF LoadStep
<1>4. RowsStep
  <2>1. KeepLinks
    BY <1>3 DEF KeepLinks
  <2>2. unloaded' \subseteq Agents \X Skills /\ unloaded \subseteq unloaded'
    BY <1>1 DEF RowsInv
  <2> QED BY <1>1, <1>3, <2>1, <2>2, SameRows DEF TypesInv
<1>5. TypesInv'
  BY <1>1, <1>3 DEF TypesInv
<1>6. PlaceInv(s)'
  <2>1. (taken # {} \/ \E r \in ById("agent", agentId[s]) : r.sys)'
    BY <1>1, <1>2 DEF ById
  <2>2. todo'[s] \subseteq Seeds[phase'[s]]
    BY <1>1, <1>2 DEF PlaceInv
  <2> QED BY <1>1, <1>2, <1>3, <2>1, <2>2 DEF PlaceInv, Seeking, Loading
<1>7. SeededInv(s)'
  BY <1>1, <1>4, SeededStays DEF RowsStep, ToDo, Seeking
<1>9. LoadoutInv(s)'
  <2>1. \A n \in Agents : ToDo(s, n) => ToDo(s, n)'
    BY <1>1 DEF ToDo, Seeking
  <2>2. CASE s \in again
    <3>1. \A n \in Agents : \A k \in Loadout[n] :
             \A a \in Named("agent", n), g \in Named("skill", k) :
                ~Equipped(n, k)' /\ LoadLeft(s, a, g) => LoadLeft(s, a, g)'
      BY <1>4, <2>2, LoadStepLeaves
    <3> QED BY <1>1, <1>4, <2>1, <3>1, LoadoutStays DEF RowsStep
  <2>3. CASE s \notin again
    BY <1>1, <2>3 DEF LoadoutInv
  <2> QED BY <2>2, <2>3
<1>8. /\ \A x \in Servers \ {s} : OthersStay(x)
      /\ \A a \in Actors \ {s} : pc'[a] = pc[a] /\ arg'[a] = arg[a]
  BY <1>1, <1>3 DEF TypesInv, OthersStay
<1> QED BY <1>4, <1>5, <1>6, <1>7, <1>8, <1>9, ServerMoves

LEMMA LoadingOK ==
    ASSUME IInv, NEW s \in Servers,
           NextSkill(s) \/ LoadoutDone(s) \/ Check(s) \/ Link(s)
    PROVE  IInv'
<1>1. CASE LoadStep(s)
  BY <1>1, LoadStepOK
<1>2. CASE Fails(s) /\ UNCHANGED dbVars /\ taken # {}
  BY <1>2, FailsOK
<1>3. CASE Check(s)
  BY <1>1, <1>2, <1>3, BothThere DEF Check, LoadStep
<1>4. CASE Link(s)
  BY <1>1, <1>2, <1>4, BothThere DEF Link, LoadStep, dbVars
<1> QED BY <1>1, <1>3, <1>4 DEF LoadStep

-----------------------------------------------------------------------------
(* The requests of users, and what they leave to startup. *)

\* A request that ends, and whose statement kept the seeded rows.
LEMMA DoneOK ==
    ASSUME IInv, NEW c \in Clients, RowsStep, Done(c), UNCHANGED taskVars
    PROVE  IInv'
<1> USE DEF IInv, Actors
<1>1. /\ arg' = [arg EXCEPT ![c] = NoArg] /\ pc' = [pc EXCEPT ![c] = "idle"]
  BY DEF Done, Goto
<1>2. TypesInv'
  BY <1>1, NoArgIsRow DEF TypesInv, RowsStep, taskVars
<1>3. ClientInv'
  BY <1>1, ClientsStay DEF RowsStep, TypesInv
<1>4. \A s \in Servers : pc'[s] = pc[s] /\ arg'[s] = arg[s]
  BY <1>1, CatalogAssumption DEF TypesInv
<1> QED BY <1>2, <1>3, <1>4, ClientMoves

\* A request of a single statement.
LEMMA StatementOK ==
    ASSUME IInv, RowsStep, UNCHANGED <<taskVars, pc, arg>>
    PROVE  IInv'
<1>1. TypesInv'
  BY DEF IInv, TypesInv, RowsStep, taskVars
<1>2. ClientInv'
  BY ClientsStay DEF IInv, RowsStep
<1> QED BY <1>1, <1>2, ClientMoves

LEMMA UserCreateOK ==
    ASSUME IInv, NEW c \in Clients, NEW kind \in Kinds, NEW name \in UserNames[kind],
           UserCreate(c, kind, name)
    PROVE  IInv'
<1> DEFINE r == Row(born + 1, kind, name, FALSE)
<1>1. /\ born < MaxRows /\ ~Duplicate(kind, name) /\ Insert(r)
      /\ Takes(kind, name) /\ UNCHANGED <<taskVars, pc, arg>>
  BY DEF UserCreate
<1>2. born \in Nat /\ name \in AllUserNames /\ taken \subseteq SeedNames
  BY CatalogAssumption DEF IInv, RowsInv, AllUserNames
<1>3. r.id = born + 1 /\ r.kind = kind /\ r.name = name
  BY DEF Row
<1>7. r.sys = FALSE
  BY DEF Row
<1>4. r \in RowType
  BY <1>2 DEF Row, RowType
<1>5. /\ taken \subseteq taken' /\ taken' \subseteq SeedNames
      /\ <<kind, name>> \in SeedNames => <<kind, name>> \in taken'
  BY <1>1, <1>2, TakesIt
<1> HIDE DEF r
<1>6. RowsStep
  BY <1>1, <1>3, <1>4, <1>5, <1>7, InsertOK DEF IInv, TypesInv
<1> QED BY <1>1, <1>6, StatementOK

\* The row a request has read is none that startup has seeded.
LEMMA GetOK ==
    ASSUME IInv, NEW c \in Clients, NEW r \in rows, NEW l \in {"save", "delete"}, Get(c, r, l)
    PROVE  IInv'
<1> USE DEF IInv, Actors
<1>1. /\ r.kind # "conversation" /\ ~r.sys /\ pc' = [pc EXCEPT ![c] = l]
      /\ arg' = [arg EXCEPT ![c] = r] /\ UNCHANGED <<dbVars, taskVars>>
  BY DEF Get, Writable, Goto
<1>2. RowsStep
  BY <1>1, SameDb
<1>3. TypesInv'
  BY <1>1, <1>2 DEF TypesInv, taskVars, RowsStep
<1>4. /\ pc'[c] = l /\ arg'[c] = r
      /\ \A d \in Clients \ {c} : pc'[d] = pc[d] /\ arg'[d] = arg[d]
  BY <1>1 DEF TypesInv
<1>5. \A d \in Holding' \ {c} : d \in Holding /\ arg'[d] = arg[d]
  BY <1>4 DEF Holding
<1>6. r.id \in 1..born /\ \A q \in rows : q.id = r.id => q = r
  BY DEF RowsInv
<1>7. ClientInv'
  <2>1. \A d \in Clients : pc'[d] \in {"idle", "find", "create", "save", "delete"}
    BY <1>4 DEF ClientInv
  <2>2. \A d \in Clients : pc'[d] \in {"find", "create"} =>
           arg'[d].kind = "conversation" /\ arg'[d].name \in Reports
    BY <1>4 DEF ClientInv
  <2>3. \A d \in Holding' :
           /\ arg'[d].id \in 1..born /\ ~arg'[d].sys /\ arg'[d].kind # "conversation"
           /\ \A q \in rows : q.id = arg'[d].id => q.kind = arg'[d].kind /\ ~q.sys
    BY <1>1, <1>4, <1>5, <1>6 DEF ClientInv
  <2>4. \A d, e \in Holding' : arg'[e].id = arg'[d].id => arg'[e].kind = arg'[d].kind
    BY <1>4, <1>5, <1>6 DEF ClientInv
  <2>5. Holding' \subseteq Clients
    BY DEF Holding
  <2> QED BY <1>1, <2>1, <2>2, <2>3, <2>4, <2>5 DEF ClientInv, dbVars
<1>8. \A s \in Servers : pc'[s] = pc[s] /\ arg'[s] = arg[s]
  BY <1>1, CatalogAssumption DEF TypesInv
<1> QED BY <1>1, <1>2, <1>3, <1>7, <1>8, ClientMoves

LEMMA RunReportOK ==
    ASSUME IInv, NEW c \in Clients, NEW title \in Reports, RunReport(c, title)
    PROVE  IInv'
<1> USE DEF IInv, Actors
<1>1. /\ arg' = [arg EXCEPT ![c] = Row(0, "conversation", title, FALSE)]
      /\ pc' = [pc EXCEPT ![c] = "find"] /\ UNCHANGED <<dbVars, taskVars>>
  BY DEF RunReport, Goto
<1>2. RowsStep
  BY <1>1, SameDb
<1>3. Row(0, "conversation", title, FALSE) \in RowType
  BY DEF Row, RowType, Kinds
<1>4. TypesInv'
  BY <1>1, <1>2, <1>3 DEF TypesInv, taskVars, RowsStep
<1>5. /\ arg'[c] = Row(0, "conversation", title, FALSE) /\ pc'[c] = "find"
      /\ \A d \in Clients \ {c} : pc'[d] = pc[d] /\ arg'[d] = arg[d]
  BY <1>1 DEF TypesInv
<1>6. arg'[c].kind = "conversation" /\ arg'[c].name = title
  BY <1>5 DEF Row
<1>7. ClientInv'
  BY <1>2, <1>5, <1>6, ClientsStay DEF RowsStep
<1>8. \A s \in Servers : pc'[s] = pc[s] /\ arg'[s] = arg[s]
  BY <1>1, CatalogAssumption DEF TypesInv
<1> QED BY <1>1, <1>2, <1>4, <1>7, <1>8, ClientMoves

\* A link that is added joins rows that are there.
LEMMA LinkAdded ==
    ASSUME IInv, UNCHANGED <<rows, born, taken, unloaded, taskVars, pc, arg>>,
           NEW x, NEW y, links' = links \cup {<<x.id, y.id>>},
           \/ x \in Table("agent") /\ y \in Table("skill")
           \/ x \in Table("conversation") /\ y \in Table("agent")
    PROVE  IInv'
<1>1. \A kind, id : ById(kind, id)' = ById(kind, id)
  BY DEF ById
<1>2. \A kind : \A r \in Table(kind) : ById(kind, r.id) # {}
  BY DEF Table, ById
<1>3. LinksInv'
  BY <1>1, <1>2 DEF IInv, LinksInv
<1>4. KeepLinks
  BY DEF KeepLinks
<1>5. unloaded \subseteq unloaded' /\ unloaded' \subseteq Agents \X Skills
  BY DEF IInv, RowsInv
<1>6. RowsStep
  BY <1>3, <1>4, <1>5, SameRows DEF IInv, TypesInv
<1> QED BY <1>6, StatementOK

LEMMA LinkDropped ==
    ASSUME IInv, UNCHANGED <<rows, born, taken, taskVars, pc, arg>>, links' \subseteq links,
           unloaded \subseteq unloaded', unloaded' \subseteq Agents \X Skills, KeepLinks
    PROVE  IInv'
<1>1. \A kind, id : ById(kind, id)' = ById(kind, id)
  BY DEF ById
<1>2. LinksInv'
  BY <1>1 DEF IInv, LinksInv
<1>3. RowsStep
  BY <1>2, SameRows DEF IInv, TypesInv
<1> QED BY <1>3, StatementOK

\* What a user takes off a seeded agent is on record.
LEMMA UnloadOK ==
    ASSUME IInv, NEW c \in Clients, NEW l \in links, UnloadSkill(c, l)
    PROVE  IInv'
<1> DEFINE pairs == {<<a.name, g.name>> : a \in ById("agent", l[1]), g \in ById("skill", l[2])}
<1>1. /\ links' = links \ {l} /\ unloaded' = unloaded \cup (pairs \cap (Agents \X Skills))
      /\ UNCHANGED <<rows, born, taken, taskVars, pc, arg>>
  BY DEF UnloadSkill
<1>2. RowsInv /\ unloaded \subseteq Agents \X Skills
  BY DEF IInv, RowsInv
<1>3. KeepLinks
  <2> SUFFICES ASSUME NEW a \in rows, NEW g \in rows, a.kind = "agent", a.sys,
                      g.kind = "skill", g.sys, l = <<a.id, g.id>>
               PROVE  <<a.name, g.name>> \in unloaded'
    BY <1>1 DEF KeepLinks
  <2>1. a \in ById("agent", l[1]) /\ g \in ById("skill", l[2])
    BY DEF ById
  <2>2. <<a.name, g.name>> \in Agents \X Skills
    BY <1>2 DEF RowsInv, SeedNames
  <2>3. <<a.name, g.name>> \in pairs
    BY <2>1
  <2> QED BY <1>1, <2>2, <2>3
<1>4. unloaded \subseteq unloaded' /\ unloaded' \subseteq Agents \X Skills /\ links' \subseteq links
  BY <1>1, <1>2
<1> QED BY <1>1, <1>3, <1>4, LinkDropped

\* A link of a conversation is none of a seeded agent and a skill.
LEMMA RemoveOK ==
    ASSUME IInv, NEW c \in Clients, NEW l \in links, ById("agent", l[1]) = {},
           RemoveAgentFromConversation(c, l)
    PROVE  IInv'
<1>1. links' = links \ {l} /\ UNCHANGED <<rows, born, taken, unloaded, taskVars, pc, arg>>
  BY DEF RemoveAgentFromConversation
<1>2. KeepLinks
  BY <1>1 DEF KeepLinks, ById
<1>3. unloaded \subseteq unloaded' /\ unloaded' \subseteq Agents \X Skills
  BY <1>1 DEF IInv, RowsInv
<1> QED BY <1>1, <1>2, <1>3, LinkDropped

\* A row that is saved is of one of the kinds.
LEMMA SaveNamed ==
    ASSUME IInv, NEW c \in Clients, NEW name \in UserNames[arg[c].kind]
    PROVE  name \in AllUserNames
<1>1. arg[c].kind \in Kinds
  BY DEF IInv, TypesInv, RowType, Actors
<1> QED BY <1>1 DEF AllUserNames

LEMMA RequestOK ==
    ASSUME IInv, NEW c \in Clients, Request(c)
    PROVE  IInv'
<1>1. ASSUME NEW kind \in Kinds, NEW name \in UserNames[kind], UserCreate(c, kind, name)
      PROVE  IInv'
  BY <1>1, UserCreateOK
<1>2. ASSUME NEW r \in rows, Get(c, r, "save") \/ Get(c, r, "delete")
      PROVE  IInv'
  BY <1>2, GetOK
<1>3. ASSUME NEW name \in UserNames[arg[c].kind], Save(c, name)
      PROVE  IInv'
  <2>1. RowsStep
    BY <1>3, SaveNamed, SaveOK
  <2>2. Done(c) /\ UNCHANGED taskVars
    BY <1>3 DEF Save
  <2> QED BY <2>1, <2>2, DoneOK
<1>4. CASE Delete(c)
  <2>1. RowsStep
    BY <1>4, DeleteOK
  <2>2. Done(c) /\ UNCHANGED taskVars
    BY <1>4 DEF Delete
  <2> QED BY <2>1, <2>2, DoneOK
<1>5. ASSUME NEW x \in Table("agent"), NEW g \in Table("skill"), LoadSkill(c, x, g)
      PROVE  IInv'
  BY <1>5, LinkAdded DEF LoadSkill
<1>6. ASSUME NEW v \in Table("conversation"), NEW x \in Table("agent"),
             AddAgentToConversation(c, v, x)
      PROVE  IInv'
  BY <1>6, LinkAdded DEF AddAgentToConversation
<1>7. ASSUME NEW l \in links,
             IF ById("agent", l[1]) # {} THEN UnloadSkill(c, l)
             ELSE RemoveAgentFromConversation(c, l)
      PROVE  IInv'
  BY <1>7, UnloadOK, RemoveOK
<1>8. ASSUME NEW title \in Reports, RunReport(c, title)
      PROVE  IInv'
  BY <1>8, RunReportOK
<1>9. CASE Lost(c)
  <2>1. Done(c) /\ UNCHANGED <<dbVars, taskVars>>
    BY <1>9 DEF Lost
  <2>2. RowsStep
    BY <2>1, SameDb
  <2> QED BY <2>1, <2>2, DoneOK
<1> QED BY <1>1, <1>2, <1>3, <1>4, <1>5, <1>6, <1>7, <1>8, <1>9 DEF Request

LEMMA StepOK ==
    ASSUME IInv, [Next]_vars
    PROVE  IInv'
<1>1. ASSUME NEW s \in Servers, Boot(s) \/ Exit(s) \/ Startup(s)
      PROVE  IInv'
  <2>1. CASE Boot(s)
    BY <2>1, BootOK
  <2>2. CASE Exit(s)
    BY <2>2, DownOK DEF Exit
  <2>3. CASE NextSeed(s) \/ NextPhase(s)
    BY <2>3, NextSeedOK, NextPhaseOK
  <2>4. CASE NextSkill(s) \/ LoadoutDone(s) \/ Check(s) \/ Link(s)
    BY <2>4, LoadingOK
  <2>5. CASE Refused(s)
    BY <2>5, DownOK DEF Refused
  <2> QED BY <1>1, <2>1, <2>2, <2>3, <2>4, <2>5 DEF Startup
<1>2. ASSUME NEW a \in Actors, Find(a) \/ Create(a) \/ CreateLost(a) \/ Refind(a)
      PROVE  IInv'
  BY <1>2, FindOK, CreateOK, CreateLostOK, RefindOK
<1>3. ASSUME NEW c \in Clients, Request(c)
      PROVE  IInv'
  BY <1>3, RequestOK
<1>4. CASE UNCHANGED vars
  <2>1. UNCHANGED <<dbVars, taskVars, pc, arg>>
    BY <1>4 DEF vars
  <2>2. RowsStep
    BY <2>1, SameDb
  <2> QED BY <2>1, <2>2, StatementOK
<1> QED BY <1>1, <1>2, <1>3, <1>4 DEF Next

-----------------------------------------------------------------------------
(* The theorems. *)

\* The inductive invariant: whatever processes start, die and serve, and whatever names
\* users give, the tables keep their keys and links, no request holds a seeded row that
\* it will write, and every startup has what it needs for its next statement unless a
\* user has taken a seed's name.
THEOREM CatalogCorrect == Spec => []IInv
<1>1. Init => IInv
  BY InitOK
<1>2. IInv /\ [Next]_vars => IInv'
  BY StepOK
<1> QED BY <1>1, <1>2, PTL DEF Spec

LEMMA IInvTypeOK == IInv => TypeOK
<1> SUFFICES ASSUME IInv PROVE TypeOK
  OBVIOUS
<1> USE DEF IInv, TypesInv
<1>1. /\ born \in 0..MaxRows
      /\ \A r \in rows : r.id \in 1..born
      /\ \A r, q \in rows : r.id = q.id => r = q
  BY DEF RowsInv
<1>2. \A r \in rows : r.kind \in Kinds /\ r.sys \in BOOLEAN
  BY DEF RowType
<1>3. \A r \in rows : r.kind # "conversation" => Cardinality(Named(r.kind, r.name)) = 1
  <2> SUFFICES ASSUME NEW r \in rows, r.kind # "conversation"
               PROVE  Cardinality(Named(r.kind, r.name)) = 1
    OBVIOUS
  <2>1. Named(r.kind, r.name) = {r}
    BY DEF RowsInv, Named
  <2> QED BY <2>1, FS_Singleton
<1>4. \A s \in Servers : todo[s] \subseteq Agents \cup Reports \cup Skills
  OBVIOUS
<1>6. again \subseteq Servers /\ taken \subseteq SeedNames /\ unloaded \subseteq Agents \X Skills
  BY DEF RowsInv
<1>5. agentId \in [Servers -> 0..born]
  BY <1>1, CatalogAssumption DEF PlaceInv
<1> QED BY <1>1, <1>2, <1>3, <1>4, <1>5, <1>6 DEF TypeOK, LinksInv

\* TypeOK: every variable has its type, the names of agents and of skills stay unique
\* and every link joins rows that exist, through renames, the inserts a late Save makes,
\* and cascades.
THEOREM TypeCorrect == Spec => []TypeOK
<1>1. IInv => TypeOK
  BY IInvTypeOK
<1>2. Spec => []IInv
  BY CatalogCorrect
<1> QED BY <1>1, <1>2, PTL

\* StartsSucceed: a process that starts beside others, whatever they and the users do,
\* finds at a later statement that what it had found or lost to another is gone only
\* after a user has taken a seed's name: else only a refused statement ends a startup.
THEOREM StartsSucceedHolds == Spec => []StartsSucceed
<1>1. IInv => StartsSucceed
  BY DEF IInv, PlaceInv, StartsSucceed
<1>2. Spec => []IInv
  BY CatalogCorrect
<1> QED BY <1>1, <1>2, PTL

\* SeedsThere: a process that is up has every agent and skill it seeds, as a system row
\* unless a user has taken the name, and its report conversations; and if it found the
\* skills there when it booted, its agents have their loadouts but for what users took off.
THEOREM SeedsThereHolds == Spec => []SeedsThere
<1>1. IInv => SeedsThere
  <2> SUFFICES ASSUME IInv, NEW s \in Up PROVE
          /\ \A n \in Agents : There("agent", n)
          /\ \A n \in Skills : There("skill", n)
          /\ \A n \in Reports : There("conversation", n)
          /\ s \in again => \A n \in Agents : \A k \in Loadout[n] : Equipped(n, k)
    BY DEF SeedsThere
  <2>1. s \in Servers /\ phase[s] = "up"
    BY DEF Up
  <2> QED BY <2>1 DEF IInv, SeededInv, LoadoutInv
<1>2. Spec => []IInv
  BY CatalogCorrect
<1> QED BY <1>1, <1>2, PTL

\* Every step keeps the seeded rows as they are, but for a Save that comes late.
LEMMA StepKeeps ==
    ASSUME IInv, [Next]_vars
    PROVE  \A r \in rows : r.sys => r \in rows' \/ StaleSave(r)
<1>1. CASE UNCHANGED rows
  BY <1>1
<1>2. CASE rows \subseteq rows'
  BY <1>2
<1>3. ASSUME NEW c \in Clients, NEW name \in UserNames[arg[c].kind], Save(c, name)
      PROVE  \A r \in rows : r.sys => r \in rows' \/ StaleSave(r)
  BY <1>3, SaveNamed, SaveOK
<1>4. ASSUME NEW c \in Clients, Delete(c)
      PROVE  \A r \in rows : r.sys => r \in rows'
  BY <1>4, DeleteOK
<1>5. ASSUME NEW s \in Servers, Boot(s) \/ Exit(s) \/ Startup(s)
      PROVE  UNCHANGED rows
  BY <1>5 DEF Boot, Exit, Startup, NextSeed, NextPhase, NextSkill, LoadoutDone, Check, Link,
              Refused, dbVars
<1>6. ASSUME NEW a \in Actors, Find(a) \/ Create(a) \/ CreateLost(a) \/ Refind(a)
      PROVE  rows \subseteq rows'
  BY <1>6 DEF Find, Create, Insert, CreateLost, Refind, dbVars
<1>7. ASSUME NEW c \in Clients, Request(c)
      PROVE  \/ rows \subseteq rows' \/ Delete(c)
             \/ \E name \in UserNames[arg[c].kind] : Save(c, name)
  <2>1. ASSUME NEW l \in links,
               IF ById("agent", l[1]) # {} THEN UnloadSkill(c, l)
               ELSE RemoveAgentFromConversation(c, l)
        PROVE  UNCHANGED rows
    BY <2>1 DEF UnloadSkill, RemoveAgentFromConversation
  <2>2. ASSUME NEW kind \in Kinds, NEW name \in UserNames[kind], UserCreate(c, kind, name)
        PROVE  rows \subseteq rows'
    BY <2>2 DEF UserCreate, Insert
  <2>3. ASSUME NEW r \in rows, Get(c, r, "save") \/ Get(c, r, "delete")
        PROVE  UNCHANGED rows
    BY <2>3 DEF Get, dbVars
  <2>4. ASSUME NEW x, NEW y, LoadSkill(c, x, y) \/ AddAgentToConversation(c, x, y)
        PROVE  UNCHANGED rows
    BY <2>4 DEF LoadSkill, AddAgentToConversation
  <2>5. ASSUME NEW title, RunReport(c, title) \/ Lost(c)
        PROVE  UNCHANGED rows
    BY <2>5 DEF RunReport, Lost, dbVars
  <2> QED BY <1>7, <2>1, <2>2, <2>3, <2>4, <2>5 DEF Request
<1>8. CASE UNCHANGED vars
  BY <1>8 DEF vars, dbVars
<1> QED BY <1>1, <1>2, <1>3, <1>4, <1>5, <1>6, <1>7, <1>8 DEF Next

\* SystemRowsStay: no interleaving of requests, each of which reads a row in one
\* statement and writes it in another, deletes a row that startup has seeded; and the one
\* that changes it is the Save of a row deleted since it was read.
THEOREM SystemRowsStayHolds == Spec => SystemRowsStay
<1>1. IInv /\ [Next]_vars => [\A r \in rows : r.sys => r \in rows' \/ StaleSave(r)]_vars
  BY StepKeeps
<1>2. Spec => []IInv
  BY CatalogCorrect
<1> QED BY <1>1, <1>2, PTL DEF Spec, SystemRowsStay
=============================================================================
