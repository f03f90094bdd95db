---------------------------- MODULE SandboxProofs ----------------------------
(***************************************************************************)
(* Theorems about Sandbox, for any conversations, id prefixes and callers,  *)
(* with refused requests, containers that die and servers that restart:     *)
(* workspaces are isolated, have one container each, and a container that   *)
(* was not started is not used.                                             *)
(***************************************************************************)
EXTENDS Sandbox, TLAPS

St  == {"created", "running"}

\* The types of a container, one by one.
LEMMA ContainerTyped ==
    ASSUME TypeOK, NEW d \in docker
    PROVE  /\ d.id \in 1..born /\ d.conv \in Convs /\ d.st \in St
           /\ d.name \in {<<Prefix[c]>> : c \in Convs}
           /\ d = [id |-> d.id, conv |-> d.conv, name |-> d.name, st |-> d.st]
BY DEF TypeOK, St

\* A container that is started keeps all but its status.
Restarted(d) == [d EXCEPT !.st = "running"]
LEMMA RestartedFields ==
    ASSUME TypeOK, NEW d \in docker
    PROVE  /\ Restarted(d).id = d.id /\ Restarted(d).conv = d.conv
           /\ Restarted(d).name = d.name /\ Restarted(d).st = "running"
           /\ Restarted(d) \in [id : 1..born, conv : Convs,
                                name : {<<Prefix[c]>> : c \in Convs}, st : St]
BY ContainerTyped DEF Restarted, St

\* The daemon's containers when the one of this id is started.
Started(id) == Without(id) \cup {Restarted(d) : d \in With(id)}

\* What a request may do to containers that exist: it keeps, starts or removes them.
Kept == docker' = docker \/ \E id \in Nat : docker' \in {Without(id), Started(id)}

LEMMA KeptDocker ==
    ASSUME TypeOK, DockerInv, Kept, born' = born
    PROVE  /\ DockerInv'
           /\ docker' \subseteq [id : 1..born, conv : Convs,
                                 name : {<<Prefix[c]>> : c \in Convs}, st : St]
           /\ \A e \in docker' : \E d \in docker :
                 /\ e.id = d.id /\ e.conv = d.conv
                 /\ d.st = "running" => e.st = "running"
<1>1. CASE docker' = docker
  BY <1>1, ContainerTyped DEF DockerInv, TypeOK, St
<1>2. ASSUME NEW id \in Nat, docker' = Without(id)
      PROVE  docker' \subseteq docker
  BY <1>2 DEF Without
<1>3. CASE docker' \subseteq docker
  BY <1>3, ContainerTyped DEF DockerInv, TypeOK, St
<1>4. ASSUME NEW id \in Nat, docker' = Started(id)
      PROVE  /\ DockerInv'
             /\ docker' \subseteq [id : 1..born, conv : Convs,
                                   name : {<<Prefix[c]>> : c \in Convs}, st : St]
             /\ \A e \in docker' : \E d \in docker :
                   /\ e.id = d.id /\ e.conv = d.conv
                   /\ d.st = "running" => e.st = "running"
  <2>1. \A e \in docker' : \E d \in docker :
           \/ e = d /\ d.id # id
           \/ e = Restarted(d) /\ d.id = id
    BY <1>4 DEF Started, With, Without
  <2>2. \A e \in docker' : \E d \in docker :
           /\ e.id = d.id /\ e.conv = d.conv /\ e.name = d.name
           /\ d.st = "running" => e.st = "running"
           /\ e = (IF d.id = id THEN Restarted(d) ELSE d)
    BY <2>1, RestartedFields
  <2>3. docker' \subseteq [id : 1..born, conv : Convs,
                           name : {<<Prefix[c]>> : c \in Convs}, st : St]
    BY <2>1, RestartedFields DEF TypeOK, St
  <2>4. DockerInv'
    BY <2>2 DEF DockerInv
  <2> QED
    BY <2>2, <2>3, <2>4
<1> QED
  BY <1>1, <1>2, <1>3, <1>4 DEF Kept

LEMMA InitIInv == Init => IInv
BY SandboxAssumption DEF Init, IInv, TypeOK, DockerInv, CacheInv, CallInv

\* Where a container comes from: it is new, or it was there and at most got started.
Origin ==
    \A e \in docker' :
        \/ e.id = born + 1
        \/ \E d \in docker : /\ e.id = d.id /\ e.conv = d.conv
                             /\ d.st = "running" => e.st = "running"

\* What the map or a call holds does not go wrong by what the daemon does.
LEMMA CallKept ==
    ASSUME IInv, Origin, NEW q \in Calls,
           pc'[q] = pc[q], conv'[q] = conv[q], box'[q] = box[q], seen'[q] = seen[q]
    PROVE  CallInv(q)'
<1>1. box[q] # born + 1
  BY SandboxAssumption DEF IInv, TypeOK
<1> QED
  BY <1>1 DEF IInv, CallInv, Origin

LEMMA CacheKept ==
    ASSUME IInv, Origin, NEW c \in Convs, cache'[c] = cache[c]
    PROVE  \A d \in docker' : d.id = cache'[c] => d.conv = c /\ d.st = "running"
<1>1. cache[c] # born + 1
  BY SandboxAssumption DEF IInv, TypeOK
<1> QED
  BY <1>1, ContainerTyped DEF IInv, CacheInv, Origin, St

\* Steps that leave the daemon alone, or do to its containers what Kept says.
LEMMA KeptOrigin ==
    ASSUME IInv, Kept, born' = born
    PROVE  Origin
BY KeptDocker DEF IInv, Origin

LEMMA SameDocker ==
    ASSUME IInv, docker' = docker, born' = born
    PROVE  Kept /\ Origin /\ DockerInv'
BY KeptOrigin, KeptDocker DEF Kept, IInv

\* A call that returns holds nothing.
LEMMA ReturnTyped ==
    ASSUME IInv, NEW k \in Calls, Return(k), born' = born
    PROVE  /\ pc' \in [Calls -> {"idle", "lock", "create", "start", "run", "write"}]
           /\ conv' \in [Calls -> Convs \cup {None}]
           /\ box' \in [Calls -> 0..born]
           /\ seen' \in [Calls -> SUBSET Convs]
           /\ pc'[k] = "idle" /\ CallInv(k)'
           /\ \A q \in Calls \ {k} : /\ pc'[q] = pc[q] /\ conv'[q] = conv[q]
                                      /\ box'[q] = box[q] /\ seen'[q] = seen[q]
BY SandboxAssumption DEF IInv, TypeOK, Return, Goto, CallInv

-----------------------------------------------------------------------------
(* Ensure. *)

\* Waiting for the mutex, and entering.
LEMMA EnterIInv ==
    ASSUME IInv, NEW k \in Calls,
           (\E c \in Convs : Begin(k, c)) \/ EnterCached(k) \/ EnterNew(k)
    PROVE  IInv'
<1>1. UNCHANGED <<proc, starts, cache, docker, born, seen, file>>
  BY DEF Begin, EnterCached, EnterNew
<1>2. Origin /\ DockerInv'
  BY <1>1, SameDocker
<1>3. CacheInv'
  BY <1>1, <1>2, CacheKept DEF CacheInv
<1>4. /\ lock' \in Calls \cup {None, Closer}
      /\ lock' = Closer <=> proc' = "closing"
      /\ \A q \in Calls : lock' = q <=> pc'[q] \in {"create", "start"}
  BY SandboxAssumption DEF Begin, EnterCached, EnterNew, IInv, TypeOK, Goto
<1>5. /\ pc' \in [Calls -> {"idle", "lock", "create", "start", "run", "write"}]
      /\ conv' \in [Calls -> Convs \cup {None}]
      /\ box' \in [Calls -> 0..born]
  BY DEF Begin, EnterCached, EnterNew, IInv, TypeOK, Goto, CallInv, Cached
<1>6. TypeOK'
  BY <1>1, <1>4, <1>5 DEF IInv, TypeOK
<1>7. CallInv(k)'
  BY <1>1 DEF Begin, EnterCached, EnterNew, IInv, TypeOK, Goto, CallInv, CacheInv, Cached
<1>8. \A q \in Calls \ {k} : CallInv(q)'
  <2>1. \A q \in Calls \ {k} : /\ pc'[q] = pc[q] /\ conv'[q] = conv[q]
                               /\ box'[q] = box[q] /\ seen'[q] = seen[q]
    BY <1>1 DEF Begin, EnterCached, EnterNew, IInv, TypeOK, Goto
  <2> QED BY <1>2, <2>1, CallKept
<1> QED
  BY <1>1, <1>2, <1>3, <1>6, <1>7, <1>8 DEF IInv

\* The mutex changes hands only from its holder.
LEMMA ReleaseTyped ==
    ASSUME IInv, NEW k \in Calls, pc[k] \in {"create", "start"},
           lock' = None, proc' = proc,
           pc'[k] \notin {"create", "start"},
           \A q \in Calls \ {k} : pc'[q] = pc[q]
    PROVE  /\ lock' \in Calls \cup {None, Closer}
           /\ lock' = Closer <=> proc' = "closing"
           /\ \A q \in Calls : lock' = q <=> pc'[q] \in {"create", "start"}
BY SandboxAssumption DEF IInv, TypeOK

\* ContainerCreate: the new container's id is fresh and its name was free.
LEMMA CreateIInv ==
    ASSUME IInv, NEW k \in Calls, Create(k)
    PROVE  IInv'
<1> DEFINE new == Container(born + 1, conv[k], Name(conv[k]), "created")
<1>1. /\ pc[k] = "create" /\ conv[k] \in Convs /\ ~Taken(conv[k]) /\ born < MaxContainers
      /\ docker' = docker \cup {new} /\ born' = born + 1 /\ born \in Nat
      /\ box' = [box EXCEPT ![k] = born + 1] /\ pc' = [pc EXCEPT ![k] = "start"]
      /\ UNCHANGED <<proc, starts, lock, cache, conv, seen, file>>
  BY SandboxAssumption DEF Create, CacheCreated, Goto, IInv, TypeOK, CallInv
<1>2. /\ new.id = born + 1 /\ new.conv = conv[k] /\ new.name = <<Prefix[conv[k]]>>
      /\ new \in [id : 1..born', conv : Convs, name : {<<Prefix[c]>> : c \in Convs}, st : St]
  BY <1>1 DEF Container, Name, St
<1> HIDE DEF new
<1>3. \A d \in docker : d.id \in 1..born /\ d.id # new.id /\ d.name # new.name
  BY <1>1, <1>2, ContainerTyped DEF IInv, Taken, Name
<1>4. DockerInv'
  BY <1>1, <1>2, <1>3 DEF IInv, DockerInv
<1>5. Origin
  BY <1>1, <1>2 DEF Origin
<1>6. CacheInv'
  BY <1>1, <1>5, CacheKept DEF CacheInv
<1>7. \A q \in Calls \ {k} : CallInv(q)'
  BY <1>1, <1>5, CallKept DEF IInv, TypeOK
<1>8. CallInv(k)'
  BY <1>1, <1>2, <1>3 DEF IInv, TypeOK, CallInv
<1>9. TypeOK'
  <2>1. docker' \subseteq [id : 1..born', conv : Convs,
                           name : {<<Prefix[c]>> : c \in Convs}, st : St]
    BY <1>1, <1>2, ContainerTyped DEF IInv
  <2>2. /\ cache' \in [Convs -> 0..born'] /\ box' \in [Calls -> 0..born']
        /\ born' \in 0..MaxContainers
    BY <1>1, SandboxAssumption DEF IInv, TypeOK
  <2>3. /\ pc' \in [Calls -> {"idle", "lock", "create", "start", "run", "write"}]
        /\ \A q \in Calls : lock' = q <=> pc'[q] \in {"create", "start"}
    BY <1>1 DEF IInv, TypeOK
  <2> QED
    BY <1>1, <2>1, <2>2, <2>3 DEF IInv, TypeOK, St
<1> QED
  BY <1>1, <1>4, <1>6, <1>7, <1>8, <1>9 DEF IInv

\* Ensure gives up; the daemon may have kept, started or removed a container.
LEMMA GiveUpIInv ==
    ASSUME IInv, NEW k \in Calls, CreateFails(k) \/ StartFails(k)
    PROVE  IInv'
<1>1. /\ pc[k] \in {"create", "start"} /\ Return(k) /\ lock' = None
      /\ UNCHANGED <<proc, starts, cache, born, file>>
  BY DEF CreateFails, StartFails, GiveUp, Released
<1>2. Kept
  <2>1. CASE CreateFails(k)
    BY <2>1 DEF CreateFails, Kept
  <2>2. CASE StartFails(k)
    <3>1. box[k] \in Nat
      BY SandboxAssumption DEF IInv, TypeOK
    <3>2. docker' \in {Without(box[k]), docker, Started(box[k])}
      BY <2>2 DEF StartFails, Started, Restarted
    <3> QED BY <3>1, <3>2 DEF Kept
  <2> QED BY <2>1, <2>2
<1>3. Origin
  BY <1>1, <1>2, KeptOrigin
<1>4. /\ DockerInv'
      /\ docker' \subseteq [id : 1..born, conv : Convs,
                            name : {<<Prefix[c]>> : c \in Convs}, st : St]
  BY <1>1, <1>2, KeptDocker DEF IInv
<1>5. CacheInv'
  BY <1>1, <1>3, CacheKept DEF CacheInv
<1>6. \A q \in Calls : CallInv(q)'
  BY <1>1, <1>3, ReturnTyped, CallKept
<1>7. TypeOK'
  BY <1>1, <1>4, ReturnTyped, ReleaseTyped DEF IInv, TypeOK, St
<1> QED
  BY <1>1, <1>4, <1>5, <1>6, <1>7 DEF IInv

\* ContainerStart answers: the container runs, and is cached.
LEMMA StartIInv ==
    ASSUME IInv, NEW k \in Calls, Start(k)
    PROVE  IInv'
<1> DEFINE id == box[k]
           c == conv[k]
<1>1. /\ pc[k] = "start" /\ c \in Convs /\ id \in 0..born /\ id \in Nat
      /\ docker' = Started(id) /\ cache' = [cache EXCEPT ![c] = id]
      /\ lock' = None /\ pc' = [pc EXCEPT ![k] = "run"]
      /\ UNCHANGED <<proc, starts, born, conv, box, seen, file>>
  BY SandboxAssumption
     DEF Start, Started, Restarted, Released, Goto, IInv, TypeOK, CallInv
<1>2. Kept
  BY <1>1 DEF Kept
<1>3. Origin
  BY <1>1, <1>2, KeptOrigin
<1>4. /\ DockerInv'
      /\ docker' \subseteq [id : 1..born, conv : Convs,
                            name : {<<Prefix[x]>> : x \in Convs}, st : St]
  BY <1>1, <1>2, KeptDocker DEF IInv
<1>5. \A e \in docker' : e.id = id => e.conv = c /\ e.st = "running"
  <2>1. \A d \in With(id) : d.conv = c
    BY <1>1 DEF IInv, CallInv, With
  <2>2. \A e \in docker' : e.id = id => \E d \in With(id) : e = Restarted(d)
    BY <1>1 DEF Started, With, Without
  <2> QED BY <2>1, <2>2, RestartedFields DEF With, IInv
<1>6. CacheInv'
  <2>1. \A x \in Convs \ {c} : cache'[x] = cache[x]
    BY <1>1 DEF IInv, TypeOK
  <2>2. cache'[c] = id
    BY <1>1 DEF IInv, TypeOK
  <2> QED BY <1>3, <1>5, <2>1, <2>2, CacheKept DEF CacheInv
<1>7. \A q \in Calls \ {k} : CallInv(q)'
  BY <1>1, <1>3, CallKept DEF IInv, TypeOK
<1>8. CallInv(k)'
  BY <1>1, <1>5 DEF IInv, TypeOK, CallInv
<1>9. TypeOK'
  <2>1. pc'[k] = "run" /\ \A q \in Calls \ {k} : pc'[q] = pc[q]
    BY <1>1 DEF IInv, TypeOK
  <2>2. /\ cache' \in [Convs -> 0..born]
        /\ pc' \in [Calls -> {"idle", "lock", "create", "start", "run", "write"}]
    BY <1>1 DEF IInv, TypeOK
  <2> QED
    BY <1>1, <1>4, <2>1, <2>2, ReleaseTyped DEF IInv, TypeOK, St
<1> QED
  BY <1>1, <1>4, <1>6, <1>7, <1>8, <1>9 DEF IInv

-----------------------------------------------------------------------------
(* The tools. *)

\* A running container a call works in has that call's workspace.
LEMMA MountOwn ==
    ASSUME IInv, NEW k \in Calls, pc[k] \in {"run", "write"}, Running(box[k])
    PROVE  Mount(box[k]) = conv[k] /\ conv[k] \in Convs
<1>1. With(box[k]) # {} /\ \A d \in With(box[k]) : d.conv = conv[k]
  BY DEF IInv, CallInv, Running, With
<1> QED
  BY <1>1 DEF IInv, CallInv, Mount

\* Outside Ensure the mutex and the map stay.
LEMMA ToolIInv ==
    ASSUME IInv, NEW k \in Calls, Exec(k) \/ EditRead(k) \/ Write(k) \/ ToolFails(k)
    PROVE  IInv'
<1>1. /\ UNCHANGED <<proc, starts, lock, cache, docker, born>>
      /\ pc[k] \in {"run", "write"}
  BY DEF Exec, EditRead, Write, ToolFails
<1>2. Origin /\ DockerInv'
  BY <1>1, SameDocker
<1>3. CacheInv'
  BY <1>1, <1>2, CacheKept DEF CacheInv
<1>4. /\ file' \in [Convs -> SUBSET Convs] /\ \A c \in Convs : file'[c] \subseteq {c}
  <2>1. CASE file' = file
    BY <2>1 DEF IInv, TypeOK
  <2>2. CASE Exec(k) /\ file' # file
    <3>1. file' = [file EXCEPT ![conv[k]] = @ \cup {conv[k]}] /\ conv[k] \in Convs
      BY <2>2, MountOwn DEF Exec
    <3> QED BY <3>1 DEF IInv, TypeOK
  <2>3. CASE Write(k)
    <3>1. /\ file' = [file EXCEPT ![conv[k]] = seen[k] \cup {conv[k]}]
          /\ conv[k] \in Convs /\ seen[k] \subseteq {conv[k]}
      BY <2>3, MountOwn DEF Write, IInv, CallInv
    <3> QED BY <3>1 DEF IInv, TypeOK
  <2> QED
    BY <2>1, <2>2, <2>3 DEF EditRead, ToolFails
<1>5. CASE Return(k)
  <2>1. TypeOK'
    BY <1>1, <1>4, <1>5, ReturnTyped DEF IInv, TypeOK
  <2>2. \A q \in Calls : CallInv(q)'
    BY <1>1, <1>2, <1>5, ReturnTyped, CallKept
  <2> QED
    BY <1>2, <1>3, <1>4, <2>1, <2>2 DEF IInv
<1>6. CASE EditRead(k)
  <2>1. /\ seen' = [seen EXCEPT ![k] = file[conv[k]]] /\ conv[k] \in Convs
        /\ pc[k] = "run" /\ pc' = [pc EXCEPT ![k] = "write"] /\ UNCHANGED <<conv, box>>
    BY <1>6, MountOwn DEF EditRead, Goto
  <2>2. TypeOK'
    BY <1>1, <1>4, <2>1 DEF IInv, TypeOK
  <2>3. \A q \in Calls \ {k} : CallInv(q)'
    BY <1>2, <2>1, CallKept DEF IInv, TypeOK
  <2>4. CallInv(k)'
    BY <1>1, <2>1 DEF IInv, TypeOK, CallInv
  <2> QED
    BY <1>2, <1>3, <1>4, <2>2, <2>3, <2>4 DEF IInv
<1> QED
  BY <1>5, <1>6 DEF Exec, Write, ToolFails

-----------------------------------------------------------------------------
(* The daemon on its own, and the server's life. *)

\* Nothing but containers changes.
LEMMA DiesIInv ==
    ASSUME IInv, NEW d \in docker, ContainerDies(d.id)
    PROVE  IInv'
<1>1. /\ docker' = Without(d.id)
      /\ UNCHANGED <<proc, starts, lock, cache, born, pc, conv, box, seen, file>>
  BY DEF ContainerDies, callVars
<1>2. d.id \in Nat
  BY ContainerTyped, SandboxAssumption DEF IInv, TypeOK
<1>3. Kept
  BY <1>1, <1>2 DEF Kept
<1>4. Origin
  BY <1>1, <1>3, KeptOrigin
<1>5. /\ DockerInv'
      /\ docker' \subseteq [id : 1..born, conv : Convs,
                            name : {<<Prefix[c]>> : c \in Convs}, st : St]
  BY <1>1, <1>3, KeptDocker DEF IInv
<1>6. CacheInv' /\ \A q \in Calls : CallInv(q)'
  BY <1>1, <1>4, CacheKept, CallKept DEF CacheInv
<1>7. TypeOK'
  BY <1>1, <1>5 DEF IInv, TypeOK, St
<1> QED
  BY <1>1, <1>5, <1>6, <1>7 DEF IInv

\* Close stops one container and forgets it; no container has the id 0.
LEMMA StopOneIInv ==
    ASSUME IInv, NEW c \in Convs, StopOne(c)
    PROVE  IInv'
<1>1. /\ docker' = Without(cache[c]) \/ docker' = docker
      /\ cache' = [cache EXCEPT ![c] = 0]
      /\ UNCHANGED <<proc, starts, lock, born, pc, conv, box, seen, file>>
  BY DEF StopOne, callVars
<1>2. cache[c] \in Nat /\ cache \in [Convs -> 0..born] /\ born \in Nat
  BY SandboxAssumption DEF IInv, TypeOK
<1>3. Kept
  BY <1>1, <1>2 DEF Kept
<1>4. Origin
  BY <1>1, <1>3, KeptOrigin
<1>5. /\ DockerInv'
      /\ docker' \subseteq [id : 1..born, conv : Convs,
                            name : {<<Prefix[x]>> : x \in Convs}, st : St]
  BY <1>1, <1>3, KeptDocker DEF IInv
<1>6. cache' \in [Convs -> 0..born] /\ cache'[c] = 0
      /\ \A x \in Convs \ {c} : cache'[x] = cache[x]
  BY <1>1, <1>2
<1>7. CacheInv'
  <2>1. \A d \in docker' : d.id # 0
    BY <1>2, <1>5
  <2> QED BY <1>4, <1>6, <2>1, CacheKept DEF CacheInv
<1>8. \A q \in Calls : CallInv(q)'
  BY <1>1, <1>4, CallKept
<1>9. TypeOK'
  BY <1>1, <1>5, <1>6 DEF IInv, TypeOK, St
<1> QED
  BY <1>1, <1>5, <1>7, <1>8, <1>9 DEF IInv

\* Close takes the mutex and gives it back; a server comes up.
LEMMA ServerIInv ==
    ASSUME IInv, CloseBegin \/ CloseEnd \/ Restart
    PROVE  IInv'
<1>1. UNCHANGED <<cache, docker, born, pc, conv, box, seen, file>>
  BY DEF CloseBegin, CloseEnd, Restart, callVars
<1>2. Origin /\ DockerInv'
  BY <1>1, SameDocker
<1>3. CacheInv' /\ \A q \in Calls : CallInv(q)'
  BY <1>1, <1>2, CacheKept, CallKept DEF CacheInv
<1>4. /\ proc' \in {"up", "closing", "closed", "down"} /\ starts' \in 1..MaxStarts
      /\ lock' \in Calls \cup {None, Closer}
      /\ lock' = Closer <=> proc' = "closing"
      /\ \A k \in Calls : lock' = k <=> pc'[k] \in {"create", "start"}
  BY <1>1, SandboxAssumption DEF CloseBegin, CloseEnd, Restart, IInv, TypeOK
<1>5. TypeOK'
  BY <1>1, <1>4 DEF IInv, TypeOK
<1> QED
  BY <1>1, <1>2, <1>3, <1>5 DEF IInv

\* The process is gone with all it held; the daemon and the files stay.
LEMMA ExitIInv ==
    ASSUME IInv, Exit
    PROVE  IInv'
<1>1. docker' = docker /\ born' = born /\ starts' = starts /\ file' = file
  BY DEF Exit
<1>2. DockerInv'
  BY <1>1, SameDocker
<1>3. born \in Nat /\ \A d \in docker : d.id # 0
  BY SandboxAssumption, ContainerTyped DEF IInv, TypeOK
<1>4. CacheInv' /\ \A q \in Calls : CallInv(q)'
  BY <1>1, <1>3 DEF Exit, CacheInv, CallInv
<1>5. TypeOK'
  BY <1>1, <1>3, SandboxAssumption DEF Exit, IInv, TypeOK
<1> QED
  BY <1>1, <1>2, <1>4, <1>5 DEF IInv

LEMMA NextIInv == IInv /\ [Next]_vars => IInv'
<1> SUFFICES ASSUME IInv, [Next]_vars
             PROVE  IInv'
  OBVIOUS
<1>1. CASE \E k \in Calls, c \in Convs : Begin(k, c)
  BY <1>1, EnterIInv
<1>2. CASE \E k \in Calls : \/ Enter(k) \/ Holding(k)
                            \/ Exec(k) \/ EditRead(k) \/ Write(k) \/ ToolFails(k)
  <2>1. PICK k \in Calls : \/ Enter(k) \/ Holding(k)
                           \/ Exec(k) \/ EditRead(k) \/ Write(k) \/ ToolFails(k)
    BY <1>2
  <2>2. CASE Enter(k)
    BY <2>2, EnterIInv DEF Enter
  <2>3. CASE Holding(k)
    BY <2>3, CreateIInv, GiveUpIInv, StartIInv DEF Holding
  <2> QED
    BY <2>1, <2>2, <2>3, ToolIInv
<1>3. CASE \E d \in docker : ContainerDies(d.id)
  BY <1>3, DiesIInv
<1>4. CASE \E c \in Convs : StopOne(c)
  BY <1>4, StopOneIInv
<1>5. CASE CloseBegin \/ CloseEnd \/ Restart
  BY <1>5, ServerIInv
<1>6. CASE Exit
  BY <1>6, ExitIInv
<1>7. CASE UNCHANGED vars
  <2>1. UNCHANGED <<proc, starts, lock, cache, docker, born, pc, conv, box, seen, file>>
    BY <1>7 DEF vars, callVars
  <2>2. DockerInv'
    BY <2>1, SameDocker
  <2>3. Origin
    BY <2>1, SameDocker
  <2>4. CacheInv' /\ \A q \in Calls : CallInv(q)'
    BY <2>1, <2>3, CacheKept, CallKept DEF CacheInv
  <2>5. TypeOK'
    BY <2>1 DEF IInv, TypeOK
  <2> QED BY <2>1, <2>2, <2>4, <2>5 DEF IInv
<1> QED
  BY <1>1, <1>2, <1>3, <1>4, <1>5, <1>6, <1>7 DEF Next, Quiescent

-----------------------------------------------------------------------------
(* Theorems. *)

\* Whatever the map or a call holds is, while it exists, a container of the
\* conversation it is held for, through crashes, restarts and deaths of containers.
THEOREM SandboxCorrect == Spec => []IInv
<1> QED BY InitIInv, NextIInv, PTL DEF Spec

\* The mutex has one holder, and every variable its type.
THEOREM TypeCorrect == Spec => []TypeOK
<1>1. IInv => TypeOK
  BY DEF IInv
<1> QED BY <1>1, SandboxCorrect, PTL

\* ph8: a call works in its own conversation's workspace only.
THEOREM WorkspaceIsolatedHolds == Spec => []WorkspaceIsolated
<1>1. IInv => WorkspaceIsolated
  BY DEF IInv, CallInv, WorkspaceIsolated, With
<1> QED BY <1>1, SandboxCorrect, PTL

\* Container names allow one container per conversation.
THEOREM OneContainerHolds == Spec => []OneContainer
<1>1. IInv => OneContainer
  BY DEF IInv, DockerInv, OneContainer
<1> QED BY <1>1, SandboxCorrect, PTL

\* Ensure caches and returns containers only after they were started.
THEOREM CachedWasStartedHolds == Spec => []CachedWasStarted
<1>1. IInv => CachedWasStarted
  BY DEF IInv, CacheInv, CallInv, CachedWasStarted
<1> QED BY <1>1, SandboxCorrect, PTL
=============================================================================
