--------------------------- MODULE Containers_proofs ---------------------------
(***************************************************************************)
(* Proofs about Containers: its types, the accounting of the host ports,   *)
(* whom a client reaches, and which containers are handed out unfinished.  *)
(***************************************************************************)
EXTENDS Containers, TLAPS

Sound == mishaps \cap {"install", "restart"} = {}

\* A port that is offered is offered by a caller that is about to use it, and
\* only a container that exists maps one.
Uses ==
  /\ \A k \in Callers : offer[k] # 0 <=> pc[k] = "run"
  /\ \A u \in Users : u \notin exists => port[u] = 0

\* A port that the manager has on record for a user is nobody else's.
OnRecord(u, p) ==
  p # 0 => p \notin available /\ (\A k \in Callers : offer[k] # p) /\ (\A v \in Users : port[v] = p => v = u)
Records ==
  "restart" \notin mishaps => \A u \in Users : OnRecord(u, tracked[u]) /\ OnRecord(u, server[u])

\* As long as nothing failed a user's container has the port that is tracked,
\* and callers who remove one or install in it hold the one they think.
Held ==
  /\ \A k \in Callers : pc[k] # "idle" => handle[k] <= number[user[k]]
  /\ Sound =>
       /\ \A u \in Users : tracked[u] = port[u]
       /\ \A k \in Callers : pc[k] = "remove" /\ Holds(k) => tracked[user[k]] = 0
       /\ \A k \in Callers : pc[k] = "install" => Holds(k) /\ tracked[user[k]] # 0

IInv == TypeOK /\ Uses /\ PortHasOneUse /\ NoPortLost /\ Records /\ Held /\ HalfSetUpHasCause

-----------------------------------------------------------------------------
\* A caller that has raised or returned is idle and holds nothing.
LEMMA RaiseType == ASSUME CallerTypeOK, NEW k \in Callers, Raise(k) PROVE CallerTypeOK'
<1>1. CallerStages' = CallerStages /\ "idle" \in CallerStages
  BY DEF CallerStages
<1>2. 0 \in PortOrNone
  BY DEF PortOrNone
<1>3. pc' \in [Callers -> CallerStages] /\ user' \in [Callers -> Users \cup {NoUser}]
  BY <1>1 DEF CallerTypeOK, Raise, Goto
<1>4. handle' \in [Callers -> Nat] /\ offer' \in [Callers -> PortOrNone]
  BY <1>2 DEF CallerTypeOK, Raise
<1>5. \A l \in Callers : pc'[l] # "idle" => user'[l] \in Users
  BY DEF CallerTypeOK, Raise, Goto
<1> QED
  BY <1>3, <1>4, <1>5 DEF CallerTypeOK

LEMMA GotoType ==
  ASSUME CallerTypeOK, NEW k \in Callers, pc[k] # "idle", NEW stage \in CallerStages, Goto(k, stage),
         UNCHANGED <<user, handle, offer>>
  PROVE  CallerTypeOK'
BY DEF CallerTypeOK, Goto

LEMMA CallerTypeStep == TypeOK /\ [Next]_vars => CallerTypeOK'
<1> SUFFICES ASSUME TypeOK, [Next]_vars PROVE CallerTypeOK'
  OBVIOUS
<1>1. CallerTypeOK
  BY DEF TypeOK
<1>2. UNCHANGED callerVars => CallerTypeOK'
  BY <1>1 DEF CallerTypeOK, callerVars
<1>3. {"track", "remove", "allocate", "run", "start", "install", "idle"} \subseteq CallerStages
  BY DEF CallerStages
<1>4. ASSUME NEW k \in Callers, Call(k) PROVE CallerTypeOK'
  <2>1. CASE StartRaises(k) \/ Gone(k) \/ RunRefused(k) \/ InstallRaises(k)
    BY <1>1, <2>1, RaiseType DEF StartRaises, Gone, RunRefused, InstallRaises, InstallFails
  <2>2. CASE Tracked(k) \/ RecoverPort(k) \/ Install(k)
    BY <1>1, <2>2, RaiseType DEF Tracked, RecoverPort, Install, Return
  <2>3. CASE StartContainer(k) \/ StopOld(k) \/ Remove(k)
    BY <1>1, <1>3, <2>3, GotoType DEF StartContainer, StopOld, Remove
  <2>4. CASE Allocate(k)
    <3>1. CASE available = {}
      BY <1>1, <2>4, <3>1, RaiseType DEF Allocate, AllocateFrom
    <3>2. CASE available # {}
      <4>1. PICK p \in available : offer' = [offer EXCEPT ![k] = p] /\ Goto(k, "run") /\ UNCHANGED <<user, handle>>
        BY <2>4, <3>2 DEF Allocate, AllocateFrom
      <4>2. p \in PortOrNone
        BY DEF TypeOK, PoolTypeOK, PortOrNone
      <4>3. pc[k] # "idle"
        BY <2>4 DEF Allocate, AllocateFrom
      <4> QED
        BY <1>1, <1>3, <4>1, <4>2, <4>3 DEF CallerTypeOK, Goto
    <3> QED
      BY <3>1, <3>2
  <2>5. CASE RunContainer(k)
    <3>1. CASE Raise(k)
      BY <1>1, <3>1, RaiseType
    <3>2. CASE ~ Raise(k)
      <4>1. /\ Goto(k, "install") /\ UNCHANGED user /\ pc[k] # "idle"
            /\ handle' = [handle EXCEPT ![k] = number'[user[k]]] /\ offer' = [offer EXCEPT ![k] = 0]
            /\ number' = [number EXCEPT ![user[k]] = @ + 1]
        BY <2>5, <3>2 DEF RunContainer, RunTo
      <4>2. number'[user[k]] \in Nat
        BY <1>1, <4>1 DEF CallerTypeOK, TypeOK, DockerTypeOK
      <4>3. handle' \in [Callers -> Nat] /\ offer' \in [Callers -> PortOrNone]
        BY <1>1, <4>1, <4>2 DEF CallerTypeOK, PortOrNone
      <4> QED
        BY <1>1, <1>3, <4>1, <4>3 DEF CallerTypeOK, Goto
    <3> QED
      BY <3>1, <3>2
  <2> QED
    BY <1>4, <2>1, <2>2, <2>3, <2>4, <2>5 DEF Call
<1>5. ASSUME NEW k \in Callers, NEW u \in Users, Lookup(k, u) PROVE CallerTypeOK'
  <2>1. number[u] \in Nat
    BY DEF TypeOK, DockerTypeOK
  <2>2. PICK stage \in {"allocate", "track", "start"} : Goto(k, stage)
    BY <1>5 DEF Lookup
  <2>3. user' = [user EXCEPT ![k] = u] /\ handle' = [handle EXCEPT ![k] = number[u]] /\ UNCHANGED offer
    BY <1>5 DEF Lookup
  <2> QED
    BY <1>1, <1>3, <2>1, <2>2, <2>3 DEF CallerTypeOK, Goto
<1>6. ASSUME NEW u \in Users, StartStep(u) \/ ContainerStops(u) PROVE CallerTypeOK'
  BY <1>2, <1>6 DEF StartStep, TakeLock, StillHealthy, ServerDied, Launch, LaunchRaises, Registered,
                    ProbeRaises, StartGoto, ContainerStops
<1>7. CASE Restart
  BY <1>3, <1>7 DEF Restart, CallerTypeOK, PortOrNone
<1>8. CASE UNCHANGED vars
  BY <1>2, <1>8 DEF vars
<1> QED
  BY <1>4, <1>5, <1>6, <1>7, <1>8 DEF Next

\* What Docker has, and where processes serve.
LEMMA DockerTypeStep == TypeOK /\ [Next]_vars => DockerTypeOK' /\ serving' \in SUBSET up'
<1> SUFFICES ASSUME TypeOK, [Next]_vars PROVE DockerTypeOK' /\ serving' \in SUBSET up'
  OBVIOUS
<1>1. DockerTypeOK /\ serving \in SUBSET up
  BY DEF TypeOK, ServerTypeOK
<1>2. UNCHANGED <<dockerVars, serving>> => DockerTypeOK' /\ serving' \in SUBSET up'
  BY <1>1 DEF DockerTypeOK, dockerVars
<1>3. ASSUME NEW k \in Callers, Call(k) PROVE DockerTypeOK' /\ serving' \in SUBSET up'
  <2>1. CASE StartRaises(k) \/ Gone(k) \/ RunRefused(k) \/ InstallRaises(k)
    BY <1>2, <2>1 DEF StartRaises, Gone, RunRefused, InstallRaises, InstallFails, serverVars
  <2>2. CASE Tracked(k) \/ RecoverPort(k)
    BY <1>2, <2>2 DEF Tracked, RecoverPort
  <2>3. CASE Allocate(k)
    BY <1>2, <2>3 DEF Allocate, AllocateFrom, serverVars
  <2>4. CASE StartContainer(k)
    BY <1>1, <2>4 DEF StartContainer, Holds, DockerTypeOK, serverVars
  <2>5. CASE StopOld(k)
    BY <1>1, <2>5 DEF StopOld, DockerTypeOK
  <2>6. CASE Remove(k)
    BY <1>1, <2>6 DEF Remove, DockerTypeOK, PortOrNone, serverVars
  <2>7. CASE Install(k)
    BY <1>1, <2>7 DEF Install, Holds, DockerTypeOK
  <2>8. CASE RunContainer(k)
    <3>1. user[k] \in Users /\ offer[k] \in PortOrNone
      BY <2>8 DEF RunContainer, RunTo, TypeOK, CallerTypeOK
    <3>2. /\ exists' = exists \cup {user[k]} /\ number' = [number EXCEPT ![user[k]] = @ + 1]
          /\ port' = [port EXCEPT ![user[k]] = offer[k]]
          /\ up' \in {up, up \cup {user[k]}} /\ UNCHANGED <<ready, serving>>
      BY <2>8 DEF RunContainer, RunTo, serverVars
    <3> QED
      BY <1>1, <3>1, <3>2 DEF DockerTypeOK
  <2> QED
    BY <1>3, <2>1, <2>2, <2>3, <2>4, <2>5, <2>6, <2>7, <2>8 DEF Call
<1>4. ASSUME NEW k \in Callers, NEW u \in Users, Lookup(k, u) PROVE DockerTypeOK' /\ serving' \in SUBSET up'
  BY <1>2, <1>4 DEF Lookup, serverVars
<1>5. ASSUME NEW u \in Users, StartStep(u) PROVE DockerTypeOK' /\ serving' \in SUBSET up'
  <2>1. UNCHANGED dockerVars
    BY <1>5 DEF StartStep, TakeLock, StillHealthy, ServerDied, Launch, LaunchRaises, Registered, ProbeRaises, StartGoto
  <2>2. UNCHANGED serving \/ (u \in up /\ serving' = serving \cup {u})
    BY <1>5 DEF StartStep, TakeLock, StillHealthy, ServerDied, Launch, LaunchRaises, Registered, ProbeRaises
  <2> QED
    BY <1>1, <2>1, <2>2 DEF DockerTypeOK, dockerVars
<1>6. ASSUME NEW u \in Users, ContainerStops(u) PROVE DockerTypeOK' /\ serving' \in SUBSET up'
  BY <1>1, <1>6 DEF ContainerStops, DockerTypeOK
<1>7. CASE Restart
  BY <1>2, <1>7 DEF Restart
<1>8. CASE UNCHANGED vars
  BY <1>2, <1>8 DEF vars, serverVars
<1> QED
  BY <1>3, <1>4, <1>5, <1>6, <1>7, <1>8 DEF Next

\* What the manager knows.
LEMMA PoolTypeStep == TypeOK /\ [Next]_vars => PoolTypeOK'
<1> SUFFICES ASSUME TypeOK, [Next]_vars PROVE PoolTypeOK'
  OBVIOUS
<1>1. PoolTypeOK
  BY DEF TypeOK
<1>2. UNCHANGED poolVars => PoolTypeOK'
  BY <1>1 DEF PoolTypeOK, poolVars
<1>3. ASSUME NEW k \in Callers, Call(k) PROVE PoolTypeOK'
  <2>1. CASE StartRaises(k) \/ Gone(k) \/ RunRefused(k) \/ InstallRaises(k) \/ Install(k)
    BY <1>2, <2>1 DEF StartRaises, Gone, RunRefused, InstallRaises, Install
  <2>2. CASE Tracked(k) \/ StartContainer(k) \/ StopOld(k) \/ Remove(k)
    BY <1>2, <2>2 DEF Tracked, StartContainer, StopOld, Remove
  <2>3. CASE RecoverPort(k)
    BY <1>1, <2>3 DEF RecoverPort, PoolTypeOK, TypeOK, DockerTypeOK
  <2>4. CASE Allocate(k)
    <3>1. available' \subseteq available /\ UNCHANGED tracked
      BY <2>4 DEF Allocate, AllocateFrom
    <3> QED
      BY <1>1, <3>1 DEF PoolTypeOK
  <2>5. CASE RunContainer(k)
    <3>1. offer[k] \in PortOrNone /\ 0 \in PortOrNone
      BY DEF TypeOK, CallerTypeOK, PortOrNone
    <3>2. UNCHANGED available /\ \/ tracked' = [tracked EXCEPT ![user[k]] = offer[k]]
                                 \/ tracked' = [tracked EXCEPT ![user[k]] = 0]
      BY <2>5 DEF RunContainer, RunTo
    <3> QED
      BY <1>1, <3>1, <3>2 DEF PoolTypeOK
  <2> QED
    BY <1>3, <2>1, <2>2, <2>3, <2>4, <2>5 DEF Call
<1>4. ASSUME NEW k \in Callers, NEW u \in Users, Lookup(k, u) PROVE PoolTypeOK'
  BY <1>2, <1>4 DEF Lookup
<1>5. ASSUME NEW u \in Users, StartStep(u) \/ ContainerStops(u) PROVE PoolTypeOK'
  BY <1>2, <1>5 DEF StartStep, TakeLock, StillHealthy, ServerDied, Launch, LaunchRaises, Registered,
                    ProbeRaises, StartGoto, ContainerStops
<1>6. CASE Restart
  BY <1>6 DEF Restart, PoolTypeOK, PortOrNone
<1>7. CASE UNCHANGED vars
  BY <1>2, <1>7 DEF vars
<1> QED
  BY <1>3, <1>4, <1>5, <1>6, <1>7 DEF Next

LEMMA ServerTypeStep == TypeOK /\ [Next]_vars => ServerTypeOK'
<1> SUFFICES ASSUME TypeOK, [Next]_vars PROVE ServerTypeOK'
  OBVIOUS
<1> DEFINE Stages == {"off", "lock", "health", "launch", "probe"}
           Mishaps == {"removed", "install", "refused", "restart"}
<1>1. start \in [Users -> Stages] /\ server \in [Users -> PortOrNone] /\ mishaps \in SUBSET Mishaps
  BY DEF TypeOK, ServerTypeOK
<1>2. serving' \in SUBSET up'
  BY DockerTypeStep
<1>3. ASSUME start' \in [Users -> Stages], server' \in [Users -> PortOrNone], mishaps' \in SUBSET Mishaps
      PROVE  ServerTypeOK'
  BY <1>2, <1>3 DEF ServerTypeOK
<1>4. ASSUME NEW k \in Callers, Call(k) PROVE ServerTypeOK'
  <2>1. start' \in [Users -> Stages]
    <3>1. ASSUME Return(k) PROVE start' \in [Users -> Stages]
      BY <1>1, <3>1 DEF Return
    <3>2. CASE Tracked(k) \/ RecoverPort(k) \/ Install(k)
      BY <3>1, <3>2 DEF Tracked, RecoverPort, Install
    <3>3. CASE StartContainer(k) \/ StartRaises(k) \/ StopOld(k) \/ Remove(k) \/ Gone(k) \/ Allocate(k)
               \/ RunContainer(k) \/ RunRefused(k) \/ InstallRaises(k)
      BY <1>1, <3>3 DEF StartContainer, StartRaises, StopOld, Remove, Gone, Allocate, AllocateFrom,
         RunContainer, RunTo, RunRefused, InstallRaises, InstallFails, serverVars
    <3> QED
      BY <1>4, <3>2, <3>3 DEF Call
  <2>2. UNCHANGED server
    BY <1>4 DEF Call, StartContainer, StartRaises, StopOld, Remove, Gone, Allocate, AllocateFrom, Tracked,
       RecoverPort, Install, RunContainer, RunTo, RunRefused, InstallRaises, InstallFails, serverVars
  <2>3. mishaps' \in {mishaps, mishaps \cup {"removed"}, mishaps \cup {"install"}, mishaps \cup {"refused"}}
    BY <1>4 DEF Call, StartContainer, StartRaises, StopOld, Remove, Gone, Allocate, AllocateFrom, Tracked,
       RecoverPort, Install, RunContainer, RunTo, RunRefused, InstallRaises, InstallFails
  <2> QED
    BY <1>1, <1>3, <2>1, <2>2, <2>3
<1>5. ASSUME NEW k \in Callers, NEW u \in Users, Lookup(k, u) PROVE ServerTypeOK'
  BY <1>1, <1>3, <1>5 DEF Lookup, serverVars
<1>6. ASSUME NEW u \in Users, StartStep(u) PROVE ServerTypeOK'
  <2>1. PICK stage \in Stages : start' = [start EXCEPT ![u] = stage] /\ UNCHANGED mishaps
    BY <1>6 DEF StartStep, TakeLock, StillHealthy, ServerDied, Launch, LaunchRaises, Registered, ProbeRaises, StartGoto
  <2>2. server' \in {server, [server EXCEPT ![u] = 0], [server EXCEPT ![u] = tracked[u]]}
    BY <1>6 DEF StartStep, TakeLock, StillHealthy, ServerDied, Launch, LaunchRaises, Registered, ProbeRaises
  <2>3. tracked[u] \in PortOrNone /\ 0 \in PortOrNone
    BY DEF TypeOK, PoolTypeOK, PortOrNone
  <2> QED
    BY <1>1, <1>3, <2>1, <2>2, <2>3
<1>7. ASSUME NEW u \in Users, ContainerStops(u) PROVE ServerTypeOK'
  BY <1>1, <1>3, <1>7 DEF ContainerStops
<1>8. CASE Restart
  BY <1>1, <1>3, <1>8 DEF Restart, PortOrNone
<1>9. CASE UNCHANGED vars
  BY <1>1, <1>3, <1>9 DEF vars, serverVars
<1> QED
  BY <1>4, <1>5, <1>6, <1>7, <1>8, <1>9 DEF Next

LEMMA TypeStep == TypeOK /\ [Next]_vars => TypeOK'
BY CallerTypeStep, DockerTypeStep, PoolTypeStep, ServerTypeStep DEF TypeOK

-----------------------------------------------------------------------------
(* What a step can do to the ports: nothing, or one of these. *)

OfferStays == \A k \in Callers : offer'[k] = offer[k]
PortStays == \A u \in Users : port'[u] = port[u]
OfferBecomes(k, p) == \A l \in Callers : offer'[l] = IF l = k THEN p ELSE offer[l]
PortBecomes(u, p) == \A v \in Users : port'[v] = IF v = u THEN p ELSE port[v]

Allocates(k, p) ==
  /\ p \in available /\ offer[k] = 0
  /\ available' = available \ {p} /\ OfferBecomes(k, p) /\ PortStays
Maps(k, u) ==
  /\ offer[k] # 0 /\ port[u] = 0
  /\ UNCHANGED available /\ OfferBecomes(k, 0) /\ PortBecomes(u, offer[k])
Loses(k) ==
  /\ offer[k] # 0 /\ "refused" \in mishaps'
  /\ UNCHANGED available /\ OfferBecomes(k, 0) /\ PortStays
Unmaps(u) ==
  /\ port[u] # 0 => "removed" \in mishaps'
  /\ UNCHANGED available /\ OfferStays /\ PortBecomes(u, 0)
PortStep ==
  \/ UNCHANGED available /\ OfferStays /\ PortStays
  \/ \E k \in Callers : (\E p \in available : Allocates(k, p)) \/ Loses(k)
  \/ \E k \in Callers, u \in Users : Maps(k, u)
  \/ \E u \in Users : Unmaps(u)

LEMMA Offering == ASSUME TypeOK, NEW k \in Callers, NEW p, offer' = [offer EXCEPT ![k] = p] PROVE OfferBecomes(k, p)
BY DEF TypeOK, CallerTypeOK, OfferBecomes
LEMMA Mapping == ASSUME TypeOK, NEW u \in Users, NEW p, port' = [port EXCEPT ![u] = p] PROVE PortBecomes(u, p)
BY DEF TypeOK, DockerTypeOK, PortBecomes

LEMMA PortSteps == TypeOK /\ Uses /\ [Next]_vars /\ ~ Restart => PortStep
<1> SUFFICES ASSUME TypeOK, Uses, [Next]_vars, ~ Restart PROVE PortStep
  OBVIOUS
<1>1. UNCHANGED <<offer, available, port>> => PortStep
  BY DEF PortStep, OfferStays, PortStays
<1>2. ASSUME NEW k \in Callers, Raise(k), offer[k] = 0, UNCHANGED <<available, port>> PROVE PortStep
  <2>1. OfferBecomes(k, 0)
    BY <1>2, Offering DEF Raise
  <2> QED
    BY <1>2, <2>1 DEF PortStep, OfferStays, OfferBecomes, PortStays
<1>3. ASSUME NEW k \in Callers, Call(k) PROVE PortStep
  <2>1. CASE StartRaises(k) \/ Gone(k) \/ InstallRaises(k)
    BY <1>2, <2>1 DEF StartRaises, Gone, InstallRaises, InstallFails, Uses, dockerVars, poolVars
  <2>2. CASE Tracked(k) \/ RecoverPort(k) \/ Install(k)
    BY <1>2, <2>2 DEF Tracked, RecoverPort, Install, Return, Uses, dockerVars, poolVars
  <2>3. CASE StartContainer(k) \/ StopOld(k)
    BY <1>1, <2>3 DEF StartContainer, StopOld, poolVars
  <2>4. CASE Remove(k)
    <3>1. user[k] \in Users
      BY <2>4 DEF Remove, TypeOK, CallerTypeOK
    <3>2. PortBecomes(user[k], 0)
      BY <2>4, <3>1, Mapping DEF Remove
    <3>3. Unmaps(user[k])
      BY <2>4, <3>2 DEF Remove, Unmaps, OfferStays, poolVars
    <3> QED
      BY <3>1, <3>3 DEF PortStep
  <2>5. CASE Allocate(k)
    <3>1. offer[k] = 0
      BY <2>5 DEF Allocate, AllocateFrom, Uses
    <3>2. CASE available = {}
      BY <1>2, <2>5, <3>1, <3>2 DEF Allocate, AllocateFrom, dockerVars
    <3>3. CASE available # {}
      <4>1. PICK p \in available : offer' = [offer EXCEPT ![k] = p] /\ available' = available \ {p}
        BY <2>5, <3>3 DEF Allocate, AllocateFrom
      <4>2. OfferBecomes(k, p)
        BY <4>1, Offering
      <4>3. PortStays
        BY <2>5 DEF Allocate, AllocateFrom, dockerVars, PortStays
      <4> QED
        BY <3>1, <4>1, <4>2, <4>3 DEF PortStep, Allocates
    <3> QED
      BY <3>2, <3>3
  <2>6. CASE RunContainer(k)
    <3>1. user[k] \in Users /\ offer[k] # 0 /\ user[k] \notin exists
      BY <2>6 DEF RunContainer, RunTo, TypeOK, CallerTypeOK, Uses
    <3>2. offer' = [offer EXCEPT ![k] = 0] /\ port' = [port EXCEPT ![user[k]] = offer[k]] /\ UNCHANGED available
      BY <2>6 DEF RunContainer, RunTo, Raise
    <3>3. OfferBecomes(k, 0) /\ PortBecomes(user[k], offer[k])
      BY <3>1, <3>2, Offering, Mapping
    <3>4. Maps(k, user[k])
      BY <3>1, <3>2, <3>3 DEF Maps, Uses
    <3> QED
      BY <3>1, <3>4 DEF PortStep
  <2>7. CASE RunRefused(k)
    <3>1. offer[k] # 0 /\ "refused" \in mishaps' /\ UNCHANGED <<available, port>>
      BY <2>7 DEF RunRefused, Uses, dockerVars, poolVars
    <3>2. OfferBecomes(k, 0)
      BY <2>7, Offering DEF RunRefused, Raise
    <3> QED
      BY <3>1, <3>2 DEF PortStep, Loses, PortStays
  <2> QED
    BY <1>3, <2>1, <2>2, <2>3, <2>4, <2>5, <2>6, <2>7 DEF Call
<1>4. ASSUME NEW k \in Callers, NEW u \in Users, Lookup(k, u) PROVE PortStep
  BY <1>1, <1>4 DEF Lookup, dockerVars, poolVars
<1>5. ASSUME NEW u \in Users, StartStep(u) \/ ContainerStops(u) PROVE PortStep
  BY <1>1, <1>5 DEF StartStep, TakeLock, StillHealthy, ServerDied, Launch, LaunchRaises, Registered,
                    ProbeRaises, StartGoto, ContainerStops, callerVars, dockerVars, poolVars
<1>6. CASE UNCHANGED vars
  BY <1>1, <1>6 DEF vars, callerVars, dockerVars, poolVars
<1> QED
  BY <1>3, <1>4, <1>5, <1>6 DEF Next

LEMMA MishapsStay == [Next]_vars => mishaps \subseteq mishaps'
<1> SUFFICES ASSUME [Next]_vars PROVE mishaps \subseteq mishaps'
  OBVIOUS
<1>1. ASSUME NEW k \in Callers, Call(k) PROVE mishaps \subseteq mishaps'
  BY <1>1 DEF Call, StartContainer, StartRaises, StopOld, Remove, Gone, Allocate, AllocateFrom, Tracked,
     RecoverPort, Install, RunContainer, RunTo, RunRefused, InstallRaises, InstallFails
<1>2. ASSUME NEW k \in Callers, NEW u \in Users, Lookup(k, u) PROVE mishaps \subseteq mishaps'
  BY <1>2 DEF Lookup
<1>3. ASSUME NEW u \in Users, StartStep(u) \/ ContainerStops(u) PROVE mishaps \subseteq mishaps'
  BY <1>3 DEF StartStep, TakeLock, StillHealthy, ServerDied, Launch, LaunchRaises, Registered,
              ProbeRaises, StartGoto, ContainerStops
<1> QED
  BY <1>1, <1>2, <1>3 DEF Next, Restart, vars

LEMMA RestartIsKnown == TypeOK /\ Restart => "restart" \in mishaps'
BY DEF Restart

\* A caller that is not about to run a container offers no port.
LEMMA UsesStep == TypeOK /\ Uses /\ [Next]_vars => Uses'
<1> SUFFICES ASSUME TypeOK, Uses, [Next]_vars PROVE Uses'
  OBVIOUS
<1>1. UNCHANGED <<callerVars, port>> /\ exists \subseteq exists' => Uses'
  BY DEF Uses, callerVars
<1>2. ASSUME NEW k \in Callers, Raise(k) \/ Return(k), UNCHANGED port, exists \subseteq exists' PROVE Uses'
  BY <1>2 DEF Uses, Raise, Return, Goto, TypeOK, CallerTypeOK
<1>3. ASSUME NEW k \in Callers, Call(k) PROVE Uses'
  <2>1. CASE StartRaises(k) \/ Gone(k) \/ RunRefused(k) \/ InstallRaises(k)
    BY <1>2, <2>1 DEF StartRaises, Gone, RunRefused, InstallRaises, InstallFails, dockerVars
  <2>2. CASE Tracked(k) \/ RecoverPort(k) \/ Install(k)
    BY <1>2, <2>2 DEF Tracked, RecoverPort, Install, dockerVars
  <2>3. CASE StartContainer(k) \/ StopOld(k)
    BY <2>3 DEF StartContainer, StopOld, Goto, Uses, TypeOK, CallerTypeOK
  <2>4. CASE Remove(k)
    BY <2>4 DEF Remove, Goto, Uses, TypeOK, CallerTypeOK, DockerTypeOK
  <2>5. CASE Allocate(k)
    <3>1. CASE available = {}
      BY <1>2, <2>5, <3>1 DEF Allocate, AllocateFrom, dockerVars
    <3>2. CASE available # {}
      <4>1. PICK p \in available : offer' = [offer EXCEPT ![k] = p] /\ Goto(k, "run")
        BY <2>5, <3>2 DEF Allocate, AllocateFrom
      <4>2. p # 0
        BY PortsAssumption DEF TypeOK, PoolTypeOK
      <4> QED
        BY <2>5, <4>1, <4>2 DEF Allocate, AllocateFrom, Goto, Uses, TypeOK, CallerTypeOK, dockerVars
    <3> QED
      BY <3>1, <3>2
  <2>6. CASE RunContainer(k)
    <3>1. /\ offer' = [offer EXCEPT ![k] = 0] /\ (Goto(k, "install") \/ Goto(k, "idle"))
          /\ port' = [port EXCEPT ![user[k]] = offer[k]] /\ exists' = exists \cup {user[k]}
      BY <2>6 DEF RunContainer, RunTo, Raise
    <3>2. \A l \in Callers : offer'[l] # 0 <=> pc'[l] = "run"
      BY <3>1 DEF Uses, Goto, TypeOK, CallerTypeOK
    <3>3. \A u \in Users : u \notin exists' => port'[u] = 0
      BY <3>1 DEF Uses, TypeOK, DockerTypeOK
    <3> QED
      BY <3>2, <3>3 DEF Uses
  <2> QED
    BY <1>3, <2>1, <2>2, <2>3, <2>4, <2>5, <2>6 DEF Call
<1>4. ASSUME NEW k \in Callers, NEW u \in Users, Lookup(k, u) PROVE Uses'
  BY <1>4 DEF Lookup, Goto, Uses, TypeOK, CallerTypeOK, dockerVars
<1>5. ASSUME NEW u \in Users, StartStep(u) \/ ContainerStops(u) PROVE Uses'
  BY <1>1, <1>5 DEF StartStep, TakeLock, StillHealthy, ServerDied, Launch, LaunchRaises, Registered,
                    ProbeRaises, StartGoto, ContainerStops, dockerVars
<1>6. CASE Restart
  BY <1>6 DEF Restart, Uses, dockerVars
<1>7. CASE UNCHANGED vars
  BY <1>1, <1>7 DEF vars, dockerVars
<1> QED
  BY <1>3, <1>4, <1>5, <1>6, <1>7 DEF Next

-----------------------------------------------------------------------------
\* PortHasOneUse, without the sets.
OneUse ==
  /\ \A u \in Users : port[u] # 0 => port[u] \notin available /\ \A k \in Callers : offer[k] # port[u]
  /\ \A k \in Callers : offer[k] # 0 => offer[k] \notin available
  /\ \A u, v \in Users : port[u] = port[v] /\ port[u] # 0 => u = v
  /\ \A k, l \in Callers : offer[k] = offer[l] /\ offer[k] # 0 => k = l

LEMMA OneUseIs == TypeOK /\ PortHasOneUse /\ "restart" \notin mishaps => OneUse
<1> SUFFICES ASSUME TypeOK, PortHasOneUse, "restart" \notin mishaps PROVE OneUse
  OBVIOUS
<1>1. 0 \notin available
  BY PortsAssumption DEF TypeOK, PoolTypeOK
<1> QED
  BY <1>1 DEF PortHasOneUse, OneUse, Mapped, Offered

LEMMA OneUseStep == TypeOK /\ OneUse /\ PortStep => OneUse'
<1> SUFFICES ASSUME TypeOK, OneUse, PortStep PROVE OneUse'
  OBVIOUS
<1>0. 0 \notin available
  BY PortsAssumption DEF TypeOK, PoolTypeOK
<1>1. CASE UNCHANGED available /\ OfferStays /\ PortStays
  BY <1>1 DEF OneUse, OfferStays, PortStays
<1>2. ASSUME NEW k \in Callers, NEW p \in available, Allocates(k, p) PROVE OneUse'
  BY <1>0, <1>2 DEF OneUse, Allocates, OfferBecomes, PortStays
<1>3. ASSUME NEW k \in Callers, Loses(k) PROVE OneUse'
  BY <1>3 DEF OneUse, Loses, OfferBecomes, PortStays
<1>4. ASSUME NEW k \in Callers, NEW u \in Users, Maps(k, u) PROVE OneUse'
  BY <1>4 DEF OneUse, Maps, OfferBecomes, PortBecomes
<1>5. ASSUME NEW u \in Users, Unmaps(u) PROVE OneUse'
  BY <1>5 DEF OneUse, Unmaps, OfferStays, PortBecomes
<1> QED
  BY <1>1, <1>2, <1>3, <1>4, <1>5 DEF PortStep

LEMMA PortHasOneUseStep == TypeOK /\ Uses /\ PortHasOneUse /\ [Next]_vars => PortHasOneUse'
<1> SUFFICES ASSUME TypeOK, Uses, PortHasOneUse, [Next]_vars, "restart" \notin mishaps' PROVE OneUse'
  <2>1. OneUse' => PortHasOneUse'
    BY DEF PortHasOneUse, OneUse, Mapped, Offered
  <2>2. "restart" \in mishaps' => PortHasOneUse'
    BY DEF PortHasOneUse
  <2> QED
    BY <2>1, <2>2
<1>1. ~ Restart /\ "restart" \notin mishaps
  BY MishapsStay, RestartIsKnown
<1>2. OneUse
  BY <1>1, OneUseIs
<1> QED
  BY <1>1, <1>2, PortSteps, OneUseStep

\* NoPortLost, without the sets.
Accounted(p) ==
  p \in available \/ (\E u \in Users : port[u] = p) \/ (\E k \in Callers : offer[k] = p)

LEMMA NoPortLostStep == TypeOK /\ Uses /\ NoPortLost /\ [Next]_vars => NoPortLost'
<1> SUFFICES ASSUME TypeOK, Uses, NoPortLost, [Next]_vars, mishaps' \subseteq {"install"}, NEW p \in Ports
             PROVE  Accounted(p)'
  <2>2. TypeOK' => available' \cup Mapped' \cup Offered' \subseteq Ports
    BY DEF TypeOK, CallerTypeOK, DockerTypeOK, PoolTypeOK, Mapped, Offered, PortOrNone
  <2>3. ASSUME NEW p \in Ports, Accounted(p)' PROVE p \in available' \cup Mapped' \cup Offered'
    BY <2>3, PortsAssumption DEF Accounted, Mapped, Offered
  <2> QED
    BY <2>2, <2>3, TypeStep DEF NoPortLost
<1>1. ~ Restart /\ mishaps \subseteq {"install"}
  BY MishapsStay, RestartIsKnown
<1>2. Accounted(p) /\ p # 0
  <2>1. p \in available \cup Mapped \cup Offered
    BY <1>1 DEF NoPortLost
  <2> QED
    BY <2>1, PortsAssumption DEF Accounted, Mapped, Offered
<1>3. CASE UNCHANGED available /\ OfferStays /\ PortStays
  BY <1>2, <1>3 DEF Accounted, OfferStays, PortStays
<1>4. ASSUME NEW k \in Callers, NEW q \in available, Allocates(k, q) PROVE Accounted(p)'
  BY <1>2, <1>4 DEF Accounted, Allocates, OfferBecomes, PortStays
<1>5. ASSUME NEW k \in Callers, NEW u \in Users, Maps(k, u) PROVE Accounted(p)'
  BY <1>2, <1>5 DEF Accounted, Maps, OfferBecomes, PortBecomes
<1>6. ASSUME NEW u \in Users, Unmaps(u) PROVE Accounted(p)'
  BY <1>2, <1>6 DEF Accounted, Unmaps, OfferStays, PortBecomes
<1>7. \A k \in Callers : ~ Loses(k)
  BY DEF Loses
<1> QED
  BY <1>1, <1>3, <1>4, <1>5, <1>6, <1>7, PortSteps DEF PortStep

-----------------------------------------------------------------------------
\* A port comes on record from the container that maps it.
LEMMA RecordsFrom ==
  ASSUME TypeOK, [Next]_vars, ~ Restart
  PROVE  \A u \in Users : tracked'[u] \in {0, tracked[u], port'[u]} /\ server'[u] \in {0, server[u], tracked[u]}
<1> DEFINE Goal == \A u \in Users : /\ tracked'[u] \in {0, tracked[u], port'[u]}
                                    /\ server'[u] \in {0, server[u], tracked[u]}
<1> SUFFICES Goal
  OBVIOUS
<1>1. UNCHANGED <<tracked, server>> => Goal
  OBVIOUS
<1>2. ASSUME NEW k \in Callers, Call(k) PROVE Goal
  <2>1. CASE RecoverPort(k)
    BY <2>1 DEF RecoverPort, dockerVars, TypeOK, PoolTypeOK
  <2>2. CASE RunContainer(k)
    <3>1. /\ port' = [port EXCEPT ![user[k]] = offer[k]] /\ UNCHANGED server
          /\ \/ tracked' = [tracked EXCEPT ![user[k]] = offer[k]]
             \/ tracked' = [tracked EXCEPT ![user[k]] = 0]
      BY <2>2 DEF RunContainer, RunTo, serverVars
    <3> QED
      BY <3>1 DEF TypeOK, PoolTypeOK, DockerTypeOK
  <2>3. CASE ~ RecoverPort(k) /\ ~ RunContainer(k)
    <3>1. UNCHANGED <<tracked, server>>
      BY <1>2, <2>3 DEF Call, StartContainer, StartRaises, StopOld, Remove, Gone, Allocate, AllocateFrom,
         Tracked, Install, RunRefused, InstallRaises, InstallFails, poolVars, serverVars
    <3> QED
      BY <1>1, <3>1
  <2> QED
    BY <2>1, <2>2, <2>3
<1>3. ASSUME NEW k \in Callers, NEW u \in Users, Lookup(k, u) PROVE Goal
  BY <1>1, <1>3 DEF Lookup, poolVars, serverVars
<1>4. ASSUME NEW u \in Users, StartStep(u) PROVE Goal
  <2>1. UNCHANGED tracked
    BY <1>4 DEF StartStep, TakeLock, StillHealthy, ServerDied, Launch, LaunchRaises, Registered,
                ProbeRaises, StartGoto, poolVars
  <2>2. server' \in {server, [server EXCEPT ![u] = 0], [server EXCEPT ![u] = tracked[u]]}
    BY <1>4 DEF StartStep, TakeLock, StillHealthy, ServerDied, Launch, LaunchRaises, Registered, ProbeRaises
  <2> QED
    BY <2>1, <2>2 DEF TypeOK, ServerTypeOK
<1>5. ASSUME NEW u \in Users, ContainerStops(u) PROVE Goal
  BY <1>1, <1>5 DEF ContainerStops, poolVars
<1>6. CASE UNCHANGED vars
  BY <1>1, <1>6 DEF vars, poolVars, serverVars
<1> QED
  BY <1>2, <1>3, <1>4, <1>5, <1>6 DEF Next

\* What is on record stays its user's, whatever happens to the ports.
LEMMA OnRecordStays ==
  ASSUME TypeOK, PortStep, NEW u \in Users, NEW p, OnRecord(u, p)
  PROVE  OnRecord(u, p)'
<1>1. SUFFICES ASSUME p # 0 PROVE OnRecord(u, p)'
  BY DEF OnRecord
<1>2. CASE UNCHANGED available /\ OfferStays /\ PortStays
  BY <1>1, <1>2 DEF OnRecord, OfferStays, PortStays
<1>3. ASSUME NEW k \in Callers, NEW q \in available, Allocates(k, q) PROVE OnRecord(u, p)'
  BY <1>1, <1>3 DEF OnRecord, Allocates, OfferBecomes, PortStays
<1>4. ASSUME NEW k \in Callers, Loses(k) PROVE OnRecord(u, p)'
  BY <1>1, <1>4 DEF OnRecord, Loses, OfferBecomes, PortStays
<1>5. ASSUME NEW k \in Callers, NEW v \in Users, Maps(k, v) PROVE OnRecord(u, p)'
  BY <1>1, <1>5 DEF OnRecord, Maps, OfferBecomes, PortBecomes
<1>6. ASSUME NEW v \in Users, Unmaps(v) PROVE OnRecord(u, p)'
  BY <1>1, <1>6 DEF OnRecord, Unmaps, OfferStays, PortBecomes
<1> QED
  BY <1>2, <1>3, <1>4, <1>5, <1>6 DEF PortStep

LEMMA RecordsStep == TypeOK /\ Uses /\ PortHasOneUse /\ Records /\ [Next]_vars => Records'
<1> SUFFICES ASSUME TypeOK, Uses, PortHasOneUse, Records, [Next]_vars, "restart" \notin mishaps', NEW u \in Users
             PROVE  OnRecord(u, tracked[u])' /\ OnRecord(u, server[u])'
  BY DEF Records
<1>1. ~ Restart /\ "restart" \notin mishaps /\ PortStep
  BY MishapsStay, RestartIsKnown, PortSteps
<1>2. OnRecord(u, tracked[u]) /\ OnRecord(u, server[u])
  BY <1>1 DEF Records
<1>3. OneUse'
  BY <1>1, OneUseIs, OneUseStep
<1>4. OnRecord(u, port[u])'
  BY <1>3 DEF OneUse, OnRecord
<1> DEFINE Fine(p) == p # 0 => /\ p \notin available' /\ \A k \in Callers : offer'[k] # p
                               /\ \A v \in Users : port'[v] = p => v = u
<1>5. Fine(tracked[u]) /\ Fine(server[u])
  <2>1. \A p : OnRecord(u, p) => Fine(p)
    <3>1. TAKE p
    <3>2. HAVE OnRecord(u, p)
    <3> QED
      BY <1>1, <3>2, OnRecordStays DEF OnRecord
  <2> QED
    BY <1>2, <2>1
<1>7. Fine(port'[u])
  BY <1>4 DEF OnRecord
<1>6. tracked'[u] \in {0, tracked[u], port'[u]} /\ server'[u] \in {0, server[u], tracked[u]}
  BY <1>1, RecordsFrom
<1>8. Fine(tracked'[u]) /\ Fine(server'[u])
  BY <1>5, <1>6, <1>7
<1> QED
  BY <1>8 DEF OnRecord

-----------------------------------------------------------------------------
\* A caller's container is one of the user's, and when nothing failed it is the
\* one that it removes or installs in.
LEMMA HandleStep ==
  ASSUME TypeOK, [Next]_vars, \A k \in Callers : pc[k] # "idle" => handle[k] <= number[user[k]]
  PROVE  \A k \in Callers : pc'[k] # "idle" => handle'[k] <= number'[user'[k]]
<1> DEFINE Goal == \A k \in Callers : pc'[k] # "idle" => handle'[k] <= number'[user'[k]]
           Below == \A k \in Callers : pc[k] # "idle" => handle[k] <= number[user[k]]
<1> SUFFICES Goal
  OBVIOUS
<1>1. UNCHANGED <<pc, user, handle, number>> => Goal
  OBVIOUS
<1>2. ASSUME NEW k \in Callers, Raise(k) \/ Return(k), UNCHANGED number PROVE Goal
  BY <1>2 DEF Raise, Return, Goto, TypeOK, CallerTypeOK
<1>3. ASSUME NEW k \in Callers, pc[k] # "idle", NEW stage, Goto(k, stage), UNCHANGED <<user, handle, number>> PROVE Goal
  BY <1>3 DEF Goto, TypeOK, CallerTypeOK
<1>4. ASSUME NEW k \in Callers, Call(k) PROVE Goal
  <2>1. CASE StartRaises(k) \/ Gone(k) \/ RunRefused(k) \/ InstallRaises(k)
    BY <1>2, <2>1 DEF StartRaises, Gone, RunRefused, InstallRaises, InstallFails, dockerVars
  <2>2. CASE Tracked(k) \/ RecoverPort(k) \/ Install(k)
    BY <1>2, <2>2 DEF Tracked, RecoverPort, Install, dockerVars
  <2>3. CASE StartContainer(k) \/ StopOld(k) \/ Remove(k)
    BY <1>3, <2>3 DEF StartContainer, StopOld, Remove
  <2>4. CASE Allocate(k)
    BY <1>2, <1>3, <2>4 DEF Allocate, AllocateFrom, dockerVars
  <2>5. CASE RunContainer(k)
    <3>1. user[k] \in Users /\ pc[k] = "run"
      BY <2>5 DEF RunContainer, RunTo, TypeOK, CallerTypeOK
    <3>2. number' = [number EXCEPT ![user[k]] = @ + 1]
      BY <2>5 DEF RunContainer, RunTo
    <3>3. number'[user[k]] = number[user[k]] + 1 /\ \A u \in Users : u # user[k] => number'[u] = number[u]
      BY <3>1, <3>2 DEF TypeOK, DockerTypeOK
    <3>4. \A u \in Users : number[u] \in Nat /\ number[u] <= number'[u]
      BY <3>1, <3>2 DEF TypeOK, DockerTypeOK
    <3>7. \A l \in Callers : pc[l] # "idle" => handle[l] \in Nat /\ user[l] \in Users
      BY DEF TypeOK, CallerTypeOK
    <3>8. \A u \in Users : number'[u] \in Nat
      BY <3>3, <3>4
    <3>9. ASSUME NEW l \in Callers, pc[l] # "idle", handle'[l] = handle[l], user'[l] = user[l]
          PROVE  handle'[l] <= number'[user'[l]]
      <4>1. handle[l] <= number[user[l]] /\ handle[l] \in Nat /\ user[l] \in Users
        BY <3>7, <3>9
      <4>2. number[user[l]] <= number'[user[l]] /\ number[user[l]] \in Nat /\ number'[user[l]] \in Nat
        BY <3>4, <3>8, <4>1
      <4> QED
        BY <3>9, <4>1, <4>2
    <3>5. CASE Raise(k)
      <4>1. pc'[k] = "idle" /\ \A l \in Callers : l # k => pc'[l] = pc[l] /\ handle'[l] = handle[l] /\ user'[l] = user[l]
        BY <3>5 DEF Raise, Goto, TypeOK, CallerTypeOK
      <4> QED
        BY <3>9, <4>1
    <3>6. CASE Goto(k, "install") /\ UNCHANGED user /\ handle' = [handle EXCEPT ![k] = number'[user[k]]]
      <4>1. handle'[k] = number'[user'[k]] /\ number'[user[k]] \in Nat
        BY <3>1, <3>3, <3>4, <3>6 DEF TypeOK, CallerTypeOK
      <4>2. \A l \in Callers : l # k => pc'[l] = pc[l] /\ handle'[l] = handle[l] /\ user'[l] = user[l]
        BY <3>6 DEF Goto, TypeOK, CallerTypeOK
      <4>3. handle'[k] <= number'[user'[k]]
        BY <3>1, <3>6, <3>8, <4>1
      <4> QED
        BY <3>9, <4>2, <4>3
    <3> QED
      BY <2>5, <3>5, <3>6 DEF RunContainer, RunTo
  <2> QED
    BY <1>4, <2>1, <2>2, <2>3, <2>4, <2>5 DEF Call
<1>5. ASSUME NEW k \in Callers, NEW u \in Users, Lookup(k, u) PROVE Goal
  BY <1>5 DEF Lookup, Goto, TypeOK, CallerTypeOK, DockerTypeOK, dockerVars
<1>6. ASSUME NEW u \in Users, StartStep(u) \/ ContainerStops(u) PROVE Goal
  BY <1>1, <1>6 DEF StartStep, TakeLock, StillHealthy, ServerDied, Launch, LaunchRaises, Registered,
                    ProbeRaises, StartGoto, ContainerStops, callerVars, dockerVars
<1>7. CASE Restart
  BY <1>7 DEF Restart
<1>8. CASE UNCHANGED vars
  BY <1>1, <1>8 DEF vars, callerVars, dockerVars
<1> QED
  BY <1>4, <1>5, <1>6, <1>7, <1>8 DEF Next

Removing(k) == pc[k] = "remove" /\ Holds(k) => tracked[user[k]] = 0
Installing(k) == pc[k] = "install" => Holds(k) /\ tracked[user[k]] # 0

LEMMA HeldStep == TypeOK /\ Uses /\ Held /\ [Next]_vars => Held'
<1> SUFFICES ASSUME TypeOK, Uses, Held, [Next]_vars, Sound'
             PROVE  /\ \A u \in Users : tracked'[u] = port'[u]
                    /\ \A k \in Callers : Removing(k)' /\ Installing(k)'
  BY HandleStep DEF Held, Removing, Installing
<1> DEFINE Goal == /\ \A u \in Users : tracked'[u] = port'[u]
                   /\ \A k \in Callers : Removing(k)' /\ Installing(k)'
<1>1. ~ Restart /\ Sound
  BY MishapsStay, RestartIsKnown DEF Sound
<1>2. /\ \A u \in Users : tracked[u] = port[u]
      /\ \A k \in Callers : Removing(k) /\ Installing(k)
      /\ \A k \in Callers : pc[k] # "idle" => handle[k] <= number[user[k]]
  BY <1>1 DEF Held, Removing, Installing
<1>3. UNCHANGED <<callerVars, number, exists, port, tracked>> => Goal
  BY <1>2 DEF callerVars, Removing, Installing, Holds
<1>4. ASSUME NEW k \in Callers, Raise(k) \/ Return(k), UNCHANGED <<number, exists, port, tracked>> PROVE Goal
  BY <1>2, <1>4 DEF Raise, Return, Goto, Removing, Installing, Holds, TypeOK, CallerTypeOK
<1>5. ASSUME NEW k \in Callers, NEW stage, Goto(k, stage), stage \notin {"remove", "install"},
             \A l \in Callers : l # k => user'[l] = user[l] /\ handle'[l] = handle[l],
             UNCHANGED <<number, exists, port, tracked>>
      PROVE  Goal
  BY <1>2, <1>5 DEF Goto, Removing, Installing, Holds, TypeOK, CallerTypeOK
<1>6. ASSUME NEW k \in Callers, Call(k) PROVE Goal
  <2>1. CASE StartRaises(k) \/ Gone(k) \/ RunRefused(k) \/ InstallRaises(k)
    BY <1>4, <2>1 DEF StartRaises, Gone, RunRefused, InstallRaises, InstallFails, dockerVars, poolVars
  <2>2. CASE Tracked(k) \/ Install(k)
    BY <1>4, <2>2 DEF Tracked, Install, dockerVars, poolVars
  <2>3. CASE RecoverPort(k)
    \* The port that Docker tells would have been on record.
    <3>1. user[k] \in Users /\ tracked[user[k]] = 0 /\ port[user[k]] # 0
      BY <2>3 DEF RecoverPort, TypeOK, CallerTypeOK
    <3> QED
      BY <1>2, <3>1
  <2>4. CASE StartContainer(k)
    BY <1>5, <2>4 DEF StartContainer, poolVars
  <2>5. CASE Allocate(k)
    <3>1. CASE available = {}
      BY <1>4, <2>5, <3>1 DEF Allocate, AllocateFrom, dockerVars
    <3>2. CASE available # {}
      BY <1>5, <2>5, <3>2 DEF Allocate, AllocateFrom, dockerVars
    <3> QED
      BY <3>1, <3>2
  <2>6. CASE StopOld(k)
    <3>1. /\ tracked[user[k]] = 0 /\ Goto(k, "remove")
          /\ UNCHANGED <<user, handle, number, exists, port, tracked>>
      BY <2>6 DEF StopOld, poolVars
    <3> QED
      BY <1>2, <3>1 DEF Goto, Removing, Installing, Holds, TypeOK, CallerTypeOK
  <2>7. CASE Remove(k)
    <3>1. /\ user[k] \in Users /\ tracked[user[k]] = 0
          /\ exists' = exists \ {user[k]} /\ port' = [port EXCEPT ![user[k]] = 0] /\ Goto(k, "allocate")
          /\ UNCHANGED <<user, handle, number, tracked>>
      BY <1>2, <2>7 DEF Remove, Removing, TypeOK, CallerTypeOK, poolVars
    <3>2. \A u \in Users : tracked'[u] = port'[u]
      BY <1>2, <3>1 DEF TypeOK, DockerTypeOK
    <3>3. \A l \in Callers : pc'[l] = IF l = k THEN "allocate" ELSE pc[l]
      BY <3>1 DEF Goto, TypeOK, CallerTypeOK
    <3>4. \A l \in Callers : Removing(l)'
      BY <1>2, <3>1, <3>3 DEF Removing, Holds
    <3>5. \A l \in Callers : Installing(l)'
      BY <1>2, <3>1, <3>3 DEF Installing, Holds
    <3> QED
      BY <3>2, <3>4, <3>5
  <2>8. CASE RunContainer(k)
    <3>1. Bindable(user[k], offer[k])
      BY <2>8 DEF RunContainer, RunTo, Sound
    <3>2. /\ user[k] \in Users /\ offer[k] # 0 /\ user[k] \notin exists /\ pc[k] = "run"
          /\ exists' = exists \cup {user[k]} /\ number' = [number EXCEPT ![user[k]] = @ + 1]
          /\ port' = [port EXCEPT ![user[k]] = offer[k]] /\ tracked' = [tracked EXCEPT ![user[k]] = offer[k]]
          /\ Goto(k, "install") /\ UNCHANGED user /\ handle' = [handle EXCEPT ![k] = number'[user[k]]]
      BY <2>8, <3>1 DEF RunContainer, RunTo, TypeOK, CallerTypeOK, Uses
    <3>3. \A u \in Users : tracked'[u] = port'[u]
      BY <1>2, <3>2 DEF TypeOK, DockerTypeOK, PoolTypeOK
    <3>4. /\ pc'[k] = "install" /\ handle'[k] = number'[user[k]] /\ tracked'[user[k]] # 0
          /\ \A l \in Callers : l # k => pc'[l] = pc[l] /\ handle'[l] = handle[l]
      BY <3>2 DEF Goto, TypeOK, CallerTypeOK, PoolTypeOK
    <3>5. number'[user[k]] > number[user[k]] /\ number[user[k]] \in Nat
      BY <3>2 DEF TypeOK, DockerTypeOK
    <3>6. \A u \in Users : u # user[k] => number'[u] = number[u] /\ tracked'[u] = tracked[u]
      BY <3>2 DEF TypeOK, DockerTypeOK, PoolTypeOK
    <3>7. \A l \in Callers : handle[l] \in Nat /\ (pc[l] # "idle" => user[l] \in Users)
      BY DEF TypeOK, CallerTypeOK
    <3>8. ASSUME NEW l \in Callers, l # k PROVE Removing(l)'
      <4>1. CASE pc[l] = "remove" /\ user[l] = user[k]
        <5>1. handle'[l] # number'[user'[l]]
          BY <1>2, <3>2, <3>4, <3>5, <3>7, <3>8, <4>1
        <5> QED
          BY <5>1 DEF Removing, Holds
      <4>2. CASE pc[l] = "remove" /\ user[l] # user[k]
        BY <1>2, <3>2, <3>4, <3>6, <3>7, <3>8, <4>2 DEF Removing, Holds
      <4> QED
        BY <3>4, <3>8, <4>1, <4>2 DEF Removing
    <3>9. ASSUME NEW l \in Callers, l # k PROVE Installing(l)'
      BY <1>2, <3>2, <3>4, <3>6, <3>7, <3>9 DEF Installing, Holds
    <3>10. Removing(k)' /\ Installing(k)'
      BY <3>2, <3>4 DEF Removing, Installing, Holds
    <3> QED
      BY <3>3, <3>8, <3>9, <3>10
  <2> QED
    BY <1>6, <2>1, <2>2, <2>3, <2>4, <2>5, <2>6, <2>7, <2>8 DEF Call
<1>7. ASSUME NEW k \in Callers, NEW u \in Users, Lookup(k, u) PROVE Goal
  <2>1. PICK stage \in {"allocate", "track", "start"} : Goto(k, stage)
    BY <1>7 DEF Lookup
  <2>2. \A l \in Callers : l # k => user'[l] = user[l] /\ handle'[l] = handle[l]
    BY <1>7 DEF Lookup, TypeOK, CallerTypeOK
  <2> QED
    BY <1>5, <1>7, <2>1, <2>2 DEF Lookup, dockerVars, poolVars
<1>8. ASSUME NEW u \in Users, StartStep(u) \/ ContainerStops(u) PROVE Goal
  BY <1>3, <1>8 DEF StartStep, TakeLock, StillHealthy, ServerDied, Launch, LaunchRaises, Registered,
                    ProbeRaises, StartGoto, ContainerStops, dockerVars, poolVars
<1>9. CASE UNCHANGED vars
  BY <1>3, <1>9 DEF vars, dockerVars, poolVars
<1> QED
  BY <1>1, <1>6, <1>7, <1>8, <1>9 DEF Next

\* Who has a port on record has everything installed, or is being installed.
Finished(u) == tracked[u] # 0 /\ u \notin ready => \E k \in Callers : user[k] = u /\ pc[k] = "install"

LEMMA FinishedStep == TypeOK /\ Uses /\ Held /\ HalfSetUpHasCause /\ [Next]_vars => HalfSetUpHasCause'
<1> SUFFICES ASSUME TypeOK, Uses, Held, HalfSetUpHasCause, [Next]_vars, Sound' PROVE \A u \in Users : Finished(u)'
  BY DEF HalfSetUpHasCause, Finished, Sound
<1> DEFINE Goal == \A u \in Users : Finished(u)'
<1>1. ~ Restart /\ Sound
  BY MishapsStay, RestartIsKnown DEF Sound
<1>2. (\A u \in Users : Finished(u)) /\ (\A k \in Callers : Removing(k) /\ Installing(k))
  BY <1>1 DEF HalfSetUpHasCause, Finished, Sound, Held, Removing, Installing
<1>3. UNCHANGED <<pc, user, ready, tracked>> => Goal
  BY <1>2 DEF Finished
<1>4. ASSUME NEW k \in Callers, pc[k] # "install",
             \A l \in Callers : l # k => pc'[l] = pc[l] /\ user'[l] = user[l], UNCHANGED <<ready, tracked>>
      PROVE  Goal
  BY <1>2, <1>4 DEF Finished
<1>5. ASSUME NEW k \in Callers, Raise(k) \/ Return(k) \/ (UNCHANGED user /\ \E stage : Goto(k, stage))
      PROVE  \A l \in Callers : l # k => pc'[l] = pc[l] /\ user'[l] = user[l]
  BY <1>5 DEF Raise, Return, Goto, TypeOK, CallerTypeOK
<1>6. ASSUME NEW k \in Callers, Call(k) PROVE Goal
  <2>1. CASE StartRaises(k) \/ RunRefused(k)
    BY <1>4, <1>5, <2>1 DEF StartRaises, RunRefused, dockerVars, poolVars
  <2>2. CASE Gone(k)
    <3>1. pc[k] # "install"
      BY <1>2, <2>2 DEF Gone, Installing
    <3> QED
      BY <1>4, <1>5, <2>2, <3>1 DEF Gone, dockerVars, poolVars
  <2>3. CASE InstallRaises(k)
    BY <2>3 DEF InstallRaises, InstallFails, Sound
  <2>4. CASE Tracked(k)
    BY <1>4, <1>5, <2>4 DEF Tracked, dockerVars, poolVars
  <2>5. CASE RecoverPort(k)
    <3>1. user[k] \in Users /\ tracked[user[k]] = 0 /\ port[user[k]] # 0
      BY <2>5 DEF RecoverPort, TypeOK, CallerTypeOK
    <3> QED
      BY <1>1, <3>1 DEF Held
  <2>6. CASE StartContainer(k) \/ StopOld(k)
    BY <1>4, <1>5, <2>6 DEF StartContainer, StopOld, poolVars
  <2>7. CASE Allocate(k)
    BY <1>4, <1>5, <2>7 DEF Allocate, AllocateFrom, dockerVars
  <2>8. CASE Remove(k)
    <3>1. /\ tracked[user[k]] = 0 /\ UNCHANGED tracked /\ ready' = ready \ {user[k]} /\ pc[k] # "install"
          /\ \A l \in Callers : l # k => pc'[l] = pc[l] /\ user'[l] = user[l]
      BY <1>2, <1>5, <2>8 DEF Remove, Removing, poolVars
    <3> QED
      BY <1>2, <3>1 DEF Finished
  <2>9. CASE RunContainer(k)
    <3>1. Bindable(user[k], offer[k])
      BY <2>9 DEF RunContainer, RunTo, Sound
    <3>2. /\ pc[k] = "run" /\ Goto(k, "install") /\ UNCHANGED <<user, ready>>
          /\ tracked' = [tracked EXCEPT ![user[k]] = offer[k]]
      BY <2>9, <3>1 DEF RunContainer, RunTo
    <3>3. pc'[k] = "install" /\ \A l \in Callers : l # k => pc'[l] = pc[l]
      BY <3>2 DEF Goto, TypeOK, CallerTypeOK
    <3>4. \A u \in Users : u # user[k] => tracked'[u] = tracked[u]
      BY <3>2 DEF TypeOK, PoolTypeOK
    <3> QED
      BY <1>2, <3>2, <3>3, <3>4 DEF Finished
  <2>10. CASE Install(k)
    <3>1. /\ UNCHANGED tracked /\ ready' = ready \cup {user[k]}
          /\ \A l \in Callers : l # k => pc'[l] = pc[l] /\ user'[l] = user[l]
      BY <1>5, <2>10 DEF Install, poolVars
    <3> QED
      BY <1>2, <3>1 DEF Finished
  <2> QED
    BY <1>6, <2>1, <2>2, <2>3, <2>4, <2>5, <2>6, <2>7, <2>8, <2>9, <2>10 DEF Call
<1>7. ASSUME NEW k \in Callers, NEW u \in Users, Lookup(k, u) PROVE Goal
  <2>1. /\ pc[k] = "idle" /\ UNCHANGED <<ready, tracked>>
        /\ \A l \in Callers : l # k => pc'[l] = pc[l] /\ user'[l] = user[l]
    BY <1>7 DEF Lookup, Goto, TypeOK, CallerTypeOK, dockerVars, poolVars
  <2> QED
    BY <1>4, <2>1
<1>8. ASSUME NEW u \in Users, StartStep(u) \/ ContainerStops(u) PROVE Goal
  BY <1>3, <1>8 DEF StartStep, TakeLock, StillHealthy, ServerDied, Launch, LaunchRaises, Registered,
                    ProbeRaises, StartGoto, ContainerStops, callerVars, dockerVars, poolVars
<1>9. CASE UNCHANGED vars
  BY <1>3, <1>9 DEF vars, callerVars, dockerVars, poolVars
<1> QED
  BY <1>1, <1>6, <1>7, <1>8, <1>9 DEF Next

-----------------------------------------------------------------------------
LEMMA InitIInv == Init => IInv
<1> SUFFICES ASSUME Init PROVE IInv
  OBVIOUS
<1>1. CallerTypeOK
  BY DEF Init, CallerTypeOK, CallerStages, PortOrNone
<1>2. DockerTypeOK /\ PoolTypeOK /\ ServerTypeOK
  BY DEF Init, DockerTypeOK, PoolTypeOK, ServerTypeOK, PortOrNone
<1>3. Uses /\ Records /\ Held /\ HalfSetUpHasCause
  BY DEF Init, Uses, Records, OnRecord, Held, HalfSetUpHasCause
<1>4. Mapped = {} /\ Offered = {}
  BY DEF Init, Mapped, Offered
<1>5. PortHasOneUse /\ NoPortLost
  BY <1>4 DEF Init, PortHasOneUse, NoPortLost
<1> QED
  BY <1>1, <1>2, <1>3, <1>5 DEF IInv, TypeOK

LEMMA StepIInv == IInv /\ [Next]_vars => IInv'
BY TypeStep, UsesStep, PortHasOneUseStep, NoPortLostStep, RecordsStep, HeldStep, FinishedStep DEF IInv

LEMMA Inductive == Spec => []IInv
BY InitIInv, StepIInv, PTL DEF Spec

\* Every variable keeps its type, for any number of users, ports and threads.
THEOREM TypeCorrect == Spec => []TypeOK
<1>1. IInv => TypeOK
  BY DEF IInv
<1> QED
  BY <1>1, Inductive, PTL

\* allocate_port never gives a port to two containers, however many threads
\* call get_or_create_container beside the event loop.
THEOREM PortsAreNotShared == Spec => []PortHasOneUse
<1>1. IInv => PortHasOneUse
  BY DEF IInv
<1> QED
  BY <1>1, Inductive, PTL

\* The pool runs out of ports only by containers that have them, or by a
\* container of one user that two callers created or that was removed.
THEOREM PortsAreAccounted == Spec => []NoPortLost
<1>1. IInv => NoPortLost
  BY DEF IInv
<1> QED
  BY <1>1, Inductive, PTL

\* get_opencode_client never returns a client to the container of another user.
THEOREM ClientsAreApart == Spec => []ClientReachesOwnServer
<1>1. IInv => ClientReachesOwnServer
  BY DEF IInv, Records, OnRecord, TypeOK, DockerTypeOK, ClientReachesOwnServer
<1> QED
  BY <1>1, Inductive, PTL

\* A container is handed out half set up only after an installation failed.
THEOREM HalfSetUpExplained == Spec => []HalfSetUpHasCause
<1>1. IInv => HalfSetUpHasCause
  BY DEF IInv
<1> QED
  BY <1>1, Inductive, PTL
=============================================================================
