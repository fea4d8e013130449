------------------------------ MODULE Containers ------------------------------
(***************************************************************************)
(* The containers of the users (get_or_create_container of containers.py)  *)
(* and the OpenCode servers in them (OpenCodeManager of                    *)
(* opencode_manager.py).                                                   *)
(*                                                                         *)
(* A container is found by its name or created with a host port of the     *)
(* manager's pool.  On the event loop the function blocks everything else; *)
(* a question over MCP calls it in a thread, and then every call of Docker *)
(* is a step that other callers interleave with.  start_server runs on the *)
(* loop only, under one lock.  Docker is external: it keeps names unique,  *)
(* and refuses to start a container whose port a running one has bound.    *)
(***************************************************************************)
EXTENDS Naturals, FiniteSets

CONSTANTS
  Users,
  NoUser,        \* for whom a caller calls that is idle
  Ports,         \* PORT_RANGE_START .. PORT_RANGE_END - 1
  Loop,          \* the event loop, as a caller of get_or_create_container
  Threads,       \* threads of MCP questions, the other callers
  MaxContainers, \* bound: containers that a user has, one after another
  Faults         \* what happens: see AllFaults

\* A container stops; the pf-server restarts; an installation in a container fails.
AllFaults == {"stop", "restart", "install"}

ASSUME PortsAssumption == Ports \subseteq Nat \ {0} /\ IsFiniteSet(Ports)
ASSUME CallersAssumption == Loop \notin Threads /\ NoUser \notin Users
ASSUME BoundAssumption == MaxContainers \in Nat \ {0}
ASSUME FaultsAssumption == Faults \subseteq AllFaults

VARIABLES
  pc,            \* where every caller is in get_or_create_container
  user,          \* for whom it calls
  handle,        \* which container of the user it holds, by its number
  offer,         \* the port it has allocated for a container it creates
  number,        \* how many containers the user has had; 0: none or an old one
  exists,        \* the users who have a container
  up,            \* those whose container runs
  port,          \* the host port that it maps; 0 if it is an old one without
  ready,         \* those in whose container everything was installed
  available,     \* OpenCodeManager._available_ports
  tracked,       \* _container_ports of the user's container; 0 is None
  start,         \* start_server for a user: the step it has reached
  serving,       \* users in whose container an OpenCode process serves
  server,        \* the port of the user's OpenCodeServer in _servers; 0 is None
  mishaps        \* ghost: what has gone wrong so far

callerVars == <<pc, user, handle, offer>>
dockerVars == <<number, exists, up, port, ready>>
poolVars == <<available, tracked>>
serverVars == <<start, serving, server>>
vars == <<callerVars, dockerVars, poolVars, serverVars, mishaps>>

Callers == {Loop} \cup Threads
PortOrNone == Ports \cup {0}

\* The caller's container is still the one that has the name.
Holds(k) == user[k] \in exists /\ handle[k] = number[user[k]]
\* Docker can bind p for the container of u.
Bindable(u, p) == p = 0 \/ \A v \in up : port[v] = p => v = u
\* An OpenCode server answers at a host port.
Answers(p) == \E v \in up \cap serving : port[v] = p

Goto(k, stage) == pc' = [pc EXCEPT ![k] = stage]
Raise(k) ==
  /\ Goto(k, "idle")
  /\ user' = [user EXCEPT ![k] = NoUser]
  /\ handle' = [handle EXCEPT ![k] = 0]
  /\ offer' = [offer EXCEPT ![k] = 0]

\* The container is returned; a WebSocket goes on with ensure_opencode_ready,
\* uploads and questions do not.
Return(k) ==
  /\ Raise(k)
  /\ \/ UNCHANGED start
     \/ k = Loop /\ start[user[k]] = "off" /\ start' = [start EXCEPT ![user[k]] = "lock"]

-----------------------------------------------------------------------------
(* get_or_create_container *)

\* containers.list finds the container by its name, or does not; with the
\* status of that moment.
Lookup(k, u) ==
  /\ pc[k] = "idle"
  /\ user' = [user EXCEPT ![k] = u]
  /\ handle' = [handle EXCEPT ![k] = number[u]]
  /\ Goto(k, IF u \notin exists THEN "allocate" ELSE IF u \in up THEN "track" ELSE "start")
  /\ UNCHANGED <<offer, dockerVars, poolVars, serverVars, mishaps>>

\* A container that is not running is started.
StartContainer(k) ==
  /\ pc[k] = "start" /\ Holds(k) /\ Bindable(user[k], port[user[k]])
  /\ Goto(k, "track") /\ up' = up \cup {user[k]}
  /\ UNCHANGED <<user, handle, offer, number, exists, port, ready, poolVars, serverVars, mishaps>>
StartRaises(k) ==
  /\ pc[k] = "start" /\ ~ (Holds(k) /\ Bindable(user[k], port[user[k]]))
  /\ Raise(k)
  /\ UNCHANGED <<dockerVars, poolVars, serverVars, mishaps>>

\* Its port is in _container_ports, ...
Tracked(k) ==
  /\ pc[k] = "track" /\ Holds(k) /\ tracked[user[k]] # 0
  /\ Return(k)
  /\ UNCHANGED <<dockerVars, poolVars, serving, server, mishaps>>

\* ... or is looked up in Docker, which has ports for running containers only.
\* (The pool keeps the port, which matters after a restart of the server.)
RecoverPort(k) ==
  /\ pc[k] = "track" /\ Holds(k) /\ tracked[user[k]] = 0
  /\ user[k] \in up /\ port[user[k]] # 0
  /\ tracked' = [tracked EXCEPT ![user[k]] = port[user[k]]]
  /\ Return(k)
  /\ UNCHANGED <<dockerVars, available, serving, server, mishaps>>

\* A container without ports is stopped ...
StopOld(k) ==
  /\ pc[k] = "track" /\ Holds(k) /\ tracked[user[k]] = 0
  /\ ~ (user[k] \in up /\ port[user[k]] # 0)
  /\ Goto(k, "remove")
  /\ up' = up \ {user[k]} /\ serving' = serving \ {user[k]}
  /\ UNCHANGED <<user, handle, offer, number, exists, port, ready, poolVars, start, server, mishaps>>

\* ... and removed, which Docker refuses if it has been started again.
Remove(k) ==
  /\ pc[k] = "remove" /\ Holds(k) /\ user[k] \notin up
  /\ Goto(k, "allocate")
  /\ exists' = exists \ {user[k]} /\ ready' = ready \ {user[k]}
  /\ port' = [port EXCEPT ![user[k]] = 0]
  /\ mishaps' = IF port[user[k]] # 0 THEN mishaps \cup {"removed"} ELSE mishaps
  /\ UNCHANGED <<user, handle, offer, number, up, poolVars, serverVars>>

\* The container that the caller holds has gone, or it cannot be removed.
Gone(k) ==
  /\ \/ pc[k] \in {"track", "remove", "install"} /\ ~ Holds(k)
     \/ pc[k] = "remove" /\ user[k] \in up
  /\ Raise(k)
  /\ UNCHANGED <<dockerVars, poolVars, serverVars, mishaps>>

\* A port is popped from the pool, or the pool is empty.
\* (Faulty variants: the port stays in the pool; the check for an empty one is
\* missing and the range goes on.)
AllocateFrom(k, ports, popped) ==
  /\ pc[k] = "allocate"
  /\ IF ports = {}
     THEN Raise(k) /\ UNCHANGED available
     ELSE \E p \in ports : /\ offer' = [offer EXCEPT ![k] = p]
                           /\ available' = IF popped THEN available \ {p} ELSE available
                           /\ Goto(k, "run") /\ UNCHANGED <<user, handle>>
  /\ UNCHANGED <<dockerVars, tracked, serverVars, mishaps>>
AllocateKeeping(k) == AllocateFrom(k, available, FALSE)
AllocateUnchecked(k) ==
  AllocateFrom(k, IF available = {} THEN {Cardinality(Ports) + 1} ELSE available, TRUE)
Allocate(k) == AllocateFrom(k, available, TRUE)

\* containers.run creates the container and starts it; then its port is tracked.
\* (Faulty variant: the installations are left out.)
RunTo(k, stage) ==
  LET u == user[k] IN
  /\ pc[k] = "run" /\ u \notin exists
  /\ exists' = exists \cup {u}
  /\ number' = [number EXCEPT ![u] = @ + 1]
  /\ port' = [port EXCEPT ![u] = offer[k]]
  /\ IF Bindable(u, offer[k])
     THEN /\ up' = up \cup {u} /\ tracked' = [tracked EXCEPT ![u] = offer[k]]
          /\ Goto(k, stage) /\ UNCHANGED <<user, mishaps>>
          /\ handle' = [handle EXCEPT ![k] = number'[u]]
          /\ offer' = [offer EXCEPT ![k] = 0]
     ELSE \* The container stays, created and not started.
          /\ tracked' = [tracked EXCEPT ![u] = 0] /\ Raise(k)
          /\ mishaps' = mishaps \cup {"install"}
          /\ UNCHANGED up
  /\ UNCHANGED <<ready, available, serverVars>>

RunWithoutInstall(k) == RunTo(k, "idle")
RunContainer(k) == RunTo(k, "install")

\* Another caller has created it: Docker refuses the name, the port is lost.
RunRefused(k) ==
  /\ pc[k] = "run" /\ user[k] \in exists
  /\ Raise(k)
  /\ mishaps' = mishaps \cup {"refused"}
  /\ UNCHANGED <<dockerVars, poolVars, serverVars>>

\* The new container runs, and pip install, pf init, bun install and bun link end
\* well; otherwise an exception leaves the container as it is.
Install(k) ==
  /\ pc[k] = "install" /\ Holds(k) /\ user[k] \in up
  /\ ready' = ready \cup {user[k]}
  /\ Return(k)
  /\ UNCHANGED <<number, exists, up, port, poolVars, serving, server, mishaps>>
\* (Faulty variants: the port goes back to the pool although the container maps
\* it; the container is removed and its port forgotten.)
InstallFails(k) ==
  /\ pc[k] = "install" /\ Holds(k)
  /\ user[k] \in up => "install" \in Faults
  /\ Raise(k)
  /\ mishaps' = mishaps \cup {"install"}
  /\ UNCHANGED serverVars
InstallRaisesReleasing(k) ==
  /\ InstallFails(k)
  /\ available' = available \cup {port[user[k]]}
  /\ UNCHANGED <<dockerVars, tracked>>
InstallRaisesRemoving(k) ==
  /\ InstallFails(k)
  /\ exists' = exists \ {user[k]} /\ up' = up \ {user[k]}
  /\ port' = [port EXCEPT ![user[k]] = 0] /\ tracked' = [tracked EXCEPT ![user[k]] = 0]
  /\ UNCHANGED <<number, ready, available>>
InstallRaises(k) == InstallFails(k) /\ UNCHANGED <<dockerVars, poolVars>>

-----------------------------------------------------------------------------
(* OpenCodeManager.start_server, when the loop is not blocked. *)

StartGoto(u, stage) ==
  /\ pc[Loop] = "idle"
  /\ start' = [start EXCEPT ![u] = stage]
  /\ UNCHANGED <<callerVars, dockerVars, poolVars, mishaps>>
LockFree == \A u \in Users : start[u] \in {"off", "lock"}

\* The lock is taken; a server that is known is asked for its health.
TakeLock(u) ==
  /\ start[u] = "lock" /\ LockFree
  /\ StartGoto(u, IF server[u] # 0 THEN "health" ELSE "launch")
  /\ UNCHANGED <<serving, server>>
StillHealthy(u) ==
  /\ start[u] = "health" /\ Answers(server[u])
  /\ StartGoto(u, "off")
  /\ UNCHANGED <<serving, server>>
ServerDied(u) ==
  /\ start[u] = "health" /\ ~ Answers(server[u])
  /\ StartGoto(u, "launch")
  /\ server' = [server EXCEPT ![u] = 0]
  /\ UNCHANGED serving

\* The process is started; the exec fails if the container does not run.
Launch(u) ==
  /\ start[u] = "launch" /\ u \in up
  /\ StartGoto(u, "probe")
  /\ serving' = serving \cup {u}
  /\ UNCHANGED server
LaunchRaises(u) ==
  /\ start[u] = "launch" /\ u \notin up
  /\ StartGoto(u, "off")
  /\ UNCHANGED <<serving, server>>

\* One of ten health checks at the port that was tracked succeeds, or none.
Registered(u) ==
  /\ start[u] = "probe" /\ Answers(tracked[u])
  /\ StartGoto(u, "off")
  /\ server' = [server EXCEPT ![u] = tracked[u]]
  /\ UNCHANGED serving
ProbeRaises(u) ==
  /\ start[u] = "probe" /\ ~ Answers(tracked[u])
  /\ StartGoto(u, "off")
  /\ UNCHANGED <<serving, server>>

-----------------------------------------------------------------------------
(* The environment. *)

\* A container stops, for whatever reason, and the process in it with it.
ContainerStops(u) ==
  /\ "stop" \in Faults /\ u \in up /\ number[u] < MaxContainers
  /\ up' = up \ {u} /\ serving' = serving \ {u}
  /\ UNCHANGED <<callerVars, number, exists, port, ready, poolVars, start, server, mishaps>>

\* The pf-server restarts: pool, tracked ports and servers are as at the first
\* start; the containers go on.
Restart ==
  /\ "restart" \in Faults /\ "restart" \notin mishaps
  /\ pc' = [k \in Callers |-> "idle"] /\ user' = [k \in Callers |-> NoUser]
  /\ handle' = [k \in Callers |-> 0] /\ offer' = [k \in Callers |-> 0]
  /\ available' = Ports /\ tracked' = [u \in Users |-> 0]
  /\ start' = [u \in Users |-> "off"] /\ server' = [u \in Users |-> 0]
  /\ mishaps' = mishaps \cup {"restart"}
  /\ UNCHANGED <<dockerVars, serving>>

\* At first nothing is known; containers of before the port mapping may exist.
Init ==
  /\ pc = [k \in Callers |-> "idle"] /\ user = [k \in Callers |-> NoUser]
  /\ handle = [k \in Callers |-> 0] /\ offer = [k \in Callers |-> 0]
  /\ number = [u \in Users |-> 0] /\ exists \in SUBSET Users /\ up = exists
  /\ port = [u \in Users |-> 0] /\ ready = exists
  /\ available = Ports /\ tracked = [u \in Users |-> 0]
  /\ start = [u \in Users |-> "off"] /\ serving = {} /\ server = [u \in Users |-> 0]
  /\ mishaps = {}

Call(k) ==
  \/ StartContainer(k) \/ StartRaises(k) \/ Tracked(k) \/ RecoverPort(k) \/ StopOld(k)
  \/ Remove(k) \/ Gone(k) \/ Allocate(k) \/ RunContainer(k) \/ RunRefused(k)
  \/ Install(k) \/ InstallRaises(k)
StartStep(u) ==
  \/ TakeLock(u) \/ StillHealthy(u) \/ ServerDied(u) \/ Launch(u) \/ LaunchRaises(u)
  \/ Registered(u) \/ ProbeRaises(u)

Next ==
  \/ \E k \in Callers : Call(k) \/ \E u \in Users : Lookup(k, u)
  \/ \E u \in Users : StartStep(u) \/ ContainerStops(u)
  \/ Restart

Spec == Init /\ [][Next]_vars

-----------------------------------------------------------------------------
CallerStages == {"idle", "start", "track", "remove", "allocate", "run", "install"}
CallerTypeOK ==
  /\ pc \in [Callers -> CallerStages] /\ user \in [Callers -> Users \cup {NoUser}]
  /\ \A k \in Callers : pc[k] # "idle" => user[k] \in Users
  /\ handle \in [Callers -> Nat] /\ offer \in [Callers -> PortOrNone]
DockerTypeOK ==
  /\ number \in [Users -> Nat] /\ exists \in SUBSET Users /\ up \in SUBSET exists
  /\ port \in [Users -> PortOrNone] /\ ready \in SUBSET exists
PoolTypeOK ==
  /\ available \in SUBSET Ports /\ tracked \in [Users -> PortOrNone]
ServerTypeOK ==
  /\ start \in [Users -> {"off", "lock", "health", "launch", "probe"}]
  /\ serving \in SUBSET up /\ server \in [Users -> PortOrNone]
  /\ mishaps \in SUBSET {"removed", "install", "refused", "restart"}
\* The variables have their types: ports are of the pool's range, what runs has
\* been created, and a process serves only in a container that runs.
TypeOK == CallerTypeOK /\ DockerTypeOK /\ PoolTypeOK /\ ServerTypeOK

Mapped == {port[u] : u \in Users} \ {0}
Offered == {offer[k] : k \in Callers} \ {0}

\* No port is in the pool or offered to a caller while a container maps it, and
\* no two containers map it.  (A restart breaks this: the pool is full again.)
PortHasOneUse ==
  "restart" \notin mishaps =>
    /\ available \cap (Mapped \cup Offered) = {} /\ Mapped \cap Offered = {}
    /\ \A u, v \in Users : port[u] = port[v] /\ port[u] # 0 => u = v
    /\ \A k, l \in Callers : offer[k] = offer[l] /\ offer[k] # 0 => k = l

\* A port is lost only when two callers create the container of one user at the
\* same time, or a container that maps one is removed.
NoPortLost ==
  mishaps \subseteq {"install"} => Ports = available \cup Mapped \cup Offered

\* The client of a user's OpenCode server never reaches another's container,
\* also when its own has stopped or was replaced.
ClientReachesOwnServer ==
  "restart" \notin mishaps =>
    \A u \in Users, v \in up : server[u] # 0 /\ port[v] = server[u] => u = v

\* A container that is handed out has had all its installations (get_or_create_
\* container: new containers get pf-tools installed and pf init run), unless one
\* failed, the server restarted, or another caller is just installing.
HalfSetUpHasCause ==
  \A u \in Users : tracked[u] # 0 /\ u \notin ready =>
    \/ mishaps \cap {"install", "restart"} # {}
    \/ \E k \in Callers : user[k] = u /\ pc[k] = "install"
=============================================================================
