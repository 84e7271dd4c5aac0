---------------------------- MODULE SocketGateway ---------------------------
(***************************************************************************)
(* The websocket side: SocketGateway (src/shared/socket/socket.gateway.ts),*)
(* SocketService (socket.service.ts) and the websocket branch of AuthGuard *)
(* (src/auth/auth.guard.ts:45-57).                                         *)
(*                                                                         *)
(* Each server process keeps the sockets connected to it in a Map.  For    *)
(* each user Redis keeps the ids of the user's sockets, on all processes,  *)
(* in one entry that every connect and disconnect reads, changes and       *)
(* writes back, with a fresh ttl of an hour.  The handlers of different    *)
(* sockets, and the connect and disconnect handlers of one, interleave     *)
(* between the read and the write.  Socket ids are never used again.       *)
(***************************************************************************)
EXTENDS CacheService

CONSTANTS Sockets, Users, Processes,
          Senders,    \* the processes whose code calls SocketService
          Owner,      \* Sockets -> the user of the session in its handshake
          Home,       \* Sockets -> the process it connects to
          Hour,       \* the ttl of a list: ms('1h') in the code
          MaxTime     \* bound on the clock, for model checking

ASSUME GatewayAssumption ==
    /\ Users # {} /\ Senders \subseteq Processes
    /\ Owner \in [Sockets -> Users] /\ Home \in [Sockets -> Processes]
    /\ Hour \in Nat \ {0} /\ MaxTime \in Nat

VARIABLES now,        \* the Redis clock
          list,       \* Users -> entry: UserSocketClients, as the set of its ids
          conn,       \* Sockets -> new, open or closed
          session,    \* sockets whose socket.session is set
          valid,      \* sockets whose handshake still names a session in the database
          clients,    \* Processes -> the Map of the gateway
          reg, regIds,     \* handleConnection: its await, the ids it will write
          unreg, unregIds, \* handleDisconnect: the same
          guard,      \* sockets with a message waiting for AuthGuard
          sender,     \* Processes -> the sendTo in progress
          reached,    \* history: Processes -> the sockets its last sendTo wrote to
          lost,       \* history: sockets whose id something took off the list
          left        \* history: closed sockets whose id something keeps on it

handlers == <<reg, regIds, unreg, unregIds>>
sending == <<sender, reached>>
accidents == <<lost, left>>
vars == <<now, list, conn, session, valid, clients, reg, regIds, unreg, unregIds, guard, sender,
          reached, lost, left>>

Awaits == {"none", "get", "set", "done", "failed"}
Idle == [at |-> "idle", ids |-> {}, due |-> {}]

TypeOK ==
    /\ now \in Nat \ {0}
    /\ list \in [Users -> Entries(SUBSET Sockets)]
    /\ conn \in [Sockets -> {"new", "open", "closed"}]
    /\ session \subseteq Sockets /\ valid \subseteq Sockets
    /\ clients \in [Processes -> SUBSET Sockets]
    /\ reg \in [Sockets -> Awaits] /\ unreg \in [Sockets -> Awaits]
    /\ regIds \in [Sockets -> SUBSET Sockets] /\ unregIds \in [Sockets -> SUBSET Sockets]
    /\ guard \subseteq Sockets
    /\ sender \in [Processes -> [at : {"idle", "loop"}, ids : SUBSET Sockets, due : SUBSET Sockets]]
    /\ reached \in [Processes -> SUBSET Sockets]
    /\ lost \subseteq Sockets /\ left \subseteq Sockets

Init ==
    /\ now = 1
    /\ list = [u \in Users |-> Absent({})]
    /\ conn = [s \in Sockets |-> "new"]
    /\ session = {} /\ valid = Sockets
    /\ clients = [p \in Processes |-> {}]
    /\ reg = [s \in Sockets |-> "none"] /\ unreg = [s \in Sockets |-> "none"]
    /\ regIds = [s \in Sockets |-> {}] /\ unregIds = [s \in Sockets |-> {}]
    /\ guard = {}
    /\ sender = [p \in Processes |-> Idle]
    /\ reached = [p \in Processes |-> {}]
    /\ lost = {} /\ left = {}
-----------------------------------------------------------------------------
\* What cacheService.get returns for a user, [] for undefined (userClients ?? []).
Listed(u) == Get(list[u], now, {})

\* Handlers of other sockets of s's user that are between their read and their
\* write: what they will write knows nothing of a change of s made meanwhile.
PendingBeside(s) ==
    \E t \in Sockets \ {s} : Owner[t] = Owner[s] /\ "set" \in {reg[t], unreg[t]}

\* afterInit's middleware lets a socket with a session in, and handleConnection
\* runs up to its first await: the Map has the socket before anything is awaited.
Connect(s) ==
    /\ conn[s] = "new" /\ s \in valid
    /\ conn' = [conn EXCEPT ![s] = "open"]
    /\ session' = session \cup {s}
    /\ clients' = [clients EXCEPT ![Home[s]] = @ \cup {s}]
    /\ reg' = [reg EXCEPT ![s] = "get"]
    /\ UNCHANGED <<now, list, valid, regIds, unreg, unregIds, guard, sending, accidents>>

\* The middleware refuses a socket without a session.
Refuse(s) ==
    /\ conn[s] = "new" /\ s \notin valid
    /\ conn' = [conn EXCEPT ![s] = "closed"]
    /\ UNCHANGED <<now, list, session, valid, clients, handlers, guard, sending, accidents>>

\* Mutant: the copy starts empty instead of from the stored list.
RegisterGetFresh(s) ==
    /\ reg[s] = "get"
    /\ reg' = [reg EXCEPT ![s] = "set"]
    /\ regIds' = [regIds EXCEPT ![s] = {s}]
    /\ UNCHANGED <<now, list, conn, session, valid, clients, unreg, unregIds, guard, sending, accidents>>

\* handleConnection reads the list and adds its own id to the copy.
RegisterGet(s) ==
    /\ reg[s] = "get"
    /\ reg' = [reg EXCEPT ![s] = "set"]
    /\ regIds' = [regIds EXCEPT ![s] = Listed(Owner[s]) \cup {s}]
    /\ UNCHANGED <<now, list, conn, session, valid, clients, unreg, unregIds, guard, sending, accidents>>

\* Mutant: the socket is put into the Map only once it is registered.
RegisterSetMaps(s) ==
    /\ reg[s] = "set"
    /\ reg' = [reg EXCEPT ![s] = "done"]
    /\ list' = [list EXCEPT ![Owner[s]] = Set(regIds[s], Hour, now)]
    /\ clients' = [clients EXCEPT ![Home[s]] = @ \cup {s}]
    /\ lost' = IF PendingBeside(s) THEN lost \cup {s} ELSE lost
    /\ UNCHANGED <<now, conn, session, valid, regIds, unreg, unregIds, guard, sending, left>>

\* handleConnection writes the copy back; a handler of the user that read before
\* this write will write s off the list again.
RegisterSet(s) ==
    /\ reg[s] = "set"
    /\ reg' = [reg EXCEPT ![s] = "done"]
    /\ list' = [list EXCEPT ![Owner[s]] = Set(regIds[s], Hour, now)]
    /\ lost' = IF PendingBeside(s) THEN lost \cup {s} ELSE lost
    /\ UNCHANGED <<now, conn, session, valid, clients, regIds, unreg, unregIds, guard, sending, left>>

\* handleDisconnect up to its first await; without socket.session it ends there.
StartUnregister(s) ==
    /\ conn' = [conn EXCEPT ![s] = "closed"]
    /\ clients' = [clients EXCEPT ![Home[s]] = @ \ {s}]
    /\ unreg' = [unreg EXCEPT ![s] = IF s \in session THEN "get" ELSE "done"]
    /\ left' = IF s \in session THEN left ELSE left \cup {s}
    /\ UNCHANGED lost

Disconnect(s) ==
    /\ conn[s] = "open"
    /\ StartUnregister(s)
    /\ UNCHANGED <<now, list, session, valid, reg, regIds, unregIds, guard, sending>>

\* handleDisconnect reads the list.  One connection to Redis serves a process,
\* in order, so the read of handleConnection comes first.  Not finding s, it writes
\* nothing, although a handler that read before may still put s back.
UnregisterGet(s) ==
    /\ unreg[s] = "get" /\ reg[s] # "get"
    /\ IF s \in Listed(Owner[s])
       THEN /\ unreg' = [unreg EXCEPT ![s] = "set"]
            /\ unregIds' = [unregIds EXCEPT ![s] = Listed(Owner[s]) \ {s}]
            /\ UNCHANGED left
       ELSE /\ unreg' = [unreg EXCEPT ![s] = "done"]
            /\ left' = IF reg[s] = "set" \/ PendingBeside(s) THEN left \cup {s} ELSE left
            /\ UNCHANGED unregIds
    /\ UNCHANGED <<now, list, conn, session, valid, clients, reg, regIds, guard, sending, lost>>

UnregisterSet(s) ==
    /\ unreg[s] = "set"
    /\ unreg' = [unreg EXCEPT ![s] = "done"]
    /\ list' = [list EXCEPT ![Owner[s]] = Set(unregIds[s], Hour, now)]
    /\ left' = IF PendingBeside(s) THEN left \cup {s} ELSE left
    /\ UNCHANGED <<now, conn, session, valid, clients, reg, regIds, unregIds, guard, sending, lost>>

\* A Redis call of a handler throws; nothing retries it.
HandlerFails(s) ==
    /\ \/ /\ reg[s] \in {"get", "set"}
          /\ reg' = [reg EXCEPT ![s] = "failed"]
          /\ UNCHANGED <<unreg, left>>
       \/ /\ unreg[s] \in {"get", "set"}
          /\ unreg' = [unreg EXCEPT ![s] = "failed"]
          /\ left' = left \cup {s}
          /\ UNCHANGED reg
    /\ UNCHANGED <<now, list, conn, session, valid, clients, regIds, unregIds, guard, sending, lost>>

\* A 'message' event: AuthGuard asks Better Auth for the session again.
Message(s) ==
    /\ conn[s] = "open" /\ s \notin guard
    /\ guard' = guard \cup {s}
    /\ UNCHANGED <<now, list, conn, session, valid, clients, handlers, sending, accidents>>

\* getSession resolves: its result, null if the session has ended, becomes
\* socket.session, the guard returns true and handleMessage replies.
GuardResolves(s) ==
    /\ s \in guard
    /\ guard' = guard \ {s}
    /\ session' = IF s \in valid THEN session \cup {s} ELSE session \ {s}
    /\ UNCHANGED <<now, list, conn, valid, clients, handlers, sending, accidents>>

\* getSession rejects: the guard disconnects the socket and returns false.
GuardRejects(s) ==
    /\ s \in guard
    /\ guard' = guard \ {s}
    /\ IF conn[s] = "open" THEN StartUnregister(s) ELSE UNCHANGED <<conn, clients, unreg, accidents>>
    /\ UNCHANGED <<now, list, session, valid, reg, regIds, unregIds, sending>>

\* The session of a handshake ends: sign-out, expiry, deletion.
SessionEnds(s) ==
    /\ s \in valid
    /\ valid' = valid \ {s}
    /\ UNCHANGED <<now, list, conn, session, clients, handlers, guard, sending, accidents>>

\* The sockets of a user that should be on its list: registered, and still open or
\* not yet taken off by their handleDisconnect.
Registered(u) ==
    {s \in Sockets : Owner[s] = u /\ reg[s] = "done" /\ (conn[s] = "open" \/ unreg[s] \in {"get", "set"})}

\* The open ones among them that this process should reach.
Due(p, u) == {s \in Registered(u) \ lost : Home[s] = p /\ conn[s] = "open"}

\* sendTo reads the list ...
SendGet(p, u) ==
    /\ sender[p].at = "idle"
    /\ sender' = [sender EXCEPT ![p] = [at |-> "loop", ids |-> Listed(u), due |-> Due(p, u)]]
    /\ reached' = [reached EXCEPT ![p] = {}]
    /\ UNCHANGED <<now, list, conn, session, valid, clients, handlers, guard, accidents>>

\* Mutants: the loop stops at an id that is not in the Map; the Map is not asked.
SendLoopStops(p) ==
    /\ sender[p].at = "loop"
    /\ reached' = [reached EXCEPT ![p] = IF sender[p].ids \subseteq clients[p] THEN sender[p].ids ELSE {}]
    /\ sender' = [sender EXCEPT ![p] = Idle]
    /\ UNCHANGED <<now, list, conn, session, valid, clients, handlers, guard, accidents>>
SendLoopBlind(p) ==
    /\ sender[p].at = "loop"
    /\ reached' = [reached EXCEPT ![p] = sender[p].ids]
    /\ sender' = [sender EXCEPT ![p] = Idle]
    /\ UNCHANGED <<now, list, conn, session, valid, clients, handlers, guard, accidents>>

\* ... and writes to those of the ids that are in the Map of its own process.
SendLoop(p) ==
    /\ sender[p].at = "loop"
    /\ reached' = [reached EXCEPT ![p] = sender[p].ids \cap clients[p]]
    /\ sender' = [sender EXCEPT ![p] = Idle]
    /\ UNCHANGED <<now, list, conn, session, valid, clients, handlers, guard, accidents>>

\* sendToAll writes to every socket in the Map, without an await.
SendToAll(p) ==
    /\ sender[p].at = "idle"
    /\ reached' = [reached EXCEPT ![p] = clients[p]]
    /\ UNCHANGED <<now, list, conn, session, valid, clients, handlers, guard, sender, accidents>>

\* A server process dies: no handleDisconnect runs for the sockets it had.
Crash(p) ==
    LET mine == {s \in Sockets : Home[s] = p}
        Kill(f) == [s \in Sockets |-> IF s \in mine /\ f[s] \in {"get", "set"} THEN "failed" ELSE f[s]]
    IN  /\ \E s \in mine : conn[s] = "open" \/ "failed" \in {Kill(reg)[s], Kill(unreg)[s]}
        /\ conn' = [s \in Sockets |-> IF s \in mine /\ conn[s] = "open" THEN "closed" ELSE conn[s]]
        /\ clients' = [clients EXCEPT ![p] = {}]
        /\ reg' = Kill(reg) /\ unreg' = Kill(unreg)
        /\ guard' = guard \ mine
        /\ sender' = [sender EXCEPT ![p] = Idle]
        /\ reached' = [reached EXCEPT ![p] = {}]
        /\ left' = left \cup {s \in mine : conn[s] = "open" \/ unreg[s] \in {"get", "set"}}
        /\ UNCHANGED <<now, list, session, valid, regIds, unregIds, lost>>

\* Redis drops a list that nobody rewrote for an hour.
Tick ==
    /\ now < MaxTime
    /\ now' = now + 1
    /\ lost' = lost \cup {s \in Sockets : s \in Listed(Owner[s]) /\ ~Live(list[Owner[s]], now + 1)}
    /\ UNCHANGED <<list, conn, session, valid, clients, handlers, guard, sending, left>>

Next ==
    \/ \E s \in Sockets :
          \/ Connect(s) \/ Refuse(s) \/ RegisterGet(s) \/ RegisterSet(s)
          \/ Disconnect(s) \/ UnregisterGet(s) \/ UnregisterSet(s) \/ HandlerFails(s)
          \/ Message(s) \/ GuardResolves(s) \/ GuardRejects(s) \/ SessionEnds(s)
    \/ \E p \in Senders : SendLoop(p) \/ SendToAll(p) \/ \E u \in Users : SendGet(p, u)
    \/ \E p \in Processes : Crash(p)
    \/ Tick

Spec == Init /\ [][Next]_vars
-----------------------------------------------------------------------------
(* The Map of a process holds exactly the open sockets of that process,    *)
(* whatever the order in which connect and disconnect handlers run: no     *)
(* closed socket is left behind in it and no open one is missing.          *)
MapExact ==
    \A p \in Processes : clients[p] = {s \in Sockets : Home[s] = p /\ conn[s] = "open"}

(* What goes wrong with the list of a user in Redis goes wrong for the     *)
(* socket it befell and for no other of the user's.  A registered socket   *)
(* is on the list unless its own registration was written while another    *)
(* handler held an older copy, or the list ran out under it.  An id on the *)
(* list is that of a registered socket unless that very socket went while  *)
(* another handler held a copy, or by a failed call, by a crash of its     *)
(* process, or after a guarded message had replaced its session by null.   *)
RegistryExact ==
    \A s \in Sockets :
        /\ s \in Registered(Owner[s]) \ lost => s \in Listed(Owner[s])
        /\ s \in Listed(Owner[s]) \ left => s \in Registered(Owner[s])

(* A sendTo reaches every socket of the user on its own process that was   *)
(* registered when it began, and not lost by then, and is still open: no   *)
(* accident of another socket, and none between its read and its loop,     *)
(* keeps the message from it.                                              *)
SendReachesLocal ==
    [][\A p \in Processes :
          sender[p].at = "loop" /\ sender'[p].at = "idle" /\ clients'[p] = clients[p]
          => sender[p].due \cap clients[p] \subseteq reached'[p]]_vars

(* However stale its list, a sendTo writes to open sockets only: the ids   *)
(* that were left behind in Redis reach nobody.                            *)
SendReachesOnlyOpen ==
    [][\A p \in Processes :
          reached'[p] # reached[p] => \A s \in reached'[p] : conn[s] = "open"]_vars
=============================================================================
