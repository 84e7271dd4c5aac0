------------------------- MODULE SocketGatewayProofs ------------------------
(***************************************************************************)
(* The Map of a process is exact for any number of sockets and processes,  *)
(* and the Redis list of a user agrees with every socket of that user that *)
(* nothing befell.  The argument: a copy that a handler holds between its  *)
(* read and its write agrees with every socket but the handler's own       *)
(* (CopiesFresh), since a socket that registers or goes meanwhile is       *)
(* marked; so the write of the copy makes the list agree again.            *)
(***************************************************************************)
EXTENDS SocketGateway, TLAPS

\* s belongs on the list of its user, and what it takes for a set of ids to be
\* right about s.
In(s) == reg[s] = "done" /\ (conn[s] = "open" \/ unreg[s] \in {"get", "set"})
Agrees(s, ids) ==
    /\ In(s) /\ s \notin lost => s \in ids
    /\ s \in ids /\ s \notin left => In(s)

\* The states that a socket's two handlers go through.
Lifecycle ==
    \A s \in Sockets :
        /\ conn[s] = "new" => reg[s] = "none"
        /\ conn[s] # "closed" => unreg[s] = "none"
        /\ conn[s] = "open" \/ unreg[s] # "none" => reg[s] # "none"
        /\ reg[s] \in {"get", "set"} => conn[s] = "open" \/ unreg[s] # "none"
        /\ reg[s] \in {"get", "set"} /\ unreg[s] \in {"done", "failed"} => s \in left
        /\ unreg[s] = "set" => reg[s] = "done"

\* Only ids of sockets that have registered get onto the list or into a copy,
\* and only into those of their user; a handler's copy is right about itself.
IdsKnown ==
    \A s \in Sockets :
        /\ \A u \in Users : s \in Listed(u) => Owner[s] = u /\ reg[s] = "done"
        /\ reg[s] = "set" => s \in regIds[s]
        /\ unreg[s] = "set" => s \notin unregIds[s]
        /\ \A t \in Sockets \ {s} :
              /\ reg[t] = "set" /\ s \in regIds[t] => Owner[s] = Owner[t] /\ reg[s] = "done"
              /\ unreg[t] = "set" /\ s \in unregIds[t] => Owner[s] = Owner[t] /\ reg[s] = "done"

\* What a handler will write is right about every other socket of the user.
CopiesFresh ==
    \A t \in Sockets : \A s \in Sockets \ {t} : Owner[s] = Owner[t] =>
        /\ reg[t] = "set" => Agrees(s, regIds[t])
        /\ unreg[t] = "set" => Agrees(s, unregIds[t])

ListAgrees == \A s \in Sockets : Agrees(s, Listed(Owner[s]))

GatewayInv == TypeOK /\ MapExact /\ Lifecycle /\ IdsKnown /\ CopiesFresh /\ ListAgrees
-----------------------------------------------------------------------------
LEMMA InitInv == Init => GatewayInv
  <1> USE GatewayAssumption
  <1> SUFFICES ASSUME Init PROVE GatewayInv
    OBVIOUS
  <1>1. TypeOK
    BY DEF Init, TypeOK, Awaits, Entries, Absent, Idle
  <1>2. \A u \in Users : Listed(u) = {}
    BY DEF Init, Listed, Get, Live, Never, Absent
  <1>3. MapExact /\ Lifecycle
    BY DEF Init, MapExact, Lifecycle
  <1>4. IdsKnown
    BY <1>2 DEF Init, IdsKnown
  <1>5. CopiesFresh /\ ListAgrees
    BY <1>2 DEF Init, CopiesFresh, ListAgrees, Agrees, In
  <1> QED BY <1>1, <1>3, <1>4, <1>5 DEF GatewayInv

\* A list that has just been written is read back as written.
LEMMA SetThenGet ==
    ASSUME NEW v, NEW n \in Nat, NEW u
    PROVE  Get(Set(v, Hour, n), n, u) = v
  BY GatewayAssumption DEF Get, Set, Live, Never, NoTtl

\* A step that writes no list, starts no copy and registers nobody keeps every
\* set of ids right, if it marks each socket that goes.
LEMMA Quiet ==
    ASSUME IdsKnown, CopiesFresh, ListAgrees,
           Owner \in [Sockets -> Users],
           \A u \in Users : Listed(u)' = Listed(u),
           lost \subseteq lost', left \subseteq left',
           UNCHANGED <<regIds, unregIds>>,
           \A s \in Sockets : /\ reg'[s] = "set" => reg[s] = "set"
                              /\ unreg'[s] = "set" => unreg[s] = "set"
                              /\ reg[s] = "done" => reg'[s] = "done"
                              /\ In(s)' => In(s)
                              /\ In(s) /\ ~In(s)' => s \in left'
    PROVE  IdsKnown' /\ CopiesFresh' /\ ListAgrees'
  <1>1. IdsKnown'
    BY DEF IdsKnown
  <1>2. \A s \in Sockets : Agrees(s, Listed(Owner[s])) => Agrees(s, Listed(Owner[s]))'
    BY DEF Agrees
  <1>3. ListAgrees'
    BY <1>2 DEF ListAgrees
  <1>4. \A s, t \in Sockets : /\ Agrees(s, regIds[t]) => Agrees(s, regIds[t])'
                              /\ Agrees(s, unregIds[t]) => Agrees(s, unregIds[t])'
    BY DEF Agrees
  <1>5. CopiesFresh'
    BY <1>4 DEF CopiesFresh
  <1> QED BY <1>1, <1>3, <1>5

LEMMA StepInv == GatewayInv /\ [Next]_vars => GatewayInv'
  <1> USE GatewayAssumption
  <1> SUFFICES ASSUME GatewayInv, [Next]_vars PROVE GatewayInv'
    OBVIOUS
  <1> USE DEF GatewayInv, handlers, sending, accidents
  <1>0. \A s \in Sockets : Owner[s] \in Users /\ Home[s] \in Processes
    OBVIOUS
  <1>1. ASSUME NEW s \in Sockets, Connect(s) \/ Refuse(s) PROVE GatewayInv'
    <2> USE <1>1 DEF Connect, Refuse
    <2>1. TypeOK'
      <3>1. clients' \in [Processes -> SUBSET Sockets]
        <4>1. clients \in [Processes -> SUBSET Sockets]
          BY DEF TypeOK
        <4>2. clients' = clients \/ clients' = [clients EXCEPT ![Home[s]] = @ \cup {s}]
          OBVIOUS
        <4>3. clients[Home[s]] \cup {s} \in SUBSET Sockets
          BY <1>0, <4>1
        <4> QED BY <4>1, <4>2, <4>3
      <3>2. conn' \in [Sockets -> {"new", "open", "closed"}] /\ reg' \in [Sockets -> Awaits]
        BY DEF TypeOK, Awaits
      <3> QED BY <3>1, <3>2 DEF TypeOK
    <2>2. MapExact'
      BY DEF MapExact, TypeOK
    <2>3. Lifecycle'
      BY DEF Lifecycle, TypeOK
    <2>4. \A t \in Sockets : /\ reg'[t] = reg[t] \/ (t = s /\ reg[t] = "none" /\ reg'[t] = "get")
                             /\ conn'[t] = conn[t] \/ t = s
      BY DEF Lifecycle, TypeOK
    <2>5. \A t \in Sockets : In(t)' <=> In(t)
      BY <2>4 DEF In, Lifecycle, TypeOK
    <2>6. \A u \in Users : Listed(u)' = Listed(u)
      BY DEF Listed
    <2>7. IdsKnown' /\ CopiesFresh' /\ ListAgrees'
      BY <2>4, <2>5, <2>6, Quiet
    <2> QED BY <2>1, <2>2, <2>3, <2>7
  <1>2. ASSUME NEW s \in Sockets, RegisterGet(s) PROVE GatewayInv'
    <2> USE <1>2 DEF RegisterGet
    <2>0. Owner[s] \in Users /\ Listed(Owner[s]) \subseteq Sockets
      BY DEF Listed, Get, TypeOK, Entries
    <2>1. TypeOK'
      BY <2>0 DEF TypeOK, Awaits
    <2>2. MapExact' /\ Lifecycle'
      BY DEF MapExact, Lifecycle, TypeOK
    <2>3. \A t \in Sockets : /\ t # s => reg'[t] = reg[t] /\ regIds'[t] = regIds[t]
                             /\ reg[t] = "done" <=> reg'[t] = "done"
      BY DEF TypeOK
    <2>4. regIds'[s] = Listed(Owner[s]) \cup {s} /\ reg'[s] = "set" /\ reg[s] = "get"
      BY DEF TypeOK
    <2>5. \A t \in Sockets : In(t)' <=> In(t)
      BY <2>3 DEF In
    <2>6. \A u \in Users : Listed(u)' = Listed(u)
      BY DEF Listed
    <2>7. IdsKnown'
      BY <2>0, <2>3, <2>4, <2>6 DEF IdsKnown
    <2>8. ListAgrees'
      BY <1>0, <2>5, <2>6 DEF ListAgrees, Agrees
    <2>9. CopiesFresh'
      <3>1. \A t \in Sockets \ {s} : Owner[t] = Owner[s] => Agrees(t, regIds[s])'
        BY <1>0, <2>0, <2>4, <2>5 DEF ListAgrees, Agrees
      <3>2. \A t \in Sockets \ {s} : \A x \in Sockets : Agrees(x, regIds[t]) => Agrees(x, regIds[t])'
        BY <2>3, <2>5 DEF Agrees
      <3>3. \A t \in Sockets : \A x \in Sockets : Agrees(x, unregIds[t]) => Agrees(x, unregIds[t])'
        BY <2>5 DEF Agrees
      <3> QED BY <2>3, <3>1, <3>2, <3>3 DEF CopiesFresh, Agrees
    <2> QED BY <2>1, <2>2, <2>7, <2>8, <2>9
  <1>3. ASSUME NEW s \in Sockets, RegisterSet(s) PROVE GatewayInv'
    <2> USE <1>3 DEF RegisterSet
    <2>0. Owner[s] \in Users /\ unreg[s] # "set"
      BY DEF Lifecycle
    <2>1. TypeOK'
      BY <2>0 DEF TypeOK, Awaits, Entries, Set, Never
    <2>2. MapExact' /\ Lifecycle'
      BY DEF MapExact, Lifecycle, TypeOK
    <2>3. \A u \in Users : Listed(u)' = IF u = Owner[s] THEN regIds[s] ELSE Listed(u)
      BY <2>0, SetThenGet DEF Listed, TypeOK
    <2>4. \A t \in Sockets : /\ t # s => reg'[t] = reg[t]
                             /\ reg[t] = "done" => reg'[t] = "done"
      BY DEF TypeOK
    <2>5. reg'[s] = "done" /\ s \in regIds[s]
      BY DEF TypeOK, IdsKnown
    <2>6. \A t \in Sockets : t # s => (In(t)' <=> In(t))
      BY <2>4 DEF In
    <2>7. IdsKnown'
      <3>1. \A t \in Sockets, u \in Users : t \in Listed(u)' => Owner[t] = u /\ reg'[t] = "done"
        BY <2>3, <2>4, <2>5 DEF IdsKnown
      <3> QED BY <2>4, <2>5, <3>1 DEF IdsKnown
    <2>8. lost \subseteq lost' /\ (PendingBeside(s) => s \in lost')
      OBVIOUS
    <2>9. s \in left' \/ In(s)'
      BY <2>5 DEF Lifecycle, In, TypeOK, Awaits
    <2>10. ListAgrees'
      <3>1. \A t \in Sockets \ {s} : Owner[t] = Owner[s] => Agrees(t, Listed(Owner[t]))'
        BY <2>0, <2>3, <2>6, <2>8 DEF CopiesFresh, Agrees
      <3>2. Agrees(s, Listed(Owner[s]))'
        BY <2>0, <2>3, <2>5, <2>9 DEF Agrees
      <3>3. \A t \in Sockets : Owner[t] # Owner[s] => Agrees(t, Listed(Owner[t]))'
        BY <1>0, <2>3, <2>6, <2>8 DEF ListAgrees, Agrees
      <3> QED BY <3>1, <3>2, <3>3 DEF ListAgrees
    <2>11. CopiesFresh'
      <3> SUFFICES ASSUME NEW t \in Sockets, NEW x \in Sockets \ {t}, Owner[x] = Owner[t]
                   PROVE  /\ reg'[t] = "set" => Agrees(x, regIds[t])'
                          /\ unreg'[t] = "set" => Agrees(x, unregIds[t])'
        BY DEF CopiesFresh
      <3>1. CASE x # s
        BY <2>4, <2>5, <2>6, <2>8, <3>1 DEF CopiesFresh, Agrees
      <3>2. CASE x = s
        <4>1. reg'[t] = "set" \/ unreg'[t] = "set" => s \in lost'
          BY <2>4, <2>8, <3>2 DEF PendingBeside
        <4>2. /\ reg'[t] = "set" => s \notin regIds[t]
              /\ unreg'[t] = "set" => s \notin unregIds[t]
          BY <2>4, <3>2 DEF IdsKnown
        <4> QED BY <3>2, <4>1, <4>2 DEF Agrees
      <3> QED BY <3>1, <3>2
    <2> QED BY <2>1, <2>2, <2>7, <2>10, <2>11
  <1>4. ASSUME NEW s \in Sockets, conn[s] = "open", StartUnregister(s),
               UNCHANGED <<now, list, session, valid, reg, regIds, unregIds, sending>>,
               guard' \subseteq Sockets
        PROVE GatewayInv'
    <2> USE <1>4 DEF StartUnregister
    <2>1. TypeOK'
      BY DEF TypeOK, Awaits
    <2>2. MapExact'
      BY DEF MapExact, TypeOK
    <2>3. Lifecycle'
      BY DEF Lifecycle, TypeOK
    <2>4. \A t \in Sockets : t # s => unreg'[t] = unreg[t] /\ conn'[t] = conn[t]
      BY DEF TypeOK
    <2>5. unreg'[s] = "get" \/ (unreg'[s] = "done" /\ s \in left')
      BY DEF TypeOK
    <2>6. \A t \in Sockets : /\ In(t)' => In(t)
                             /\ In(t) /\ ~In(t)' => t \in left'
      BY <2>4, <2>5 DEF In
    <2>7. \A u \in Users : Listed(u)' = Listed(u)
      BY DEF Listed
    <2>8. left \subseteq left' /\ \A t \in Sockets : unreg'[t] = "set" => unreg[t] = "set"
      BY <2>4, <2>5
    <2>9. IdsKnown' /\ CopiesFresh' /\ ListAgrees'
      BY <2>6, <2>7, <2>8, Quiet
    <2> QED BY <2>1, <2>2, <2>3, <2>9
  <1>5. ASSUME NEW s \in Sockets, UnregisterGet(s) PROVE GatewayInv'
    <2> USE <1>5 DEF UnregisterGet
    <2>0. Owner[s] \in Users /\ Listed(Owner[s]) \subseteq Sockets
      BY DEF Listed, Get, TypeOK, Entries
    <2>1. TypeOK'
      <3>1. unreg' \in [Sockets -> Awaits] /\ unregIds' \in [Sockets -> SUBSET Sockets]
        <4>1. unreg \in [Sockets -> Awaits] /\ unregIds \in [Sockets -> SUBSET Sockets]
          BY DEF TypeOK
        <4>2. Listed(Owner[s]) \ {s} \in SUBSET Sockets
          BY <2>0
        <4> QED BY <4>1, <4>2 DEF Awaits
      <3>2. left' \subseteq Sockets
        BY DEF TypeOK
      <3> QED BY <3>1, <3>2 DEF TypeOK
    <2>2. MapExact'
      BY DEF MapExact
    <2>3. \A u \in Users : Listed(u)' = Listed(u)
      BY DEF Listed
    <2>4. \A t \in Sockets : t # s => unreg'[t] = unreg[t] /\ unregIds'[t] = unregIds[t]
      BY DEF TypeOK
    <2>5. CASE s \in Listed(Owner[s])
      <3>1. /\ unreg'[s] = "set" /\ unregIds'[s] = Listed(Owner[s]) \ {s}
            /\ left' = left /\ reg[s] = "done"
        BY <2>0, <2>5 DEF TypeOK, IdsKnown
      <3>2. Lifecycle'
        BY <2>4, <3>1 DEF Lifecycle
      <3>3. \A t \in Sockets : In(t)' <=> In(t)
        BY <2>4, <3>1 DEF In
      <3>4. IdsKnown'
        BY <2>0, <2>3, <2>4, <3>1 DEF IdsKnown
      <3>5. ListAgrees'
        BY <1>0, <2>3, <3>1, <3>3 DEF ListAgrees, Agrees
      <3>6. CopiesFresh'
        <4>1. \A t \in Sockets \ {s} : Owner[t] = Owner[s] => Agrees(t, unregIds[s])'
          BY <1>0, <2>0, <3>1, <3>3 DEF ListAgrees, Agrees
        <4>2. \A t \in Sockets \ {s} : \A x \in Sockets : Agrees(x, unregIds[t]) => Agrees(x, unregIds[t])'
          BY <2>4, <3>1, <3>3 DEF Agrees
        <4>3. \A t \in Sockets : \A x \in Sockets : Agrees(x, regIds[t]) => Agrees(x, regIds[t])'
          BY <3>1, <3>3 DEF Agrees
        <4> QED BY <2>4, <4>1, <4>2, <4>3 DEF CopiesFresh, Agrees
      <3> QED BY <2>1, <2>2, <3>2, <3>4, <3>5, <3>6
    <2>6. CASE s \notin Listed(Owner[s])
      <3>1. /\ unreg'[s] = "done" /\ unregIds' = unregIds /\ left \subseteq left'
            /\ reg[s] = "set" \/ PendingBeside(s) => s \in left'
        BY <2>6 DEF TypeOK
      <3>2. Lifecycle'
        BY <2>4, <3>1 DEF Lifecycle
      <3>3. \A t \in Sockets : t # s => (In(t)' <=> In(t))
        BY <2>4 DEF In
      <3>4. ~In(s)'
        BY <3>1 DEF In, Lifecycle, TypeOK
      <3>5. \A t \in Sockets : unreg'[t] = "set" => unreg[t] = "set" /\ t # s
        BY <2>4, <3>1
      <3>6. IdsKnown'
        BY <2>3, <3>1, <3>5 DEF IdsKnown
      <3>7. ListAgrees'
        <4>1. \A t \in Sockets \ {s} : Agrees(t, Listed(Owner[t]))'
          BY <1>0, <2>3, <3>1, <3>3 DEF ListAgrees, Agrees
        <4>2. Agrees(s, Listed(Owner[s]))'
          BY <2>0, <2>3, <2>6, <3>4 DEF Agrees
        <4> QED BY <4>1, <4>2 DEF ListAgrees
      <3>8. CopiesFresh'
        <4> SUFFICES ASSUME NEW t \in Sockets, NEW x \in Sockets \ {t}, Owner[x] = Owner[t]
                     PROVE  /\ reg'[t] = "set" => Agrees(x, regIds[t])'
                            /\ unreg'[t] = "set" => Agrees(x, unregIds[t])'
          BY DEF CopiesFresh
        <4>1. CASE x # s
          BY <3>1, <3>3, <3>5, <4>1 DEF CopiesFresh, Agrees
        <4>2. CASE x = s
          <5>1. reg'[t] = "set" \/ unreg'[t] = "set" => s \in left'
            BY <3>1, <3>5, <4>2 DEF PendingBeside
          <5> QED BY <3>4, <4>2, <5>1 DEF Agrees
        <4> QED BY <4>1, <4>2
      <3> QED BY <2>1, <2>2, <3>2, <3>6, <3>7, <3>8
    <2> QED BY <2>5, <2>6
  <1>6. ASSUME NEW s \in Sockets, UnregisterSet(s) PROVE GatewayInv'
    <2> USE <1>6 DEF UnregisterSet
    <2>0. Owner[s] \in Users /\ reg[s] = "done" /\ conn[s] = "closed" /\ s \notin unregIds[s]
      BY DEF Lifecycle, IdsKnown, TypeOK
    <2>1. TypeOK'
      BY <2>0 DEF TypeOK, Awaits, Entries, Set, Never
    <2>2. MapExact'
      BY DEF MapExact
    <2>3. Lifecycle'
      BY <2>0 DEF Lifecycle, TypeOK
    <2>4. \A u \in Users : Listed(u)' = IF u = Owner[s] THEN unregIds[s] ELSE Listed(u)
      BY <2>0, SetThenGet DEF Listed, TypeOK
    <2>5. /\ \A t \in Sockets : t # s => unreg'[t] = unreg[t]
          /\ unreg'[s] = "done"
      BY DEF TypeOK
    <2>6. \A t \in Sockets : t # s => (In(t)' <=> In(t))
      BY <2>5 DEF In
    <2>7. ~In(s)'
      BY <2>0, <2>5 DEF In
    <2>8. left \subseteq left' /\ (PendingBeside(s) => s \in left')
      OBVIOUS
    <2>9. IdsKnown'
      BY <2>0, <2>4, <2>5 DEF IdsKnown
    <2>10. ListAgrees'
      <3>1. \A t \in Sockets \ {s} : Owner[t] = Owner[s] => Agrees(t, Listed(Owner[t]))'
        BY <2>0, <2>4, <2>6, <2>8 DEF CopiesFresh, Agrees
      <3>2. Agrees(s, Listed(Owner[s]))'
        BY <2>0, <2>4, <2>7 DEF Agrees
      <3>3. \A t \in Sockets : Owner[t] # Owner[s] => Agrees(t, Listed(Owner[t]))'
        BY <1>0, <2>4, <2>6, <2>8 DEF ListAgrees, Agrees
      <3> QED BY <3>1, <3>2, <3>3 DEF ListAgrees
    <2>11. CopiesFresh'
      <3> SUFFICES ASSUME NEW t \in Sockets, NEW x \in Sockets \ {t}, Owner[x] = Owner[t]
                   PROVE  /\ reg'[t] = "set" => Agrees(x, regIds[t])'
                          /\ unreg'[t] = "set" => Agrees(x, unregIds[t])'
        BY DEF CopiesFresh
      <3>1. CASE x # s
        BY <2>5, <2>6, <2>8, <3>1 DEF CopiesFresh, Agrees
      <3>2. CASE x = s
        <4>1. reg'[t] = "set" \/ unreg'[t] = "set" => s \in left'
          BY <2>5, <2>8, <3>2 DEF PendingBeside
        <4> QED BY <2>7, <3>2, <4>1 DEF Agrees
      <3> QED BY <3>1, <3>2
    <2> QED BY <2>1, <2>2, <2>3, <2>9, <2>10, <2>11
  <1>7. ASSUME NEW s \in Sockets, HandlerFails(s) PROVE GatewayInv'
    <2> USE <1>7 DEF HandlerFails
    <2>1. TypeOK'
      <3>1. reg' \in [Sockets -> Awaits] /\ unreg' \in [Sockets -> Awaits]
        <4>1. reg \in [Sockets -> Awaits] /\ unreg \in [Sockets -> Awaits]
          BY DEF TypeOK
        <4> QED BY <4>1 DEF Awaits
      <3>2. left' \subseteq Sockets
        BY DEF TypeOK
      <3> QED BY <3>1, <3>2 DEF TypeOK
    <2>2. MapExact'
      BY DEF MapExact
    <2>3. \A t \in Sockets :
              /\ reg'[t] = reg[t] \/ (reg[t] \in {"get", "set"} /\ reg'[t] = "failed")
              /\ unreg'[t] = unreg[t] \/ (unreg[t] \in {"get", "set"} /\ unreg'[t] = "failed" /\ t \in left')
      BY DEF TypeOK
    <2>4. left \subseteq left'
      OBVIOUS
    <2>5. Lifecycle'
      BY <2>3, <2>4 DEF Lifecycle
    <2>6. \A t \in Sockets : /\ In(t)' => In(t)
                             /\ In(t) /\ ~In(t)' => t \in left'
      BY <2>3 DEF In
    <2>7. \A u \in Users : Listed(u)' = Listed(u)
      BY DEF Listed
    <2>8. IdsKnown' /\ CopiesFresh' /\ ListAgrees'
      BY <2>3, <2>4, <2>6, <2>7, Quiet
    <2> QED BY <2>1, <2>2, <2>5, <2>8
  \* The steps that leave the registry alone.
  <1>8. ASSUME UNCHANGED <<now, list, conn, clients, reg, regIds, unreg, unregIds, lost, left>>, TypeOK'
        PROVE GatewayInv'
    <2>1. MapExact' /\ Lifecycle'
      BY <1>8 DEF MapExact, Lifecycle
    <2>2. \A u \in Users : Listed(u)' = Listed(u)
      BY <1>8 DEF Listed
    <2>3. \A s \in Sockets : In(s)' <=> In(s)
      BY <1>8 DEF In
    <2>4. IdsKnown' /\ CopiesFresh' /\ ListAgrees'
      BY <1>8, <2>2, <2>3, Quiet
    <2> QED BY <1>8, <2>1, <2>4
  <1>9. ASSUME NEW s \in Sockets, Message(s) \/ GuardResolves(s) \/ SessionEnds(s) PROVE GatewayInv'
    <2>1. TypeOK'
      BY <1>9 DEF Message, GuardResolves, SessionEnds, TypeOK
    <2> QED BY <1>8, <1>9, <2>1 DEF Message, GuardResolves, SessionEnds
  <1>10. ASSUME NEW p \in Senders, SendLoop(p) \/ SendToAll(p) \/ \E u \in Users : SendGet(p, u)
         PROVE GatewayInv'
    <2>1. \A u \in Users : Listed(u) \subseteq Sockets /\ Due(p, u) \subseteq Sockets
      BY DEF Listed, Get, Due, Registered, TypeOK, Entries
    <2>2. p \in Processes /\ clients[p] \subseteq Sockets /\ sender[p].ids \subseteq Sockets
      BY DEF TypeOK
    <2>3. Idle \in [at : {"idle", "loop"}, ids : SUBSET Sockets, due : SUBSET Sockets]
      BY DEF Idle
    <2>4. TypeOK'
      <3>1. reached' \in [Processes -> SUBSET Sockets]
        BY <1>10, <2>2 DEF SendLoop, SendToAll, SendGet, TypeOK
      <3>2. sender' \in [Processes -> [at : {"idle", "loop"}, ids : SUBSET Sockets, due : SUBSET Sockets]]
        BY <1>10, <2>1, <2>2, <2>3 DEF SendLoop, SendToAll, SendGet, TypeOK
      <3> QED BY <1>10, <3>1, <3>2 DEF SendLoop, SendToAll, SendGet, TypeOK
    <2> QED BY <1>8, <1>10, <2>4 DEF SendLoop, SendToAll, SendGet
  <1>11. ASSUME NEW s \in Sockets, Disconnect(s) \/ GuardRejects(s) PROVE GatewayInv'
    <2>1. CASE Disconnect(s) \/ (GuardRejects(s) /\ conn[s] = "open")
      BY <1>4, <2>1 DEF Disconnect, GuardRejects, TypeOK
    <2>2. CASE GuardRejects(s) /\ conn[s] # "open"
      <3>1. TypeOK'
        BY <2>2 DEF GuardRejects, TypeOK
      <3> QED BY <1>8, <2>2, <3>1 DEF GuardRejects
    <2> QED BY <1>11, <2>1, <2>2
  <1>12. ASSUME NEW p \in Processes, Crash(p) PROVE GatewayInv'
    <2> USE <1>12 DEF Crash
    <2>1. TypeOK'
      <3>1. Idle \in [at : {"idle", "loop"}, ids : SUBSET Sockets, due : SUBSET Sockets]
        BY DEF Idle
      <3>2. sender' \in [Processes -> [at : {"idle", "loop"}, ids : SUBSET Sockets, due : SUBSET Sockets]]
        BY <3>1 DEF TypeOK
      <3>3. reg' \in [Sockets -> Awaits] /\ unreg' \in [Sockets -> Awaits]
        BY DEF TypeOK, Awaits
      <3>4. conn' \in [Sockets -> {"new", "open", "closed"}]
        BY DEF TypeOK
      <3>5. left' \subseteq Sockets /\ guard' \subseteq Sockets
        BY DEF TypeOK
      <3>6. clients' \in [Processes -> SUBSET Sockets] /\ reached' \in [Processes -> SUBSET Sockets]
        BY DEF TypeOK
      <3> QED BY <3>2, <3>3, <3>4, <3>5, <3>6 DEF TypeOK
    <2>2. MapExact'
      BY DEF MapExact, TypeOK
    <2>3. left \subseteq left'
      OBVIOUS
    <2>4. \A s \in Sockets :
              /\ reg'[s] = reg[s] \/ (reg[s] \in {"get", "set"} /\ reg'[s] = "failed")
              /\ unreg'[s] = unreg[s] \/ (unreg[s] \in {"get", "set"} /\ unreg'[s] = "failed" /\ s \in left')
              /\ conn'[s] = conn[s] \/ (conn[s] = "open" /\ conn'[s] = "closed" /\ s \in left'
                                        /\ reg'[s] \notin {"get", "set"})
      BY DEF TypeOK
    <2>5. Lifecycle'
      BY <2>3, <2>4 DEF Lifecycle, TypeOK
    <2>6. \A s \in Sockets : /\ In(s)' => In(s)
                             /\ In(s) /\ ~In(s)' => s \in left'
      BY <2>4 DEF In
    <2>7. \A u \in Users : Listed(u)' = Listed(u)
      BY DEF Listed
    <2>8. IdsKnown' /\ CopiesFresh' /\ ListAgrees'
      BY <2>3, <2>4, <2>6, <2>7, Quiet
    <2> QED BY <2>1, <2>2, <2>5, <2>8
  <1>13. CASE Tick
    <2> USE <1>13 DEF Tick
    <2>1. TypeOK'
      <3>1. now' \in Nat \ {0} /\ lost' \subseteq Sockets
        BY DEF TypeOK
      <3> QED BY <3>1 DEF TypeOK
    <2>2. \A u \in Users : Listed(u)' = Listed(u) \/ (Listed(u)' = {} /\ ~Live(list[u], now + 1))
      <3> SUFFICES ASSUME NEW u \in Users, Live(list[u], now + 1)
                   PROVE Listed(u)' = Listed(u)
        BY DEF Listed, Get
      <3>1. list[u].expiresAt \in Int /\ now \in Int
        BY DEF TypeOK, Entries, Never
      <3>2. Live(list[u], now)
        BY <3>1 DEF Live
      <3> QED BY <3>2 DEF Listed, Get
    <2>3. \A s \in Sockets : In(s)' <=> In(s)
      BY DEF In
    <2>4. lost \subseteq lost'
      OBVIOUS
    <2>5. MapExact' /\ Lifecycle'
      BY DEF MapExact, Lifecycle
    <2>6. IdsKnown'
      BY <2>2 DEF IdsKnown
    <2>7. CopiesFresh'
      BY <2>3, <2>4 DEF CopiesFresh, Agrees
    <2>8. ListAgrees'
      <3> SUFFICES ASSUME NEW s \in Sockets PROVE Agrees(s, Listed(Owner[s]))'
        BY DEF ListAgrees
      <3>1. Agrees(s, Listed(Owner[s]))
        BY DEF ListAgrees
      <3>2. CASE Listed(Owner[s])' = Listed(Owner[s])
        BY <2>3, <2>4, <3>1, <3>2 DEF Agrees
      <3>3. CASE Listed(Owner[s])' = {} /\ ~Live(list[Owner[s]], now + 1)
        <4>1. s \in Listed(Owner[s]) => s \in lost'
          BY <3>3
        <4> QED BY <2>3, <2>4, <3>1, <3>3, <4>1 DEF Agrees
      <3> QED BY <1>0, <2>2, <3>2, <3>3
    <2> QED BY <2>1, <2>5, <2>6, <2>7, <2>8
  <1>14. CASE UNCHANGED vars
    <2>1. TypeOK'
      BY <1>14 DEF vars, TypeOK
    <2> QED BY <1>8, <1>14, <2>1 DEF vars
  <1> QED
    BY <1>1, <1>2, <1>3, <1>5, <1>6, <1>7, <1>9, <1>10, <1>11, <1>12, <1>13, <1>14 DEF Next

LEMMA Invariance == Spec => []GatewayInv
  BY InitInv, StepInv, PTL DEF Spec

(* Type correctness of the gateway's state.                                *)
THEOREM TypeCorrect == Spec => []TypeOK
  <1>1. GatewayInv => TypeOK
    BY DEF GatewayInv
  <1> QED BY <1>1, Invariance, PTL

(* The Map of each process holds its open sockets and no others, however   *)
(* handleConnection and handleDisconnect interleave.                       *)
THEOREM MapIsExact == Spec => []MapExact
  <1>1. GatewayInv => MapExact
    BY DEF GatewayInv
  <1> QED BY <1>1, Invariance, PTL

(* The Redis list of a user is right about every socket that none of the   *)
(* named accidents befell, whatever befell the user's other sockets.       *)
THEOREM ListIsExact == Spec => []RegistryExact
  <1>1. GatewayInv => RegistryExact
    BY GatewayAssumption DEF GatewayInv, ListAgrees, Agrees, In, RegistryExact, Registered
  <1> QED BY <1>1, Invariance, PTL

(* No sendTo and no sendToAll writes to a closed socket.                   *)
THEOREM OnlyOpenReached == Spec => SendReachesOnlyOpen
  <1>1. GatewayInv /\ [Next]_vars =>
          [\A p \in Processes :
              reached'[p] # reached[p] => \A s \in reached'[p] : conn[s] = "open"]_vars
    <2> SUFFICES ASSUME GatewayInv, [Next]_vars, NEW p \in Processes, reached'[p] # reached[p],
                        NEW s \in reached'[p]
                 PROVE conn[s] = "open"
      OBVIOUS
    <2>1. \A q \in Processes : \A t \in clients[q] : conn[t] = "open"
      BY DEF GatewayInv, MapExact
    <2>2. ~UNCHANGED reached
      OBVIOUS
    <2>3. reached'[p] \subseteq clients[p] \/ reached'[p] = {}
      BY <2>2, GatewayAssumption
         DEF Next, vars, handlers, sending, GatewayInv, TypeOK, Connect, Refuse, RegisterGet, RegisterSet,
             Disconnect, UnregisterGet, UnregisterSet, HandlerFails, Message, GuardResolves,
             GuardRejects, SessionEnds, accidents, SendGet, SendLoop, SendToAll, Crash, Tick
    <2> QED BY <2>1, <2>3
  <1> QED BY <1>1, Invariance, PTL DEF Spec, SendReachesOnlyOpen

\* What a sendTo will reach was on the list it read.
SendsListed ==
    \A p \in Processes : sender[p].at = "loop" => sender[p].due \subseteq sender[p].ids

LEMMA SendsInv == GatewayInv /\ SendsListed /\ [Next]_vars => SendsListed'
  <1> SUFFICES ASSUME GatewayInv, SendsListed, [Next]_vars PROVE SendsListed'
    OBVIOUS
  <1>1. CASE sender' = sender
    BY <1>1 DEF SendsListed
  <1>2. ASSUME NEW p \in Processes, sender' = [sender EXCEPT ![p] = Idle]
        PROVE SendsListed'
    BY <1>2 DEF SendsListed, Idle, GatewayInv, TypeOK
  <1>3. ASSUME NEW p \in Processes, NEW u \in Users, SendGet(p, u) PROVE SendsListed'
    <2>1. Due(p, u) \subseteq Listed(u)
      BY DEF GatewayInv, ListAgrees, Agrees, In, Due, Registered
    <2>2. \A q \in Processes : sender'[q] =
            IF q = p THEN [at |-> "loop", ids |-> Listed(u), due |-> Due(p, u)] ELSE sender[q]
      BY <1>3 DEF SendGet, GatewayInv, TypeOK
    <2> QED BY <2>1, <2>2 DEF SendsListed
  <1>4. ASSUME NEW s \in Sockets,
               \/ Connect(s) \/ Refuse(s) \/ RegisterGet(s) \/ RegisterSet(s)
               \/ Disconnect(s) \/ UnregisterGet(s) \/ UnregisterSet(s) \/ HandlerFails(s)
               \/ Message(s) \/ GuardResolves(s) \/ GuardRejects(s) \/ SessionEnds(s)
        PROVE sender' = sender
    BY <1>4 DEF Connect, Refuse, RegisterGet, RegisterSet, Disconnect, StartUnregister, UnregisterGet,
                UnregisterSet, HandlerFails, Message, GuardResolves, GuardRejects, SessionEnds, sending
  <1>5. CASE Tick \/ UNCHANGED vars \/ \E p \in Senders : SendToAll(p)
    BY <1>1, <1>5 DEF Tick, vars, sending, SendToAll
  <1>6. ASSUME NEW p \in Processes, SendLoop(p) \/ Crash(p) PROVE SendsListed'
    BY <1>2, <1>6 DEF SendLoop, Crash
  <1> QED BY <1>1, <1>3, <1>4, <1>5, <1>6, GatewayAssumption DEF Next

(* A sendTo reaches every socket on its own process that was registered    *)
(* for the user, and not lost, when it read the list and that is still     *)
(* connected: between the read and the loop the list may change as it      *)
(* likes, and what befell other sockets does not matter.                   *)
THEOREM LocalSocketsReached == Spec => SendReachesLocal
  <1>1. Init => SendsListed
    BY DEF Init, SendsListed, Idle
  <1>2. GatewayInv /\ SendsListed /\ [Next]_vars =>
          [\A p \in Processes :
              sender[p].at = "loop" /\ sender'[p].at = "idle" /\ clients'[p] = clients[p]
              => sender[p].due \cap clients[p] \subseteq reached'[p]]_vars
    <2> SUFFICES ASSUME GatewayInv, SendsListed, Next, NEW p \in Processes,
                        sender[p].at = "loop", sender'[p].at = "idle", clients'[p] = clients[p]
                 PROVE  sender[p].due \cap clients[p] \subseteq reached'[p]
      BY DEF vars
    <2>1. sender'[p] # sender[p]
      OBVIOUS
    <2>2. sender[p].due \subseteq sender[p].ids
      BY DEF SendsListed
    <2>3. SendLoop(p) \/ Crash(p)
      <3>1. \A q \in Processes : SendLoop(q) \/ Crash(q) => q = p
        BY <2>1 DEF SendLoop, Crash, GatewayInv, TypeOK
      <3>2. \A q \in Processes, u \in Users : ~SendGet(q, u)
        BY <2>1 DEF SendGet, GatewayInv, TypeOK
      <3>3. \A q \in Processes : ~SendToAll(q)
        BY <2>1 DEF SendToAll
      <3>4. \A s \in Sockets : ~(\/ Connect(s) \/ Refuse(s) \/ RegisterGet(s) \/ RegisterSet(s)
                                 \/ Disconnect(s) \/ UnregisterGet(s) \/ UnregisterSet(s) \/ HandlerFails(s)
                                 \/ Message(s) \/ GuardResolves(s) \/ GuardRejects(s) \/ SessionEnds(s))
        BY <2>1 DEF Connect, Refuse, RegisterGet, RegisterSet, Disconnect, UnregisterGet,
                    UnregisterSet, HandlerFails, Message, GuardResolves, GuardRejects, SessionEnds, sending
      <3>5. ~Tick
        BY <2>1 DEF Tick, sending
      <3> QED BY <3>1, <3>2, <3>3, <3>4, <3>5, GatewayAssumption DEF Next
    <2>4. CASE SendLoop(p)
      BY <2>2, <2>4 DEF SendLoop, GatewayInv, TypeOK
    <2>5. CASE Crash(p)
      BY <2>5 DEF Crash, GatewayInv, TypeOK
    <2> QED BY <2>3, <2>4, <2>5
  <1>3. GatewayInv /\ SendsListed /\ [Next]_vars => SendsListed'
    BY SendsInv
  <1> QED BY <1>1, <1>2, <1>3, Invariance, PTL DEF Spec, SendReachesLocal
=============================================================================
