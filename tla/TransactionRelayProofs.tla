----------------------- MODULE TransactionRelayProofs -----------------------
(***************************************************************************)
(* The relay's invariants hold for any number of peers, interfaces, table  *)
(* entries and transaction ids.                                            *)
(*                                                                         *)
(* Every step of the relay is a step of HubSessions (or changes none of    *)
(* its variables), so the session invariants carry over and the table's    *)
(* invariants are proved on top of them: a transaction's channel is still  *)
(* bound to its interface because a live binding survives the departure of *)
(* other agents (RebindSlot), and its reliable leg is kept because its own *)
(* channel is a reliable holder.                                           *)
(***************************************************************************)
EXTENDS TransactionRelay, HubSessionsProofs, FiniteSetTheorems

\* No two entries are for one agent.
OnePerAgent ==
    \A e, f \in Occupied(table) : table[e].iface.owner = table[f].iface.owner => e = f

TableTyped == table \in [Entry -> Relayed \cup {FreeEntry}]

\* The inductive invariant of the table.
TableInv ==
    /\ TableTyped
    /\ OnePerAgent
    /\ TransactionsHaveEndpoints
    /\ LeasesCounted

----------------------------------------------------------------------------
(* The relay takes session steps *)

\* A step of the relay is a step of HubSessions, or leaves its variables alone.
LEMMA RelayStepIsSessionStep == [RelayNext]_vars => [Next]_sessionVars
<1> SUFFICES ASSUME [RelayNext]_vars PROVE [Next]_sessionVars
  OBVIOUS
<1>1. CASE SessionNext
  <2>1. CASE \E p \in Clients \cup Agents : connectPeer(p) /\ Quiet
    BY <2>1 DEF Next
  <2>2. CASE \E a \in Agents :
          \/ \E names \in SUBSET Ifaces \ {{}}, dropped \in SUBSET Agents :
                \/ Register(a, names, dropped, {})
                \/ Register(a, names, dropped, Registration(a, names))
          \/ AgentGone(a)
    BY <2>2 DEF Next, AgentNext, Register, AgentGone
  <2>3. CASE \E c \in Clients :
          \/ \E i \in registry, reliable \in OpenModes, k \in Slots, ch \in Channel :
                Open(c, i, reliable, k, ch)
          \/ \E k \in Slots : Close(c, k)
          \/ ClientGone(c)
          \/ \E n \in Names, grant \in Grant : handleAdminAclSet(c, n, grant) /\ Quiet
    BY <2>3, RelayAssumption DEF Next, ClientNext, Open, Close, ClientGone
  <2>4. CASE \E g \in Groups : (openGroupInterface(g) \/ closeGroupInterface(g)) /\ Quiet
    BY <2>4 DEF Next
  <2> QED
    BY <1>1, <2>1, <2>2, <2>3, <2>4 DEF SessionNext
<1>2. CASE TransactionNext
  BY <1>2 DEF TransactionNext, handleTxnBegin, handleTxnAbort, relayTransactionContent,
     handleTxnBeginAck, relayReport, handleTxnStatus, handleInterfaceStatus, onClientFrame
<1>3. CASE UNCHANGED vars
  BY <1>3 DEF vars
<1> QED
  BY <1>1, <1>2, <1>3 DEF RelayNext

\* The relay implements HubSessions: adding transactions to the broker takes
\* nothing from what its sessions promise, and the session theorems hold of it.
THEOREM RelayImplementsSessions == RelaySpec => Spec
  BY RelayStepIsSessionStep, PTL DEF RelaySpec, RelayInit, Spec

\* The session invariants hold of the relay.
LEMMA RelaySessionsInv == RelaySpec => []SessionsInv
  BY RelayImplementsSessions, SessionsIsInvariant, PTL

----------------------------------------------------------------------------
(* What a session step leaves of a transaction's endpoints *)

\* A relayed transaction is never the free entry.
LEMMA FreeEntryIsNone == FreeEntry \notin Relayed
<1> SUFFICES ASSUME FreeEntry \in Relayed PROVE FALSE
  OBVIOUS
<1>1. FreeEntry.state \in {"pending", "active"}
  BY DEF Relayed
<1> QED
  BY <1>1 DEF FreeEntry

\* An entry of the table is a relayed transaction or free.
LEMMA EntryOccupied ==
    ASSUME TableTyped, NEW e \in Entry
    PROVE  e \in Occupied(table) <=> table[e] \in Relayed
  BY FreeEntryIsNone DEF TableTyped, Occupied

\* Interfaces come and go, but not the transaction's.
LEMMA RebindEndpoints ==
    ASSUME SessionsInv, NEW t \in Relayed, HasEndpoints(t),
           NEW gone, NEW joined \in SUBSET Interface, Rebind(gone, joined),
           t.iface \notin gone, peers \cap Clients \subseteq peers'
    PROVE  HasEndpoints(t)'
<1>1. t.iface \in registry' /\ t.iface.owner # Hub /\ (t.state = "active" => t.client # NoClient)
  BY DEF HasEndpoints, Rebind
<1>2. ASSUME t.client # NoClient
      PROVE  /\ t.client \in peers'
             /\ t.iface \in mode'
             /\ \E k \in LiveChannel(t.client, t.channel)' :
                   session'[t.client][k].iface = t.iface /\ session'[t.client][k].reliable
  <2>1. t.client \in Clients /\ t.client \in peers'
    BY <1>2 DEF HasEndpoints, Relayed
  <2>2. t.iface \in mode'
    BY <1>2 DEF HasEndpoints, Rebind
  <2>3. PICK k \in Slots : /\ session[t.client][k] # Free
                           /\ session[t.client][k].channel = t.channel
                           /\ ~session[t.client][k].dormant
                           /\ session[t.client][k].iface = t.iface
                           /\ session[t.client][k].reliable
    BY <1>2 DEF HasEndpoints, LiveChannel, InUse
  <2>4. session \in [Clients -> Session]
    BY DEF SessionsInv, TypeOK, Session
  <2>5. /\ session'[t.client][k] # Free
        /\ session'[t.client][k].channel = t.channel
        /\ ~session'[t.client][k].dormant
        /\ session'[t.client][k].iface = t.iface
        /\ session'[t.client][k].reliable
    BY <2>1, <2>3, <2>4, RebindSlot
  <2>6. k \in LiveChannel(t.client, t.channel)'
    BY <2>5 DEF LiveChannel, InUse
  <2> QED
    BY <2>1, <2>2, <2>5, <2>6
<1> QED
  BY <1>1, <1>2 DEF HasEndpoints

\* The client's binding of the transaction survives and the leg is kept.
LEMMA BindingEndpoints ==
    ASSUME NEW t \in Relayed, HasEndpoints(t),
           registry' = registry, peers \cap {t.client} \subseteq peers',
           t.iface \in mode => t.iface \in mode' \/ t.client = NoClient,
           t.client # NoClient =>
              \A k \in Slots : k \in LiveChannel(t.client, t.channel) =>
                 session'[t.client][k] = session[t.client][k]
    PROVE  HasEndpoints(t)'
<1>1. t.iface \in registry' /\ t.iface.owner # Hub /\ (t.state = "active" => t.client # NoClient)
  BY DEF HasEndpoints
<1>2. ASSUME t.client # NoClient
      PROVE  /\ t.client \in peers'
             /\ t.iface \in mode'
             /\ \E k \in LiveChannel(t.client, t.channel)' :
                   session'[t.client][k].iface = t.iface /\ session'[t.client][k].reliable
  <2>1. t.client \in peers' /\ t.iface \in mode'
    BY <1>2 DEF HasEndpoints
  <2>2. PICK k \in LiveChannel(t.client, t.channel) :
            session[t.client][k].iface = t.iface /\ session[t.client][k].reliable
    BY <1>2 DEF HasEndpoints
  <2>3. k \in Slots /\ session'[t.client][k] = session[t.client][k]
    BY <1>2, <2>2 DEF LiveChannel, InUse
  <2>4. k \in LiveChannel(t.client, t.channel)'
    BY <2>2, <2>3 DEF LiveChannel, InUse
  <2> QED
    BY <2>1, <2>2, <2>3, <2>4
<1> QED
  BY <1>1, <1>2 DEF HasEndpoints

\* Nothing a transaction runs on changes, except that peers may join.
LEMMA SameEndpoints ==
    ASSUME NEW t \in Relayed, HasEndpoints(t), peers \subseteq peers',
           registry' = registry, mode' = mode, session' = session
    PROVE  HasEndpoints(t)'
  BY BindingEndpoints

\* An OPEN fills a slot that was free.
LEMMA OpenEndpoints ==
    ASSUME SessionsInv, NEW t \in Relayed, HasEndpoints(t),
           NEW c \in Clients, NEW i \in registry, NEW reliable \in BOOLEAN,
           NEW k \in Slots, NEW ch \in Channel, handleOpen(c, i, reliable, FALSE, k, ch)
    PROVE  HasEndpoints(t)'
<1>1. registry' = registry /\ peers' = peers /\ mode \subseteq mode'
  BY DEF handleOpen
<1>2. session \in [Clients -> Session]
  BY DEF SessionsInv, TypeOK, Session
<1>3. ASSUME t.client # NoClient, NEW l \in Slots, l \in LiveChannel(t.client, t.channel)
      PROVE  session'[t.client][l] = session[t.client][l]
  <2>1. t.client \in Clients
    BY <1>3 DEF Relayed
  <2>2. session[t.client][l] # Free /\ session[c][k] = Free
    BY <1>3 DEF LiveChannel, InUse, handleOpen, findFree
  <2> QED
    BY <1>2, <2>1, <2>2 DEF handleOpen, Session
<1> QED
  BY <1>1, <1>3, BindingEndpoints

\* Other bindings of the client, or bindings of other clients, go away: the
\* transaction's own channel is still a reliable holder of the agent's.
LEMMA FreedEndpoints ==
    ASSUME SessionsInv, NEW t \in Relayed, HasEndpoints(t), NEW freed,
           revertAgentChannelIfUnused(freed), registry' = registry,
           t.client # NoClient =>
              /\ t.client \in peers'
              /\ \A k \in Slots : k \in LiveChannel(t.client, t.channel) =>
                    session'[t.client][k] = session[t.client][k]
    PROVE  HasEndpoints(t)'
<1>1. ASSUME t.client # NoClient PROVE t.iface \in mode'
  <2>1. t.client \in Clients
    BY <1>1 DEF Relayed
  <2>2. t.iface \in mode
    BY <1>1 DEF HasEndpoints
  <2>3. PICK k \in LiveChannel(t.client, t.channel) :
            session[t.client][k].iface = t.iface /\ session[t.client][k].reliable
    BY <1>1 DEF HasEndpoints
  <2>4. k \in Slots /\ session'[t.client][k] = session[t.client][k]
        /\ session[t.client][k] # Free
    BY <1>1, <2>3 DEF LiveChannel, InUse
  <2>5. HoldsReliable(session'[t.client], t.iface)
    BY <2>3, <2>4 DEF HoldsReliable, InUse
  <2> QED
    BY <2>1, <2>2, <2>5 DEF revertAgentChannelIfUnused
<1>2. CASE t.client # NoClient
  BY <1>1, <1>2, BindingEndpoints
<1>3. CASE t.client = NoClient
  BY <1>3 DEF HasEndpoints
<1> QED
  BY <1>2, <1>3

\* A CLOSE of another channel.
LEMMA CloseEndpoints ==
    ASSUME SessionsInv, NEW t \in Relayed, HasEndpoints(t),
           NEW c \in Clients, NEW k \in Slots, handleClose(c, k),
           t.client # c \/ t.channel # session[c][k].channel
    PROVE  HasEndpoints(t)'
<1>1. registry' = registry /\ peers' = peers
  BY DEF handleClose
<1>2. session \in [Clients -> Session]
  BY DEF SessionsInv, TypeOK, Session
<1>3. ASSUME t.client # NoClient
      PROVE  /\ t.client \in peers'
             /\ \A l \in Slots : l \in LiveChannel(t.client, t.channel) =>
                    session'[t.client][l] = session[t.client][l]
  <2>1. t.client \in Clients /\ t.client \in peers'
    BY <1>1, <1>3 DEF Relayed, HasEndpoints
  <2>2. ASSUME NEW l \in Slots, l \in LiveChannel(t.client, t.channel)
        PROVE  session'[t.client][l] = session[t.client][l]
    <3>1. t.client # c \/ l # k
      BY <2>2 DEF LiveChannel
    <3> QED
      BY <1>2, <2>1, <3>1 DEF handleClose, Session
  <2> QED
    BY <2>1, <2>2
<1>4. PICK freed : revertAgentChannelIfUnused(freed)
  BY DEF handleClose
<1> QED
  BY <1>1, <1>3, <1>4, FreedEndpoints

\* Another client leaves.
LEMMA ClientGoneEndpoints ==
    ASSUME SessionsInv, NEW t \in Relayed, HasEndpoints(t),
           NEW c \in Clients, onClientDisconnected(c), t.client # c
    PROVE  HasEndpoints(t)'
<1>1. registry' = registry /\ peers' = peers \ {c}
  BY DEF onClientDisconnected
<1>2. session \in [Clients -> Session]
  BY DEF SessionsInv, TypeOK, Session
<1>3. ASSUME t.client # NoClient
      PROVE  /\ t.client \in peers'
             /\ \A l \in Slots : l \in LiveChannel(t.client, t.channel) =>
                    session'[t.client][l] = session[t.client][l]
  <2>1. t.client \in Clients /\ t.client \in peers'
    BY <1>1, <1>3 DEF Relayed, HasEndpoints
  <2> QED
    BY <1>2, <2>1 DEF onClientDisconnected
<1>4. PICK freed : revertAgentChannelIfUnused(freed)
  BY DEF onClientDisconnected
<1> QED
  BY <1>1, <1>3, <1>4, FreedEndpoints

----------------------------------------------------------------------------
(* The table *)

\* Entries that go away, or lose their client, leave one entry per agent.
LEMMA FewerEntries ==
    ASSUME OnePerAgent,
           \A e \in Entry : table'[e] # FreeEntry =>
               table[e] # FreeEntry /\ table'[e].iface = table[e].iface
    PROVE  OnePerAgent'
  BY DEF OnePerAgent, Occupied

\* The table is finite, so sets of its entries can be counted.
LEMMA EntriesFinite ==
    ASSUME NEW es \in SUBSET Entry
    PROVE  IsFiniteSet(es) /\ Cardinality(es) \in Nat
<1>1. IsFiniteSet(Entry)
  BY RelayAssumption, FS_Interval DEF Entry
<1>2. IsFiniteSet(es)
  BY <1>1, FS_Subset
<1> QED
  BY <1>2, FS_CardinalityType

\* When the leases that end are those among es, counting them down keeps
\* active_leases right.
LEMMA CountDown ==
    ASSUME LeasesCounted, NEW es \in SUBSET Entry,
           LeasesIn(table, Entry)' = LeasesIn(table, Entry) \ LeasesIn(table, es),
           active_leases' = active_leases - Cardinality(LeasesIn(table, es))
    PROVE  LeasesCounted'
<1> DEFINE all == LeasesIn(table, Entry)
           some == LeasesIn(table, es)
<1>1. all \in SUBSET Entry /\ some \in SUBSET all
  BY DEF LeasesIn
<1>2. IsFiniteSet(all) /\ Cardinality(all) \in Nat
      /\ IsFiniteSet(some) /\ Cardinality(some) \in Nat
  BY <1>1, EntriesFinite
<1>3. all \cap some = some
  BY <1>1
<1> HIDE DEF all, some
<1>4. Cardinality(all \ some) = Cardinality(all) - Cardinality(all \cap some)
  BY <1>2, FS_Difference
<1> QED
  BY <1>2, <1>3, <1>4 DEF LeasesCounted, all, some

\* TransactionTable_Close.
LEMMA CloseTable ==
    ASSUME TableTyped, LeasesCounted, NEW es \in SUBSET Entry, TransactionTable_Close(es)
    PROVE  /\ TableTyped' /\ LeasesCounted'
           /\ \A e \in Entry : table'[e] = IF e \in es THEN FreeEntry ELSE table[e]
<1>1. table' = [e \in Entry |-> IF e \in es THEN FreeEntry ELSE table[e]]
      /\ active_leases' = active_leases - Cardinality(LeasesIn(table, es))
  BY DEF TransactionTable_Close
<1>2. TableTyped'
  BY <1>1 DEF TableTyped
<1>3. LeasesIn(table, Entry)' = LeasesIn(table, Entry) \ LeasesIn(table, es)
  <2>1. \A e \in Entry : holdsLease(table'[e]) <=> holdsLease(table[e]) /\ e \notin es
    BY <1>1 DEF holdsLease
  <2>2. LeasesIn(table, Entry)' = {e \in Entry : holdsLease(table'[e])}
    BY DEF LeasesIn
  <2> QED
    BY <2>1, <2>2 DEF LeasesIn
<1> QED
  BY <1>1, <1>2, <1>3, CountDown

\* abandonTransaction: active entries go away, pending ones lose their client.
LEMMA AbandonTable ==
    ASSUME TableTyped, LeasesCounted, NEW es \in SUBSET Occupied(table), abandonTransaction(es)
    PROVE  /\ TableTyped' /\ LeasesCounted'
           /\ \A e \in Entry :
                 \/ e \notin es /\ table'[e] = table[e]
                 \/ e \in es /\ table'[e] = FreeEntry /\ table[e].state = "active"
                 \/ /\ e \in es /\ table[e] \in Relayed /\ table[e].state = "pending"
                    /\ table'[e] = [table[e] EXCEPT !.client = NoClient]
                    /\ table'[e] \in Relayed
<1>1. table' = [e \in Entry |->
                    IF e \in Active(es) THEN FreeEntry
                    ELSE IF e \in es THEN [table[e] EXCEPT !.client = NoClient]
                    ELSE table[e]]
      /\ active_leases' = active_leases - Cardinality(LeasesIn(table, es))
  BY DEF abandonTransaction
<1>2. es \in SUBSET Entry
  BY DEF Occupied
<1>3. ASSUME NEW e \in Entry
      PROVE  \/ e \notin es /\ table'[e] = table[e]
             \/ e \in es /\ table'[e] = FreeEntry /\ table[e].state = "active"
             \/ /\ e \in es /\ table[e] \in Relayed /\ table[e].state = "pending"
                /\ table'[e] = [table[e] EXCEPT !.client = NoClient]
                /\ table'[e] \in Relayed
  <2>1. CASE e \notin es
    BY <1>1, <2>1 DEF Active
  <2>2. CASE e \in es /\ table[e].state = "active"
    BY <1>1, <2>2 DEF Active
  <2>3. CASE e \in es /\ table[e].state # "active"
    <3>1. table[e] \in Relayed
      BY <2>3, EntryOccupied
    <3>2. table'[e] = [table[e] EXCEPT !.client = NoClient]
      BY <1>1, <2>3 DEF Active
    <3> QED
      BY <2>3, <3>1, <3>2 DEF Relayed
  <2> QED
    BY <2>1, <2>2, <2>3
<1>4. TableTyped'
  BY <1>1, <1>3 DEF TableTyped
<1>5. LeasesIn(table, Entry)' = LeasesIn(table, Entry) \ LeasesIn(table, es)
  <2>1. ASSUME NEW e \in Entry
        PROVE  holdsLease(table'[e]) <=> holdsLease(table[e]) /\ e \notin es
    <3>1. CASE e \in es /\ table[e] \in Relayed /\ table[e].state = "pending"
               /\ table'[e] = [table[e] EXCEPT !.client = NoClient]
      BY <3>1 DEF holdsLease, Relayed
    <3> QED
      BY <1>3, <3>1 DEF holdsLease
  <2>2. LeasesIn(table, Entry)' = {e \in Entry : holdsLease(table'[e])}
    BY DEF LeasesIn
  <2> QED
    BY <2>1, <2>2 DEF LeasesIn
<1> QED
  BY <1>1, <1>2, <1>3, <1>4, <1>5, CountDown

\* TransactionTable_Open: a pending entry, which holds no lease.
LEMMA OpenTable ==
    ASSUME TableTyped, LeasesCounted, NEW e \in Entry, NEW t \in Relayed,
           table[e] = FreeEntry, t.state = "pending",
           table' = [table EXCEPT ![e] = t], active_leases' = active_leases
    PROVE  TableTyped' /\ LeasesCounted'
<1>1. TableTyped'
  BY DEF TableTyped
<1>2. LeasesIn(table, Entry)' = LeasesIn(table, Entry)
  <2>1. \A f \in Entry : holdsLease(table'[f]) <=> holdsLease(table[f])
    BY DEF holdsLease, TableTyped
  <2>2. LeasesIn(table, Entry)' = {f \in Entry : holdsLease(table'[f])}
    BY DEF LeasesIn
  <2> QED
    BY <2>1, <2>2 DEF LeasesIn
<1> QED
  BY <1>1, <1>2 DEF LeasesCounted

\* TransactionTable_Activate: the entry takes the agent's id, and the lease if
\* it asked for it.
LEMMA ActivateTable ==
    ASSUME TableTyped, LeasesCounted, NEW e \in Occupied(table), NEW id \in TxnIds,
           table[e].state = "pending", Activate(e, id)
    PROVE  /\ TableTyped' /\ LeasesCounted'
           /\ \A f \in Entry : f # e => table'[f] = table[f]
           /\ table'[e] = [table[e] EXCEPT !.state = "active", !.txn_id = id]
           /\ table'[e] \in Relayed
<1>0. e \in Entry
  BY DEF Occupied
<1>1. table[e] \in Relayed
  BY <1>0, EntryOccupied
<1>2. table' = [table EXCEPT ![e] = [table[e] EXCEPT !.state = "active", !.txn_id = id]]
  BY <1>0 DEF Activate, TableTyped
<1>3. /\ \A f \in Entry : f # e => table'[f] = table[f]
      /\ table'[e] = [table[e] EXCEPT !.state = "active", !.txn_id = id]
  BY <1>0, <1>2 DEF TableTyped
<1>4. table'[e] \in Relayed
  BY <1>1, <1>3 DEF Relayed
<1>5. TableTyped'
  BY <1>2, <1>3, <1>4 DEF TableTyped
<1>6. ASSUME NEW f \in Entry
      PROVE  holdsLease(table'[f]) <=> holdsLease(table[f]) \/ (f = e /\ table[e].exclusive)
  <2>1. CASE f # e
    BY <1>3, <2>1
  <2>2. CASE f = e
    <3>1. ~holdsLease(table[e])
      BY DEF holdsLease
    <3>2. table'[e] # FreeEntry
      BY <1>4, FreeEntryIsNone
    <3>3. table'[e].state = "active" /\ table'[e].exclusive = table[e].exclusive
      BY <1>1, <1>3 DEF Relayed
    <3> QED
      BY <2>2, <3>1, <3>2, <3>3 DEF holdsLease
  <2> QED
    BY <2>1, <2>2
<1>7. LeasesIn(table, Entry)' =
          IF table[e].exclusive THEN LeasesIn(table, Entry) \cup {e} ELSE LeasesIn(table, Entry)
  <2>1. LeasesIn(table, Entry)' = {f \in Entry : holdsLease(table'[f])}
    BY DEF LeasesIn
  <2> QED
    BY <1>0, <1>6, <2>1 DEF LeasesIn
<1>8. LeasesIn(table, Entry) \in SUBSET Entry /\ e \notin LeasesIn(table, Entry)
  BY DEF LeasesIn, holdsLease
<1>9. IsFiniteSet(LeasesIn(table, Entry))
  BY <1>8, EntriesFinite
<1>10. Cardinality(LeasesIn(table, Entry) \cup {e}) = Cardinality(LeasesIn(table, Entry)) + 1
  BY <1>8, <1>9, FS_AddElement
<1>11. LeasesCounted'
  BY <1>7, <1>10 DEF LeasesCounted, Activate
<1> QED
  BY <1>3, <1>4, <1>5, <1>11

----------------------------------------------------------------------------
(* One lemma per handler *)

\* A handler that touches neither the table nor what transactions run on.
LEMMA QuietTable ==
    ASSUME TableInv, table' = table, active_leases' = active_leases,
           \A t \in Relayed : HasEndpoints(t) => HasEndpoints(t)'
    PROVE  TableInv'
<1>1. TableTyped' /\ OnePerAgent' /\ LeasesCounted'
  BY DEF TableInv, TableTyped, OnePerAgent, LeasesCounted, LeasesIn, Occupied
<1>2. TransactionsHaveEndpoints'
  <2> SUFFICES ASSUME NEW e \in Occupied(table) PROVE HasEndpoints(table[e])'
    BY DEF TransactionsHaveEndpoints, Occupied
  <2>1. table[e] \in Relayed /\ HasEndpoints(table[e])
    BY EntryOccupied DEF TableInv, TransactionsHaveEndpoints, Occupied
  <2>2. PICK t \in Relayed : t = table[e]
    BY <2>1
  <2>3. HasEndpoints(t) /\ HasEndpoints(t)'
    BY <2>1, <2>2
  <2> QED
    BY <2>2, <2>3
<1> QED
  BY <1>1, <1>2 DEF TableInv

\* Entries go away and the others keep their endpoints.
LEMMA ClosedTable ==
    ASSUME TableInv, NEW es \in SUBSET Entry, TransactionTable_Close(es),
           \A e \in Occupied(table) \ es : \A t \in Relayed :
               t = table[e] /\ HasEndpoints(t) => HasEndpoints(t)'
    PROVE  TableInv'
<1>1. /\ TableTyped' /\ LeasesCounted'
      /\ \A e \in Entry : table'[e] = IF e \in es THEN FreeEntry ELSE table[e]
  BY CloseTable DEF TableInv
<1>2. OnePerAgent'
  BY <1>1, FewerEntries DEF TableInv
<1>3. TransactionsHaveEndpoints'
  <2> SUFFICES ASSUME NEW e \in Entry, table'[e] # FreeEntry PROVE HasEndpoints(table[e])'
    BY DEF TransactionsHaveEndpoints, Occupied
  <2>1. e \in Occupied(table) \ es /\ table'[e] = table[e]
    BY <1>1 DEF Occupied
  <2>2. table[e] \in Relayed /\ HasEndpoints(table[e])
    BY <2>1, EntryOccupied DEF TableInv, TransactionsHaveEndpoints, Occupied
  <2>3. PICK t \in Relayed : t = table[e]
    BY <2>2
  <2>4. HasEndpoints(t)'
    BY <2>1, <2>2, <2>3
  <2> QED
    BY <2>1, <2>3, <2>4
<1> QED
  BY <1>1, <1>2, <1>3 DEF TableInv

\* Agents leave: their transactions fail, the others keep their endpoints.
LEMMA ReleaseTable ==
    ASSUME SessionsInv, TableInv, NEW dropped \in SUBSET Agents,
           NEW joined \in SUBSET Interface,
           releaseAgents(dropped, joined), failAgentTransaction(dropped)
    PROVE  TableInv'
<1> DEFINE es == UNION {ForAgent(table, a) : a \in dropped}
<1>1. es \in SUBSET Entry
  BY DEF ForAgent, Occupied
<1>2. TransactionTable_Close(es)
  BY DEF failAgentTransaction, finishTransaction
<1>3. ASSUME NEW e \in Occupied(table) \ es, NEW t \in Relayed, t = table[e], HasEndpoints(t)
      PROVE  HasEndpoints(t)'
  <2>1. t.iface.owner \notin dropped
    BY <1>3 DEF ForAgent
  <2>2. t.iface \notin InterfacesOf(dropped)
    BY <2>1 DEF InterfacesOf
  <2>3. Rebind(InterfacesOf(dropped), joined) /\ peers \cap Clients \subseteq peers'
    BY SessionsAssumption DEF releaseAgents
  <2> QED
    BY <1>3, <2>2, <2>3, RebindEndpoints
<1> HIDE DEF es
<1> QED
  BY <1>1, <1>2, <1>3, ClosedTable

\* A bridge group's interface comes or goes; no transaction runs on one.
LEMMA GroupTable ==
    ASSUME SessionsInv, TableInv, NEW g \in Groups, Quiet,
           openGroupInterface(g) \/ closeGroupInterface(g)
    PROVE  TableInv'
<1> DEFINE i == [owner |-> Hub, iface |-> g]
<1>1. PICK gone \in SUBSET {i}, joined \in SUBSET {i} : Rebind(gone, joined)
  BY DEF openGroupInterface, closeGroupInterface
<1>2. i \in Interface /\ i.owner = Hub /\ peers' = peers
  BY DEF Interface, openGroupInterface, closeGroupInterface
<1>3. ASSUME NEW t \in Relayed, HasEndpoints(t)
      PROVE  HasEndpoints(t)'
  <2>1. t.iface \notin gone
    BY <1>1, <1>2, <1>3 DEF HasEndpoints
  <2>2. joined \in SUBSET Interface
    BY <1>1, <1>2
  <2> QED
    BY <1>1, <1>2, <1>3, <2>1, <2>2, RebindEndpoints
<1> QED
  BY <1>3, QuietTable DEF Quiet

\* Transactions abandoned by their client, in a step that frees the client's
\* binding or the client.
LEMMA AbandonedTable ==
    ASSUME TableInv, NEW es \in SUBSET Occupied(table), abandonTransaction(es),
           registry' = registry,
           \A e \in Occupied(table) \ es : \A t \in Relayed :
               t = table[e] /\ HasEndpoints(t) => HasEndpoints(t)'
    PROVE  TableInv'
<1>1. /\ TableTyped' /\ LeasesCounted'
      /\ \A e \in Entry :
            \/ e \notin es /\ table'[e] = table[e]
            \/ e \in es /\ table'[e] = FreeEntry /\ table[e].state = "active"
            \/ /\ e \in es /\ table[e] \in Relayed /\ table[e].state = "pending"
               /\ table'[e] = [table[e] EXCEPT !.client = NoClient]
               /\ table'[e] \in Relayed
  BY AbandonTable DEF TableInv
<1>2. OnePerAgent'
  <2>1. ASSUME NEW e \in Entry, table'[e] # FreeEntry
        PROVE  table[e] # FreeEntry /\ table'[e].iface = table[e].iface
    <3>1. CASE table'[e] = [table[e] EXCEPT !.client = NoClient] /\ table[e] \in Relayed
      BY <3>1, FreeEntryIsNone DEF Relayed
    <3> QED
      BY <1>1, <2>1, <3>1
  <2> QED
    BY <2>1, FewerEntries DEF TableInv
<1>3. TransactionsHaveEndpoints'
  <2> SUFFICES ASSUME NEW e \in Entry, table'[e] # FreeEntry PROVE HasEndpoints(table[e])'
    BY DEF TransactionsHaveEndpoints, Occupied
  <2>1. CASE e \notin es /\ table'[e] = table[e]
    <3>1. e \in Occupied(table) \ es
      BY <2>1 DEF Occupied
    <3>2. table[e] \in Relayed /\ HasEndpoints(table[e])
      BY <3>1, EntryOccupied DEF TableInv, TransactionsHaveEndpoints, Occupied
    <3>3. PICK t \in Relayed : t = table[e]
      BY <3>2
    <3>4. HasEndpoints(t)'
      BY <3>1, <3>2, <3>3
    <3> QED
      BY <2>1, <3>3, <3>4
  <2>2. CASE /\ e \in es /\ table[e] \in Relayed /\ table[e].state = "pending"
             /\ table'[e] = [table[e] EXCEPT !.client = NoClient]
             /\ table'[e] \in Relayed
    <3>1. HasEndpoints(table[e])
      BY <2>2 DEF TableInv, TransactionsHaveEndpoints
    <3>2. /\ table'[e].iface = table[e].iface /\ table'[e].client = NoClient
          /\ table'[e].state = "pending"
      BY <2>2 DEF Relayed
    <3> QED
      BY <3>1, <3>2 DEF HasEndpoints
  <2> QED
    BY <1>1, <2>1, <2>2
<1> QED
  BY <1>1, <1>2, <1>3 DEF TableInv

\* CLOSE abandons the transaction of its channel (closeClientChannel).
LEMMA CloseTransactions ==
    ASSUME SessionsInv, TableInv, NEW c \in Clients, NEW k \in Slots, Close(c, k)
    PROVE  TableInv'
<1> DEFINE es == ForClientChannel(table, c, session[c][k].channel)
<1>1. es \in SUBSET Occupied(table) /\ abandonTransaction(es) /\ handleClose(c, k)
  BY DEF Close, ForClientChannel, ForClient
<1>2. registry' = registry
  BY <1>1 DEF handleClose
<1>3. ASSUME NEW e \in Occupied(table) \ es, NEW t \in Relayed, t = table[e], HasEndpoints(t)
      PROVE  HasEndpoints(t)'
  <2>1. t.client # c \/ t.channel # session[c][k].channel
    BY <1>3 DEF ForClientChannel, ForClient
  <2> QED
    BY <1>1, <1>3, <2>1, CloseEndpoints
<1> HIDE DEF es
<1> QED
  BY <1>1, <1>2, <1>3, AbandonedTable

\* A client that leaves abandons all its transactions (abandonClientTransactions).
LEMMA ClientGoneTransactions ==
    ASSUME SessionsInv, TableInv, NEW c \in Clients, ClientGone(c)
    PROVE  TableInv'
<1> DEFINE es == ForClient(table, c)
<1>1. es \in SUBSET Occupied(table) /\ abandonTransaction(es) /\ onClientDisconnected(c)
  BY DEF ClientGone, ForClient
<1>2. registry' = registry
  BY <1>1 DEF onClientDisconnected
<1>3. ASSUME NEW e \in Occupied(table) \ es, NEW t \in Relayed, t = table[e], HasEndpoints(t)
      PROVE  HasEndpoints(t)'
  <2>1. t.client # c
    BY <1>3 DEF ForClient
  <2> QED
    BY <1>1, <1>3, <2>1, ClientGoneEndpoints
<1> HIDE DEF es
<1> QED
  BY <1>1, <1>2, <1>3, AbandonedTable

\* The session handlers preserve the table's invariant.
LEMMA SessionNextTable ==
    ASSUME SessionsInv, TableInv, SessionNext
    PROVE  TableInv'
<1>1. CASE \E p \in Clients \cup Agents : connectPeer(p) /\ Quiet
  BY <1>1, SameEndpoints, QuietTable DEF connectPeer, Quiet
<1>2. CASE \E a \in Agents :
          \/ \E names \in SUBSET Ifaces \ {{}}, dropped \in SUBSET Agents :
                \/ Register(a, names, dropped, {})
                \/ Register(a, names, dropped, Registration(a, names))
          \/ AgentGone(a)
  <2>1. \A a \in Agents, names \in SUBSET Ifaces : Registration(a, names) \in SUBSET Interface
    BY DEF Registration, Interface
  <2>2. PICK dropped \in SUBSET Agents, joined \in SUBSET Interface :
            releaseAgents(dropped, joined) /\ failAgentTransaction(dropped)
    BY <1>2, <2>1 DEF Register, AgentGone, handleRegister, onAgentDisconnected
  <2> QED
    BY <2>2, ReleaseTable
<1>3. CASE \E c \in Clients :
          \/ \E i \in registry, reliable \in OpenModes, k \in Slots, ch \in Channel :
                Open(c, i, reliable, k, ch)
          \/ \E k \in Slots : Close(c, k)
          \/ ClientGone(c)
          \/ \E n \in Names, grant \in Grant : handleAdminAclSet(c, n, grant) /\ Quiet
  <2>1. PICK c \in Clients :
          \/ \E i \in registry, reliable \in OpenModes, k \in Slots, ch \in Channel :
                Open(c, i, reliable, k, ch)
          \/ \E k \in Slots : Close(c, k)
          \/ ClientGone(c)
          \/ \E n \in Names, grant \in Grant : handleAdminAclSet(c, n, grant) /\ Quiet
    BY <1>3
  <2>2. ASSUME NEW i \in registry, NEW reliable \in OpenModes, NEW k \in Slots,
               NEW ch \in Channel, Open(c, i, reliable, k, ch)
        PROVE  TableInv'
    <3>1. reliable \in BOOLEAN
      BY RelayAssumption
    <3>2. handleOpen(c, i, reliable, FALSE, k, ch) /\ table' = table
          /\ active_leases' = active_leases
      BY <2>2 DEF Open
    <3>3. \A t \in Relayed : HasEndpoints(t) => HasEndpoints(t)'
      BY <3>1, <3>2, OpenEndpoints
    <3> QED
      BY <3>2, <3>3, QuietTable
  <2>3. ASSUME NEW n \in Names, NEW grant \in Grant, handleAdminAclSet(c, n, grant), Quiet
        PROVE  TableInv'
    BY <2>3, SameEndpoints, QuietTable DEF handleAdminAclSet, Quiet
  <2> QED
    BY <2>1, <2>2, <2>3, CloseTransactions, ClientGoneTransactions
<1>4. CASE \E g \in Groups : (openGroupInterface(g) \/ closeGroupInterface(g)) /\ Quiet
  BY <1>4, GroupTable
<1> QED
  BY <1>1, <1>2, <1>3, <1>4 DEF SessionNext

\* A TXN_BEGIN that is admitted opens an entry for an agent that had none, on
\* a channel that is live, reliable and bound to one of its interfaces.
LEMMA BeginTable ==
    ASSUME SessionsInv, TableInv, NEW c \in Clients, NEW ch \in Channel,
           NEW exclusive \in BOOLEAN, NEW leg \in BOOLEAN,
           handleTxnBegin(c, ch, exclusive, leg)
    PROVE  TableInv'
<1>0. c \in peers /\ UNCHANGED sessionVars
  BY DEF handleTxnBegin
<1>1. \A t \in Relayed : HasEndpoints(t) => HasEndpoints(t)'
  BY <1>0, SameEndpoints DEF sessionVars
<1>2. CASE \E status : rejectBegin(c, ch, status)
  BY <1>1, <1>2, QuietTable DEF rejectBegin
<1>3. CASE \E k \in LiveChannel(c, ch), e \in Entry :
               /\ admitTransaction(c, k, leg) = "ok"
               /\ FirstFree(e) /\ openRelay(c, ch, session[c][k].iface, exclusive, e)
  <2>1. PICK k \in LiveChannel(c, ch), e \in Entry :
               /\ admitTransaction(c, k, leg) = "ok"
               /\ FirstFree(e) /\ openRelay(c, ch, session[c][k].iface, exclusive, e)
    BY <1>3
  <2> DEFINE b == session[c][k]
             new == [state |-> "pending", exclusive |-> exclusive, iface |-> b.iface,
                     client |-> c, channel |-> ch, txn_id |-> NoTxn]
  <2>2. /\ b.iface \in registry /\ b.iface.owner \in peers
        /\ b.reliable /\ b.iface \in mode
        /\ ForAgent(table, b.iface.owner) = {}
    BY <2>1 DEF admitTransaction
  <2>3. b.iface \in Interface /\ b.iface.owner # Hub
    BY <2>2, SessionsAssumption DEF SessionsInv, TypeOK
  <2>4. new \in Relayed /\ new.iface = b.iface /\ new.client = c /\ new.channel = ch
        /\ new.state = "pending"
    BY <2>3 DEF Relayed
  <2>5. table' = [table EXCEPT ![e] = new] /\ active_leases' = active_leases
        /\ table[e] = FreeEntry
    BY <2>1 DEF openRelay, FirstFree
  <2> HIDE DEF new
  <2>6. TableTyped' /\ LeasesCounted'
    BY <2>4, <2>5, OpenTable DEF TableInv
  <2>7. table'[e] = new /\ \A f \in Entry : f # e => table'[f] = table[f]
    BY <2>5 DEF TableInv, TableTyped
  <2>8. OnePerAgent'
    <3> SUFFICES ASSUME NEW f \in Entry, NEW g \in Entry, table'[f] # FreeEntry,
                        table'[g] # FreeEntry, table'[f].iface.owner = table'[g].iface.owner
                 PROVE  f = g
      BY DEF OnePerAgent, Occupied
    <3>1. CASE f = e /\ g # e
      BY <2>2, <2>4, <2>7, <3>1 DEF ForAgent, Occupied
    <3>2. CASE g = e /\ f # e
      BY <2>2, <2>4, <2>7, <3>2 DEF ForAgent, Occupied
    <3>3. CASE f # e /\ g # e
      BY <2>7, <3>3 DEF TableInv, OnePerAgent, Occupied
    <3> QED
      BY <3>1, <3>2, <3>3
  <2>9. ASSUME NEW t \in Relayed, t = new PROVE HasEndpoints(t)'
    <3>1. c # NoClient
      BY RelayAssumption
    <3>2. k \in LiveChannel(c, ch)'
      BY <1>0, <2>1 DEF LiveChannel, InUse, sessionVars
    <3>3. /\ registry' = registry /\ peers' = peers /\ mode' = mode /\ session' = session
      BY <1>0 DEF sessionVars
    <3> QED
      BY <1>0, <2>2, <2>3, <2>4, <2>9, <3>1, <3>2, <3>3 DEF HasEndpoints
  <2>10. TransactionsHaveEndpoints'
    <3> SUFFICES ASSUME NEW f \in Entry, table'[f] # FreeEntry PROVE HasEndpoints(table[f])'
      BY DEF TransactionsHaveEndpoints, Occupied
    <3>1. CASE f = e
      <4>1. PICK t \in Relayed : t = new
        BY <2>4
      <4> QED
        BY <2>7, <2>9, <3>1, <4>1
    <3>2. CASE f # e
      <4>1. f \in Occupied(table) /\ table'[f] = table[f]
        BY <2>7, <3>2 DEF Occupied
      <4>2. table[f] \in Relayed /\ HasEndpoints(table[f])
        BY <4>1, EntryOccupied DEF TableInv, TransactionsHaveEndpoints, Occupied
      <4>3. PICK t \in Relayed : t = table[f]
        BY <4>2
      <4>4. HasEndpoints(t)
        BY <4>2, <4>3
      <4>5. HasEndpoints(t)'
        BY <1>1, <4>4
      <4> QED
        BY <4>1, <4>3, <4>5
    <3> QED
      BY <3>1, <3>2
  <2> QED
    BY <2>6, <2>8, <2>10 DEF TableInv
<1> QED
  BY <1>2, <1>3 DEF handleTxnBegin

\* The agent's answer closes the pending entry, or activates it for a client
\* that is still there.
LEMMA BeginAckTable ==
    ASSUME SessionsInv, TableInv, NEW a \in Agents, NEW ok \in BOOLEAN, NEW id \in TxnIds,
           handleTxnBeginAck(a, ok, id)
    PROVE  TableInv'
<1>0. UNCHANGED sessionVars
  BY DEF handleTxnBeginAck
<1>1. \A t \in Relayed : HasEndpoints(t) => HasEndpoints(t)'
  BY <1>0, SameEndpoints DEF sessionVars
<1>2. PICK e \in ForAgent(table, a) :
          /\ table[e].state = "pending"
          /\ \/ TransactionTable_Close({e})
             \/ table[e].client \in peers /\ Activate(e, id)
  BY DEF handleTxnBeginAck
<1>3. e \in Occupied(table) /\ e \in Entry
  BY DEF ForAgent, Occupied
<1>4. CASE TransactionTable_Close({e})
  BY <1>1, <1>3, <1>4, ClosedTable
<1>5. CASE table[e].client \in peers /\ Activate(e, id)
  <2>1. /\ TableTyped' /\ LeasesCounted'
        /\ \A f \in Entry : f # e => table'[f] = table[f]
        /\ table'[e] = [table[e] EXCEPT !.state = "active", !.txn_id = id]
        /\ table'[e] \in Relayed
    BY <1>2, <1>3, <1>5, ActivateTable DEF TableInv
  <2>2. table[e] \in Relayed
    BY <1>3, EntryOccupied DEF TableInv
  <2>3. /\ table'[e].iface = table[e].iface /\ table'[e].client = table[e].client
        /\ table'[e].channel = table[e].channel
    BY <2>1, <2>2 DEF Relayed
  <2>4. OnePerAgent'
    BY <1>3, <2>1, <2>3, FewerEntries DEF TableInv, Occupied
  <2>5. TransactionsHaveEndpoints'
    <3> SUFFICES ASSUME NEW f \in Entry, table'[f] # FreeEntry PROVE HasEndpoints(table[f])'
      BY DEF TransactionsHaveEndpoints, Occupied
    <3>1. f \in Occupied(table)
      BY <1>3, <2>1 DEF Occupied
    <3>2. table[f] \in Relayed /\ HasEndpoints(table[f])
      BY <3>1, EntryOccupied DEF TableInv, TransactionsHaveEndpoints, Occupied
    <3>3. PICK t \in Relayed : t = table[f]
      BY <3>2
    <3>4. HasEndpoints(t)
      BY <3>2, <3>3
    <3>5. HasEndpoints(t)'
      BY <1>1, <3>4
    <3>6. CASE f # e
      BY <2>1, <3>3, <3>5, <3>6
    <3>7. CASE f = e
      <4>1. t.client \in peers
        BY <1>5, <3>3, <3>7
      <4>2. peers \subseteq Clients \cup Agents
        BY DEF SessionsInv, TypeOK
      <4>3. t.client # NoClient
        BY <4>1, <4>2, RelayAssumption
      <4>4. PICK u \in Relayed : u = table'[e]
        BY <2>1
      <4>5. u.iface = t.iface /\ u.client = t.client /\ u.channel = t.channel
        BY <2>3, <3>3, <3>7, <4>4
      <4>6. HasEndpoints(u)'
        BY <3>5, <4>3, <4>5 DEF HasEndpoints
      <4> QED
        BY <3>7, <4>4, <4>6
    <3> QED
      BY <3>6, <3>7
  <2> QED
    BY <2>1, <2>4, <2>5 DEF TableInv
<1> QED
  BY <1>2, <1>4, <1>5

\* The transaction handlers preserve the table's invariant.
LEMMA TransactionNextTable ==
    ASSUME SessionsInv, TableInv, TransactionNext
    PROVE  TableInv'
<1>1. ASSUME UNCHANGED sessionVars, table' = table, active_leases' = active_leases
      PROVE  TableInv'
  BY <1>1, SameEndpoints, QuietTable DEF sessionVars
<1>2. ASSUME UNCHANGED sessionVars, NEW e \in Occupied(table), TransactionTable_Close({e})
      PROVE  TableInv'
  <2>1. {e} \in SUBSET Entry
    BY DEF Occupied
  <2>2. \A t \in Relayed : HasEndpoints(t) => HasEndpoints(t)'
    BY <1>2, SameEndpoints DEF sessionVars
  <2> QED
    BY <1>2, <2>1, <2>2, ClosedTable
<1>3. ASSUME NEW c \in Clients, NEW ch \in Channel, NEW id, handleTxnAbort(c, ch, id)
      PROVE  TableInv'
  <2>1. PICK e \in ForClientChannel(table, c, ch) :
          \/ abandonTransaction({e})
          \/ table' = table /\ active_leases' = active_leases
    BY <1>3 DEF handleTxnAbort
  <2>2. UNCHANGED sessionVars
    BY <1>3 DEF handleTxnAbort
  <2>3. CASE abandonTransaction({e})
    <3>1. {e} \in SUBSET Occupied(table)
      BY DEF ForClientChannel, ForClient
    <3>2. \A t \in Relayed : HasEndpoints(t) => HasEndpoints(t)'
      BY <2>2, SameEndpoints DEF sessionVars
    <3>3. registry' = registry
      BY <2>2 DEF sessionVars
    <3> QED
      BY <2>3, <3>1, <3>2, <3>3, AbandonedTable
  <2> QED
    BY <1>1, <2>1, <2>2, <2>3
<1>4. ASSUME NEW c \in Clients, NEW ch \in Channel, NEW isotp, relayTransactionContent(c, ch, isotp)
      PROVE  TableInv'
  <2>1. UNCHANGED sessionVars
    BY <1>4 DEF relayTransactionContent
  <2>2. PICK e \in ForClientChannel(table, c, ch) :
          \/ TransactionTable_Close({e})
          \/ table' = table /\ active_leases' = active_leases
    BY <1>4 DEF relayTransactionContent, finishTransaction
  <2>3. e \in Occupied(table)
    BY DEF ForClientChannel, ForClient
  <2> QED
    BY <1>1, <1>2, <2>1, <2>2, <2>3
<1>5. ASSUME NEW a \in Agents, NEW id, NEW end, handleTxnStatus(a, id, end)
      PROVE  TableInv'
  <2>1. UNCHANGED sessionVars
    BY <1>5 DEF handleTxnStatus
  <2>2. PICK e \in ActiveOf(a, id) : TransactionTable_Close({e})
    BY <1>5 DEF handleTxnStatus, finishTransaction
  <2>3. e \in Occupied(table)
    BY DEF ActiveOf, ForAgent
  <2> QED
    BY <1>2, <2>1, <2>2, <2>3
<1>6. ASSUME NEW a \in Agents, NEW id, NEW type, relayReport(a, id, type)
      PROVE  TableInv'
  BY <1>1, <1>6 DEF relayReport
<1>7. ASSUME NEW c \in Clients, NEW k \in Slots, onClientFrame(c, k)
      PROVE  TableInv'
  BY <1>1, <1>7 DEF onClientFrame
<1>8. BeginModes \subseteq BOOLEAN
  BY RelayAssumption
<1>9. ASSUME NEW a \in Agents, NEW is, handleInterfaceStatus(a, is)
      PROVE  TableInv'
  BY <1>1, <1>9 DEF handleInterfaceStatus
<1> QED
  BY <1>3, <1>4, <1>5, <1>6, <1>7, <1>8, <1>9, BeginTable, BeginAckTable DEF TransactionNext

\* Every step of the relay preserves the table's invariant.
LEMMA NextTable == SessionsInv /\ TableInv /\ [RelayNext]_vars => TableInv'
<1> SUFFICES ASSUME SessionsInv, TableInv, [RelayNext]_vars PROVE TableInv'
  OBVIOUS
<1>1. CASE UNCHANGED vars
  BY <1>1, SameEndpoints, QuietTable DEF vars, sessionVars, relayVars
<1> QED
  BY <1>1, SessionNextTable, TransactionNextTable DEF RelayNext

\* An empty table satisfies it.
LEMMA InitTable == RelayInit => TableInv
<1> SUFFICES ASSUME RelayInit PROVE TableInv
  OBVIOUS
<1>1. \A e \in Entry : table[e] = FreeEntry
  BY DEF RelayInit, relayInit
<1>2. Occupied(table) = {} /\ LeasesIn(table, Entry) = {}
  BY <1>1 DEF Occupied, LeasesIn, holdsLease
<1>3. TableTyped
  BY DEF RelayInit, relayInit, TableTyped
<1> QED
  BY <1>2, <1>3, FS_EmptySet DEF TableInv, OnePerAgent, TransactionsHaveEndpoints,
     LeasesCounted, RelayInit, relayInit

----------------------------------------------------------------------------
(* Theorems *)

\* The inductive invariant of the relay's table.
THEOREM TableIsInvariant == RelaySpec => []TableInv
  BY InitTable, NextTable, RelaySessionsInv, PTL DEF RelaySpec

\* No transaction outlives its client, its channel, its agent or the agent's
\* registration (closeClientChannel, releasePeer, displaceGhostPeer).
THEOREM NoOrphanTransactions == RelaySpec => []TransactionsHaveEndpoints
<1>1. TableInv => TransactionsHaveEndpoints
  BY DEF TableInv
<1> QED
  BY <1>1, TableIsInvariant, PTL

\* The lease counter that guards the frame path is exact.
THEOREM LeaseCountIsExact == RelaySpec => []LeasesCounted
<1>1. TableInv => LeasesCounted
  BY DEF TableInv
<1> QED
  BY <1>1, TableIsInvariant, PTL

\* One transaction per agent (admitTransaction), and one per client channel,
\* because the channel of a transaction is bound to an interface of its agent.
THEOREM OneTransactionPerAgentAndChannel == RelaySpec => []OneTransactionEach
<1>1. SessionsInv /\ TableInv => OneTransactionEach
  <2> SUFFICES ASSUME SessionsInv, TableInv, NEW e \in Occupied(table), NEW f \in Occupied(table),
                      e # f, table[e].client # NoClient,
                      table[e].client = table[f].client, table[e].channel = table[f].channel
               PROVE  FALSE
    BY DEF OneTransactionEach, TableInv, OnePerAgent
  <2> DEFINE c == table[e].client
  <2>1. table[e] \in Relayed /\ HasEndpoints(table[e]) /\ HasEndpoints(table[f])
    BY EntryOccupied DEF TableInv, TransactionsHaveEndpoints, Occupied
  <2>2. c \in Clients
    BY <2>1 DEF Relayed
  <2>3. PICK k \in LiveChannel(c, table[e].channel) : session[c][k].iface = table[e].iface
    BY <2>1 DEF HasEndpoints
  <2>4. PICK l \in LiveChannel(c, table[e].channel) : session[c][l].iface = table[f].iface
    BY <2>1 DEF HasEndpoints
  <2>5. k = l
    BY <2>2, <2>3, <2>4 DEF LiveChannel, SessionsInv, ChannelsDistinct
  <2>6. table[e].iface.owner = table[f].iface.owner
    BY <2>3, <2>4, <2>5
  <2> QED
    BY <2>6 DEF TableInv, OnePerAgent
<1> QED
  BY <1>1, RelaySessionsInv, TableIsInvariant, PTL

\* Only onClientFrame sends a frame to an agent.
LEMMA FramesComeFromClients ==
    ASSUME RelayNext, NEW m \in out', m.type = "FRAME"
    PROVE  \E c \in Clients, k \in Slots : onClientFrame(c, k)
<1>1. CASE SessionNext
  <2>1. ASSUME NEW es, abandonTransaction(es) PROVE FALSE
    BY <2>1 DEF abandonTransaction, ToAgent
  <2>2. ASSUME NEW as, failAgentTransaction(as) PROVE FALSE
    <3>1. PICK es : m \in {ToClient(table[e].client, table[e].channel, "TXN_STATUS", "hub") :
                              e \in Owned(es)}
      BY <2>2 DEF failAgentTransaction
    <3>2. PICK e \in Owned(es) :
              m = ToClient(table[e].client, table[e].channel, "TXN_STATUS", "hub")
      BY <3>1
    <3>3. m.type = "TXN_STATUS"
      BY <3>2 DEF ToClient
    <3> QED
      BY <3>3
  <2>3. out' # {}
    OBVIOUS
  <2> QED
    BY <1>1, <2>1, <2>2, <2>3 DEF SessionNext, Quiet, Register, AgentGone, Open, Close, ClientGone
<1>2. CASE TransactionNext
  <2>0. ASSUME NEW e, NEW type, NEW what, m \in Answered(e, type, what), type # "FRAME"
        PROVE  FALSE
    BY <2>0 DEF Answered, ToClient
  <2>1. ASSUME NEW c, NEW ch, NEW exclusive, NEW leg, handleTxnBegin(c, ch, exclusive, leg)
        PROVE  FALSE
    <3>1. \A status : ~rejectBegin(c, ch, status)
      BY DEF rejectBegin, ToClient
    <3>2. \A i, e : ~openRelay(c, ch, i, exclusive, e)
      BY DEF openRelay, ToAgent
    <3> QED
      BY <2>1, <3>1, <3>2 DEF handleTxnBegin
  <2>2. ASSUME NEW c, NEW ch, NEW id, handleTxnAbort(c, ch, id) PROVE FALSE
    BY <2>2 DEF handleTxnAbort, abandonTransaction, ToAgent
  <2>3. ASSUME NEW c, NEW ch, NEW isotp, relayTransactionContent(c, ch, isotp) PROVE FALSE
    BY <2>0, <2>3 DEF relayTransactionContent, ToAgent
  <2>4. ASSUME NEW a, NEW ok, NEW id, handleTxnBeginAck(a, ok, id) PROVE FALSE
    BY <2>0, <2>4 DEF handleTxnBeginAck, ToAgent
  <2>5. ASSUME NEW a, NEW id, NEW type \in {"TXN_PROGRESS", "TXN_ROSTER_REPORT"},
               relayReport(a, id, type)
        PROVE  FALSE
    BY <2>0, <2>5 DEF relayReport
  <2>6. ASSUME NEW a, NEW id, NEW end, handleTxnStatus(a, id, end) PROVE FALSE
    BY <2>0, <2>6 DEF handleTxnStatus
  <2>7. ASSUME NEW a, NEW is, handleInterfaceStatus(a, is) PROVE FALSE
    BY <2>7 DEF handleInterfaceStatus
  <2> QED
    BY <1>2, <2>1, <2>2, <2>3, <2>4, <2>5, <2>6, <2>7 DEF TransactionNext
<1> QED
  BY <1>1, <1>2 DEF RelayNext

\* A step of the relay sends no frame past a lease: when active_leases lets
\* the search be skipped there is no lease.
THEOREM LeaseIsRespected == RelaySpec => LeaseRespected
<1>1. TableInv /\ [RelayNext]_vars => [FramesRespectLease]_vars
  <2> SUFFICES ASSUME TableInv, RelayNext, NEW m \in out', m.type = "FRAME"
               PROVE  ~leasedToAnother(table, m.iface, m.from)
    BY DEF FramesRespectLease
  <2>1. PICK c \in Clients, k \in Slots : onClientFrame(c, k)
    BY FramesComeFromClients
  <2>2. m.iface = session[c][k].iface /\ m.from = c
    BY <2>1 DEF onClientFrame
  <2>3. ~channelLeasedToAnother(c, session[c][k])
    BY <2>1 DEF onClientFrame
  <2>4. active_leases = Cardinality(LeasesIn(table, Entry))
    BY DEF TableInv, LeasesCounted
  <2>5. LeasesIn(table, Entry) \in SUBSET Entry
    BY DEF LeasesIn
  <2>6. IsFiniteSet(LeasesIn(table, Entry)) /\ Cardinality(LeasesIn(table, Entry)) \in Nat
    BY <2>5, EntriesFinite
  <2>7. ~(active_leases > 0) => LeasesIn(table, Entry) = {}
    BY <2>4, <2>6, FS_EmptySet
  <2> QED
    BY <2>2, <2>3, <2>7 DEF channelLeasedToAnother, leasedToAnother
<1> QED
  BY <1>1, TableIsInvariant, PTL DEF RelaySpec, LeaseRespected

----------------------------------------------------------------------------
(* Nobody is left out when a transaction ends *)

\* What a step owes to the two ends of an entry it frees.
EndTold(e) ==
    /\ EndsForClient(table[e]) =>
          \E m \in out' : /\ m.to = table[e].client
                          /\ m.type \in {"TXN_BEGIN_ACK", "TXN_STATUS"}
                          /\ m.channel = table[e].channel
    /\ (table[e].state = "active" /\ table[e].iface.owner \in peers') =>
          \/ ToAgent(table[e].iface.owner, "TXN_ABORT", table[e].txn_id) \in out'
          \/ ToClient(table[e].client, table[e].channel, "TXN_STATUS", "agent") \in out'

\* An answer to the entry's client is what the client is owed.
LEMMA AnsweredTold ==
    ASSUME NEW e, NEW type \in {"TXN_BEGIN_ACK", "TXN_STATUS"}, NEW what,
           Answered(e, type, what) \subseteq out', table[e].client \in peers
    PROVE  \E m \in out' : /\ m.to = table[e].client
                           /\ m.type \in {"TXN_BEGIN_ACK", "TXN_STATUS"}
                           /\ m.channel = table[e].channel
<1>1. ToClient(table[e].client, table[e].channel, type, what) \in out'
  BY DEF Answered
<1> QED
  BY <1>1 DEF ToClient

\* Agents that leave: their clients get a TXN_STATUS, and there is no agent to
\* tell (failAgentTransaction).
LEMMA ReleaseTold ==
    ASSUME TableInv, NEW dropped \in SUBSET Agents, NEW joined,
           releaseAgents(dropped, joined), failAgentTransaction(dropped),
           NEW e \in Occupied(table), table'[e] = FreeEntry
    PROVE  EndTold(e)
<1> DEFINE es == UNION {ForAgent(table, a) : a \in dropped}
<1>1. es \in SUBSET Entry /\ e \in Entry /\ table[e] # FreeEntry
  BY DEF ForAgent, Occupied
<1>2. TransactionTable_Close(es)
  BY DEF failAgentTransaction, finishTransaction
<1>3. e \in es
  <2> HIDE DEF es
  <2> QED
    BY <1>1, <1>2, CloseTable DEF TableInv
<1>4. table[e].iface.owner \in dropped /\ peers' = peers \ dropped
  BY <1>3 DEF ForAgent, releaseAgents
<1>5. ASSUME table[e].client \in peers'
      PROVE  \E m \in out' : /\ m.to = table[e].client
                             /\ m.type \in {"TXN_BEGIN_ACK", "TXN_STATUS"}
                             /\ m.channel = table[e].channel
  <2>1. ToClient(table[e].client, table[e].channel, "TXN_STATUS", "hub") \in out'
    BY <1>3, <1>4, <1>5 DEF failAgentTransaction, Owned
  <2> QED
    BY <2>1 DEF ToClient
<1> QED
  BY <1>4, <1>5 DEF EndTold, EndsForClient

\* What the abandoned transactions of a client owe their agents.
LEMMA AbandonTold ==
    ASSUME TableInv, NEW es \in SUBSET Occupied(table), abandonTransaction(es),
           NEW e \in Occupied(table), table'[e] = FreeEntry
    PROVE  /\ e \in es /\ table[e].state = "active"
           /\ ToAgent(table[e].iface.owner, "TXN_ABORT", table[e].txn_id) \in out'
<1>1. e \in Entry /\ table[e] # FreeEntry
  BY DEF Occupied
<1>2. e \in es /\ table[e].state = "active"
  BY <1>1, AbandonTable, FreeEntryIsNone DEF TableInv
<1> QED
  BY <1>2 DEF abandonTransaction, Active

\* CLOSE: the client has given the channel up, the agent gets a TXN_ABORT.
LEMMA CloseTold ==
    ASSUME SessionsInv, TableInv, NEW c \in Clients, NEW k \in Slots, Close(c, k),
           NEW e \in Occupied(table), table'[e] = FreeEntry
    PROVE  EndTold(e)
<1> DEFINE es == ForClientChannel(table, c, session[c][k].channel)
<1>1. es \in SUBSET Occupied(table) /\ abandonTransaction(es) /\ handleClose(c, k)
  BY DEF Close, ForClientChannel, ForClient
<1>2. e \in es /\ ToAgent(table[e].iface.owner, "TXN_ABORT", table[e].txn_id) \in out'
  <2> HIDE DEF es
  <2> QED
    BY <1>1, AbandonTold
<1>3. table[e].client = c /\ table[e].channel = session[c][k].channel
  BY <1>2 DEF ForClientChannel, ForClient
<1>4. session \in [Clients -> Session]
  BY DEF SessionsInv, TypeOK, Session
<1>5. ASSUME NEW l \in InUse(session'[c]) PROVE session'[c][l].channel # session[c][k].channel
  <2>1. l \in Slots /\ l # k /\ session'[c][l] = session[c][l] /\ session[c][l] # Free
    BY <1>1, <1>4, <1>5 DEF handleClose, InUse, Session
  <2>2. session[c][k] # Free
    BY <1>1 DEF handleClose, InUse
  <2> QED
    BY <2>1, <2>2 DEF SessionsInv, ChannelsDistinct, InUse
<1> QED
  BY <1>2, <1>3, <1>5 DEF EndTold, EndsForClient

\* The client leaves: the agents of its transactions get a TXN_ABORT.
LEMMA ClientGoneTold ==
    ASSUME TableInv, NEW c \in Clients, ClientGone(c),
           NEW e \in Occupied(table), table'[e] = FreeEntry
    PROVE  EndTold(e)
<1> DEFINE es == ForClient(table, c)
<1>1. es \in SUBSET Occupied(table) /\ abandonTransaction(es) /\ peers' = peers \ {c}
  BY DEF ClientGone, ForClient, onClientDisconnected
<1>2. e \in es /\ ToAgent(table[e].iface.owner, "TXN_ABORT", table[e].txn_id) \in out'
  <2> HIDE DEF es
  <2> QED
    BY <1>1, AbandonTold
<1> QED
  BY <1>1, <1>2 DEF ForClient, EndTold, EndsForClient

\* The agent's answer to TXN_BEGIN: a refusal is passed on, a grant that comes
\* too late has no client to tell.
LEMMA BeginAckTold ==
    ASSUME TableInv, NEW a \in Agents, NEW ok \in BOOLEAN, NEW id \in TxnIds,
           handleTxnBeginAck(a, ok, id), NEW e \in Occupied(table), table'[e] = FreeEntry
    PROVE  EndTold(e)
<1>1. PICK f \in ForAgent(table, a) :
          /\ table[f].state = "pending"
          /\ \/ TransactionTable_Close({f}) /\ out' = Answered(f, "TXN_BEGIN_ACK", "rejected")
             \/ TransactionTable_Close({f}) /\ table[f].client \notin peers
             \/ Activate(f, id)
  BY DEF handleTxnBeginAck
<1>2. f \in Occupied(table) /\ f \in Entry /\ e \in Entry /\ table[e] # FreeEntry
      /\ {f} \in SUBSET Entry
  BY DEF ForAgent, Occupied
<1>3. peers' = peers
  BY DEF handleTxnBeginAck, sessionVars
<1>4. CASE TransactionTable_Close({f})
  <2>1. e = f
    BY <1>2, <1>4, CloseTable DEF TableInv
  <2>2. CASE out' = Answered(f, "TXN_BEGIN_ACK", "rejected") /\ table[f].client \in peers
    BY <1>1, <2>1, <2>2, AnsweredTold DEF EndTold
  <2>3. CASE table[f].client \notin peers
    BY <1>1, <1>3, <2>1, <2>3 DEF EndTold, EndsForClient
  <2> QED
    BY <1>1, <1>2, <2>1, <2>2, <2>3, FreeEntryIsNone, ActivateTable DEF TableInv
<1>5. CASE Activate(f, id)
  BY <1>1, <1>2, <1>5, FreeEntryIsNone, ActivateTable DEF TableInv
<1> QED
  BY <1>1, <1>4, <1>5

\* The agent reports the end, or the hub refuses a template for it.
LEMMA FinishTold ==
    ASSUME TableInv, NEW f \in Occupied(table), TransactionTable_Close({f}),
           table[f].state = "active",
           \/ out' = Answered(f, "TXN_STATUS", "agent")
           \/ out' = {ToAgent(table[f].iface.owner, "TXN_ABORT", table[f].txn_id)}
                     \cup Answered(f, "TXN_STATUS", "hub"),
           NEW e \in Occupied(table), table'[e] = FreeEntry
    PROVE  EndTold(e)
<1>1. {f} \in SUBSET Entry /\ e \in Entry /\ table[e] # FreeEntry
  BY DEF Occupied
<1>2. e = f
  BY <1>1, CloseTable DEF TableInv
<1>3. table[f].client \in peers
  BY DEF TableInv, TransactionsHaveEndpoints, HasEndpoints
<1>4. \E m \in out' : /\ m.to = table[f].client
                      /\ m.type \in {"TXN_BEGIN_ACK", "TXN_STATUS"}
                      /\ m.channel = table[f].channel
  BY <1>3, AnsweredTold
<1> QED
  BY <1>2, <1>3, <1>4 DEF EndTold, Answered

\* Every step of the relay tells the two ends of an entry it frees.
LEMMA NextTold ==
    ASSUME SessionsInv, TableInv, [RelayNext]_vars, NEW e \in Occupied(table),
           table'[e] = FreeEntry
    PROVE  EndTold(e)
<1>0. table[e] # FreeEntry /\ e \in Entry
  BY DEF Occupied
<1>1. ASSUME table' = table PROVE FALSE
  BY <1>0, <1>1
<1>2. CASE SessionNext
  <2>1. CASE \E a \in Agents :
          \/ \E names \in SUBSET Ifaces \ {{}}, dropped \in SUBSET Agents :
                \/ Register(a, names, dropped, {})
                \/ Register(a, names, dropped, Registration(a, names))
          \/ AgentGone(a)
    <3>1. PICK dropped, joined :
              dropped \in SUBSET Agents /\ releaseAgents(dropped, joined) /\ failAgentTransaction(dropped)
      BY <2>1 DEF Register, AgentGone, handleRegister, onAgentDisconnected
    <3> QED
      BY <3>1, ReleaseTold
  <2>2. CASE \E c \in Clients : (\E k \in Slots : Close(c, k)) \/ ClientGone(c)
    BY <2>2, CloseTold, ClientGoneTold
  <2> QED
    BY <1>1, <1>2, <2>1, <2>2 DEF SessionNext, Quiet, Open
<1>3. CASE TransactionNext
  <2>1. ASSUME NEW c \in Clients, NEW ch \in Channel, NEW exclusive, NEW leg,
               handleTxnBegin(c, ch, exclusive, leg)
        PROVE  FALSE
    <3>1. PICK f, i : f \in Entry /\ table[f] = FreeEntry /\ openRelay(c, ch, i, exclusive, f)
      BY <1>1, <2>1 DEF handleTxnBegin, rejectBegin, FirstFree
    <3>2. e # f
      BY <1>0, <3>1
    <3>3. table'[e] = table[e]
      BY <1>0, <3>1, <3>2 DEF openRelay, TableInv, TableTyped
    <3> QED
      BY <1>0, <3>3
  <2>2. ASSUME NEW c \in Clients, NEW ch \in Channel, NEW id, handleTxnAbort(c, ch, id)
        PROVE  FALSE
    <3>1. PICK f \in ForClientChannel(table, c, ch) :
              table[f].state = "pending" /\ abandonTransaction({f})
      BY <1>1, <2>2 DEF handleTxnAbort
    <3>2. {f} \in SUBSET Occupied(table)
      BY DEF ForClientChannel, ForClient
    <3> QED
      BY <3>1, <3>2, AbandonTold
  <2>3. ASSUME NEW c \in Clients, NEW ch \in Channel, NEW isotp, relayTransactionContent(c, ch, isotp)
        PROVE  EndTold(e)
    <3>1. PICK f \in ForClientChannel(table, c, ch) :
            /\ table[f].state = "active"
            /\ TransactionTable_Close({f})
            /\ out' = {ToAgent(table[f].iface.owner, "TXN_ABORT", table[f].txn_id)}
                      \cup Answered(f, "TXN_STATUS", "hub")
      BY <1>1, <2>3 DEF relayTransactionContent, finishTransaction
    <3>2. f \in Occupied(table)
      BY DEF ForClientChannel, ForClient
    <3> QED
      BY <3>1, <3>2, FinishTold
  <2>4. ASSUME NEW a \in Agents, NEW id, NEW end, handleTxnStatus(a, id, end)
        PROVE  EndTold(e)
    <3>1. PICK f \in ActiveOf(a, id) :
            TransactionTable_Close({f}) /\ out' = Answered(f, "TXN_STATUS", "agent")
      BY <2>4 DEF handleTxnStatus, finishTransaction
    <3>2. f \in Occupied(table) /\ table[f].state = "active"
      BY DEF ActiveOf, ForAgent
    <3> QED
      BY <3>1, <3>2, FinishTold
  <2> QED
    BY <1>1, <1>3, <2>1, <2>2, <2>3, <2>4, BeginAckTold
       DEF TransactionNext, relayReport, handleInterfaceStatus, onClientFrame
<1>4. CASE UNCHANGED vars
  BY <1>1, <1>4 DEF vars, relayVars
<1> QED
  BY <1>2, <1>3, <1>4 DEF RelayNext

\* A transaction never ends behind its client's back.
THEOREM EndsAreToldToClients == RelaySpec => ClientHearsTheEnd
<1>1. SessionsInv /\ TableInv /\ [RelayNext]_vars => [EndsAreTold]_vars
  BY NextTold DEF EndsAreTold, EndTold
<1> QED
  BY <1>1, RelaySessionsInv, TableIsInvariant, PTL DEF RelaySpec, ClientHearsTheEnd

\* No transaction is left running at an agent the hub has forgotten it at.
THEOREM EndsAreToldToAgents == RelaySpec => AgentNotLeftRunning
<1>1. SessionsInv /\ TableInv /\ [RelayNext]_vars => [EndsReachAgent]_vars
  BY NextTold DEF EndsReachAgent, EndTold
<1> QED
  BY <1>1, RelaySessionsInv, TableIsInvariant, PTL DEF RelaySpec, AgentNotLeftRunning

----------------------------------------------------------------------------
(* Counters *)

Counters == {"started", "completed", "aborted", "rejected"}

Ended(m) == m["rejected"] + m["completed"] + m["aborted"]

\* The counters have their types and account for every TXN_BEGIN.
AccountInv ==
    /\ metrics \in [Counters -> Nat]
    /\ begun \in Nat
    /\ BeginsAccounted

\* Entries that are freed are counted as ended.
LEMMA FreedAccounted ==
    ASSUME AccountInv, NEW es \in SUBSET Occupied(table),
           Occupied(table)' = Occupied(table) \ es, begun' = begun,
           metrics' \in [Counters -> Nat],
           Ended(metrics') = Ended(metrics) + Cardinality(es)
    PROVE  AccountInv'
<1>1. Occupied(table) \in SUBSET Entry /\ es \in SUBSET Entry
  BY DEF Occupied
<1>2. /\ IsFiniteSet(Occupied(table)) /\ Cardinality(Occupied(table)) \in Nat
      /\ IsFiniteSet(es) /\ Cardinality(es) \in Nat
  BY <1>1, EntriesFinite
<1>4. Cardinality(Occupied(table) \ es) = Cardinality(Occupied(table)) - Cardinality(es)
  <2> DEFINE all == Occupied(table)
  <2>1. all \cap es = es
    OBVIOUS
  <2> HIDE DEF all
  <2>2. Cardinality(all \ es) = Cardinality(all) - Cardinality(all \cap es)
    BY <1>2, FS_Difference DEF all
  <2> QED
    BY <2>1, <2>2 DEF all
<1>5. Ended(metrics) \in Nat /\ Ended(metrics') \in Nat
  BY DEF Ended, AccountInv, Counters
<1>6. begun = Ended(metrics) + Cardinality(Occupied(table))
  BY DEF AccountInv, BeginsAccounted, Ended
<1>7. begun' = Ended(metrics') + Cardinality(Occupied(table)')
  BY <1>2, <1>4, <1>5, <1>6
<1> QED
  BY <1>7 DEF AccountInv, BeginsAccounted, Ended

\* Nothing ends and nothing begins.
LEMMA SameAccounted ==
    ASSUME AccountInv, Occupied(table)' = Occupied(table), begun' = begun,
           metrics' \in [Counters -> Nat], Ended(metrics') = Ended(metrics)
    PROVE  AccountInv'
  BY DEF AccountInv, BeginsAccounted, Ended

\* What counting n more of a counter does to the sum.
LEMMA CountEnded ==
    ASSUME AccountInv, NEW which \in Counters, NEW n \in Nat, Count(which, n)
    PROVE  /\ metrics' \in [Counters -> Nat]
           /\ which # "started" => Ended(metrics') = Ended(metrics) + n
           /\ which = "started" => Ended(metrics') = Ended(metrics)
  BY DEF AccountInv, Count, Counters, Ended

\* One entry is freed and one end counted.
LEMMA OneAccounted ==
    ASSUME TableInv, AccountInv, NEW e \in Occupied(table), TransactionTable_Close({e}),
           NEW which \in {"completed", "aborted", "rejected"}, Count(which, 1), begun' = begun
    PROVE  AccountInv'
<1>1. {e} \in SUBSET Entry /\ {e} \in SUBSET Occupied(table) /\ Cardinality({e}) = 1
  BY FS_Singleton DEF Occupied
<1>2. Occupied(table)' = Occupied(table) \ {e}
  BY <1>1, CloseTable DEF TableInv, Occupied
<1>3. metrics' \in [Counters -> Nat] /\ Ended(metrics') = Ended(metrics) + 1
  BY CountEnded DEF Counters
<1> QED
  BY <1>1, <1>2, <1>3, FreedAccounted

\* Agents leave.
LEMMA ReleaseAccounted ==
    ASSUME TableInv, AccountInv, NEW as, failAgentTransaction(as), begun' = begun
    PROVE  AccountInv'
<1> DEFINE es == UNION {ForAgent(table, a) : a \in as}
<1>1. es \in SUBSET Entry /\ es \in SUBSET Occupied(table) /\ Active(es) \in SUBSET es
      /\ es \ Active(es) \in SUBSET es
  BY DEF ForAgent, Occupied, Active
<1>2. /\ TransactionTable_Close(es)
      /\ metrics' = [metrics EXCEPT !["aborted"] = @ + Cardinality(Active(es)),
                                    !["rejected"] = @ + Cardinality(es \ Active(es))]
  BY DEF failAgentTransaction, finishTransaction
<1> HIDE DEF es
<1>3. Occupied(table)' = Occupied(table) \ es
  BY <1>1, <1>2, CloseTable DEF TableInv, Occupied
<1>4. /\ IsFiniteSet(es) /\ Cardinality(es) \in Nat
      /\ IsFiniteSet(Active(es)) /\ Cardinality(Active(es)) \in Nat
      /\ Cardinality(es \ Active(es)) \in Nat
  BY <1>1, EntriesFinite
<1>5. Cardinality(es \ Active(es)) = Cardinality(es) - Cardinality(Active(es))
  <2>1. es \cap Active(es) = Active(es)
    BY <1>1
  <2> QED
    BY <1>4, <2>1, FS_Difference
<1>6. metrics' \in [Counters -> Nat]
      /\ Ended(metrics') = Ended(metrics) + (Cardinality(Active(es)) + Cardinality(es \ Active(es)))
  <2>1. PICK x \in Nat, y \in Nat : x = Cardinality(Active(es)) /\ y = Cardinality(es \ Active(es))
    BY <1>4
  <2>2. metrics' = [metrics EXCEPT !["aborted"] = @ + x, !["rejected"] = @ + y]
        /\ metrics \in [Counters -> Nat]
    BY <1>2, <2>1 DEF AccountInv
  <2>3. metrics' \in [Counters -> Nat]
    BY <2>2 DEF Counters
  <2>4. /\ metrics'["aborted"] = metrics["aborted"] + x
        /\ metrics'["rejected"] = metrics["rejected"] + y
        /\ metrics'["completed"] = metrics["completed"]
    BY <2>2 DEF Counters
  <2>5. metrics["aborted"] \in Nat /\ metrics["rejected"] \in Nat /\ metrics["completed"] \in Nat
    BY <2>2 DEF Counters
  <2>6. Ended(metrics') = Ended(metrics) + (x + y)
    BY <2>4, <2>5 DEF Ended
  <2> QED
    BY <2>1, <2>3, <2>6
<1>7. Ended(metrics') = Ended(metrics) + Cardinality(es)
  BY <1>4, <1>5, <1>6
<1> QED
  BY <1>1, <1>3, <1>6, <1>7, FreedAccounted

\* Transactions are abandoned: the active ones count as aborted.
LEMMA AbandonAccounted ==
    ASSUME TableInv, AccountInv, NEW es \in SUBSET Occupied(table), abandonTransaction(es),
           begun' = begun
    PROVE  AccountInv'
<1>1. Active(es) \in SUBSET Occupied(table) /\ Active(es) \in SUBSET Entry
      /\ Count("aborted", Cardinality(Active(es)))
  BY DEF Active, Occupied, abandonTransaction
<1>2. Occupied(table)' = Occupied(table) \ Active(es)
  <2>1. ASSUME NEW e \in Entry
        PROVE  table'[e] # FreeEntry <=> table[e] # FreeEntry /\ e \notin Active(es)
    <3>1. CASE e \in es /\ table'[e] = FreeEntry /\ table[e].state = "active"
      BY <3>1 DEF Active
    <3> QED
      BY <3>1, AbandonTable, FreeEntryIsNone DEF TableInv, Active
  <2> QED
    BY <2>1 DEF Occupied
<1>3. Cardinality(Active(es)) \in Nat
  BY <1>1, EntriesFinite
<1>4. metrics' \in [Counters -> Nat]
      /\ Ended(metrics') = Ended(metrics) + Cardinality(Active(es))
  BY <1>1, <1>3, CountEnded DEF Counters
<1> QED
  BY <1>1, <1>2, <1>4, FreedAccounted

\* A TXN_BEGIN is rejected or takes an entry.
LEMMA BeginAccounted ==
    ASSUME TableInv, AccountInv, NEW c \in Clients, NEW ch \in Channel,
           NEW exclusive, NEW leg, handleTxnBegin(c, ch, exclusive, leg)
    PROVE  AccountInv'
<1>0. begun' = begun + 1
  BY DEF handleTxnBegin
<1>1. Occupied(table) \in SUBSET Entry
  BY DEF Occupied
<1>2. IsFiniteSet(Occupied(table)) /\ Cardinality(Occupied(table)) \in Nat
  BY <1>1, EntriesFinite
<1>3. begun = Ended(metrics) + Cardinality(Occupied(table)) /\ Ended(metrics) \in Nat
  BY DEF AccountInv, BeginsAccounted, Ended, Counters
<1>4. ASSUME metrics' \in [Counters -> Nat],
             Ended(metrics') + Cardinality(Occupied(table)') =
                 Ended(metrics) + Cardinality(Occupied(table)) + 1
      PROVE  AccountInv'
  <2>1. begun' = Ended(metrics') + Cardinality(Occupied(table)')
    BY <1>0, <1>3, <1>4
  <2>2. begun' \in Nat
    BY <1>0 DEF AccountInv
  <2> QED
    BY <1>4, <2>1, <2>2 DEF AccountInv, BeginsAccounted, Ended
<1>5. CASE \E status : rejectBegin(c, ch, status)
  <2>1. Count("rejected", 1) /\ table' = table
    BY <1>5 DEF rejectBegin
  <2>2. Occupied(table)' = Occupied(table)
    BY <2>1 DEF Occupied
  <2>3. metrics' \in [Counters -> Nat] /\ Ended(metrics') = Ended(metrics) + 1
    BY <2>1, CountEnded DEF Counters
  <2> QED
    BY <1>2, <1>3, <1>4, <2>2, <2>3
<1>6. CASE \E e, i : e \in Entry /\ table[e] = FreeEntry /\ openRelay(c, ch, i, exclusive, e)
  <2>1. PICK e, i : e \in Entry /\ table[e] = FreeEntry /\ openRelay(c, ch, i, exclusive, e)
    BY <1>6
  <2>2. PICK new : /\ new # FreeEntry
                   /\ table' = [table EXCEPT ![e] = new]
                   /\ metrics' = metrics
    <3>1. PICK new : /\ new.state = "pending"
                     /\ table' = [table EXCEPT ![e] = new]
                     /\ metrics' = metrics
      BY <2>1 DEF openRelay
    <3>2. new # FreeEntry
      BY <3>1 DEF FreeEntry
    <3> QED
      BY <3>1, <3>2
  <2>3. Occupied(table)' = Occupied(table) \cup {e} /\ e \notin Occupied(table)
    BY <2>1, <2>2 DEF Occupied, TableInv, TableTyped
  <2>4. Cardinality(Occupied(table) \cup {e}) = Cardinality(Occupied(table)) + 1
    BY <1>2, <2>3, FS_AddElement
  <2>5. metrics' \in [Counters -> Nat] /\ Ended(metrics') = Ended(metrics)
    BY <2>2 DEF AccountInv
  <2> QED
    BY <1>2, <1>3, <1>4, <2>3, <2>4, <2>5
<1> QED
  BY <1>5, <1>6 DEF handleTxnBegin, FirstFree

\* The agent's answer.
LEMMA BeginAckAccounted ==
    ASSUME TableInv, AccountInv, NEW a \in Agents, NEW ok \in BOOLEAN, NEW id \in TxnIds,
           handleTxnBeginAck(a, ok, id)
    PROVE  AccountInv'
<1>1. PICK e \in ForAgent(table, a) :
          /\ table[e].state = "pending"
          /\ \/ Count("rejected", 1) /\ TransactionTable_Close({e})
             \/ Count("aborted", 1) /\ TransactionTable_Close({e})
             \/ Count("started", 1) /\ Activate(e, id)
  BY DEF handleTxnBeginAck
<1>2. e \in Occupied(table) /\ begun' = begun
  BY DEF ForAgent, handleTxnBeginAck
<1>3. CASE Count("started", 1) /\ Activate(e, id)
  <2>1. /\ \A f \in Entry : f # e => table'[f] = table[f]
        /\ table'[e] \in Relayed
    BY <1>1, <1>2, <1>3, ActivateTable DEF TableInv
  <2>2. Occupied(table)' = Occupied(table)
    BY <1>2, <2>1, FreeEntryIsNone DEF Occupied
  <2>3. metrics' \in [Counters -> Nat] /\ Ended(metrics') = Ended(metrics)
    BY <1>3, CountEnded DEF Counters
  <2> QED
    BY <1>2, <2>2, <2>3, SameAccounted
<1> QED
  BY <1>1, <1>2, <1>3, OneAccounted

\* Every step of the relay keeps the account.
LEMMA NextAccounted == TableInv /\ AccountInv /\ [RelayNext]_vars => AccountInv'
<1> SUFFICES ASSUME TableInv, AccountInv, [RelayNext]_vars PROVE AccountInv'
  OBVIOUS
<1>1. ASSUME table' = table, metrics' = metrics, begun' = begun PROVE AccountInv'
  BY <1>1 DEF AccountInv, BeginsAccounted, Occupied
<1>2. CASE SessionNext
  <2>1. CASE \E a \in Agents :
          \/ \E names \in SUBSET Ifaces \ {{}}, dropped \in SUBSET Agents :
                \/ Register(a, names, dropped, {})
                \/ Register(a, names, dropped, Registration(a, names))
          \/ AgentGone(a)
    BY <2>1, ReleaseAccounted DEF Register, AgentGone
  <2>2. CASE \E c \in Clients : (\E k \in Slots : Close(c, k)) \/ ClientGone(c)
    <3>1. PICK es : es \in SUBSET Occupied(table) /\ abandonTransaction(es) /\ begun' = begun
      BY <2>2 DEF Close, ClientGone, ForClientChannel, ForClient
    <3> QED
      BY <3>1, AbandonAccounted
  <2> QED
    BY <1>1, <1>2, <2>1, <2>2 DEF SessionNext, Quiet, Open
<1>3. CASE TransactionNext
  <2>1. ASSUME NEW c \in Clients, NEW ch \in Channel, NEW id, handleTxnAbort(c, ch, id)
        PROVE  AccountInv'
    <3>1. PICK e \in ForClientChannel(table, c, ch) :
              abandonTransaction({e}) \/ (table' = table /\ metrics' = metrics)
      BY <2>1 DEF handleTxnAbort
    <3>2. {e} \in SUBSET Occupied(table) /\ begun' = begun
      BY <2>1 DEF ForClientChannel, ForClient, handleTxnAbort
    <3> QED
      BY <1>1, <3>1, <3>2, AbandonAccounted
  <2>2. ASSUME NEW c \in Clients, NEW ch \in Channel, NEW isotp, relayTransactionContent(c, ch, isotp)
        PROVE  AccountInv'
    <3>1. PICK e \in ForClientChannel(table, c, ch) :
            \/ TransactionTable_Close({e}) /\ Count("aborted", 1)
            \/ table' = table /\ metrics' = metrics
      BY <2>2 DEF relayTransactionContent, finishTransaction
    <3>2. e \in Occupied(table) /\ begun' = begun
      BY <2>2 DEF ForClientChannel, ForClient, relayTransactionContent
    <3> QED
      BY <1>1, <3>1, <3>2, OneAccounted
  <2>3. ASSUME NEW a \in Agents, NEW id, NEW end \in {"completed", "aborted"},
               handleTxnStatus(a, id, end)
        PROVE  AccountInv'
    <3>1. PICK e \in ActiveOf(a, id) : TransactionTable_Close({e}) /\ Count(end, 1)
      BY <2>3 DEF handleTxnStatus, finishTransaction
    <3>2. e \in Occupied(table) /\ begun' = begun
      BY <2>3 DEF ActiveOf, ForAgent, handleTxnStatus
    <3> QED
      BY <3>1, <3>2, OneAccounted
  <2> QED
    BY <1>1, <1>3, <2>1, <2>2, <2>3, BeginAccounted, BeginAckAccounted
       DEF TransactionNext, relayReport, handleInterfaceStatus, onClientFrame
<1>4. CASE UNCHANGED vars
  BY <1>1, <1>4 DEF vars, relayVars
<1> QED
  BY <1>2, <1>3, <1>4 DEF RelayNext

\* A hub that has just started has nothing to account for.
LEMMA InitAccounted == RelayInit => AccountInv
<1> SUFFICES ASSUME RelayInit PROVE AccountInv
  OBVIOUS
<1>1. Occupied(table) = {}
  BY DEF RelayInit, relayInit, Occupied
<1>2. metrics = [started |-> 0, completed |-> 0, aborted |-> 0, rejected |-> 0] /\ begun = 0
  BY DEF RelayInit, relayInit
<1>3. Cardinality(Occupied(table)) = 0
  BY <1>1, FS_EmptySet
<1>4. metrics \in [Counters -> Nat]
  BY <1>2 DEF Counters
<1> QED
  BY <1>2, <1>3, <1>4 DEF AccountInv, BeginsAccounted

\* The counters and the table's invariant hold together.
LEMMA AccountIsInvariant == RelaySpec => []AccountInv
  BY InitAccounted, NextAccounted, TableIsInvariant, PTL DEF RelaySpec

\* Every TXN_BEGIN the hub handles ends in exactly one counter or is still in
\* the table: no path that ends a transaction forgets to count it, and none
\* counts it twice.
THEOREM EveryBeginIsAccounted == RelaySpec => []BeginsAccounted
<1>1. AccountInv => BeginsAccounted
  BY DEF AccountInv
<1> QED
  BY <1>1, AccountIsInvariant, PTL

----------------------------------------------------------------------------
(* Types *)

\* The flags are kept per channel.
ToldTyped == told \in [Clients -> SUBSET Channel]

\* An announcement names channels of sessions.
LEMMA AnnounceTyped ==
    ASSUME ToldTyped, NEW seen \in [Clients -> Session], NEW is
    PROVE  announceLease(seen, is) \in [Clients -> SUBSET Channel]
<1>1. ASSUME NEW c \in Clients, NEW js PROVE FirstChannels(seen[c], js) \in SUBSET Channel
  <2>1. \A k \in InUse(seen[c]) : seen[c][k] \in Binding
    BY SlotInUse DEF InUse, Session
  <2> QED
    BY <2>1 DEF FirstChannels, Binding
<1> QED
  BY <1>1 DEF announceLease, ToldTyped

\* Every step keeps the type of the flags.
LEMMA NextToldTyped ==
    SessionsInv /\ SessionsInv' /\ ToldTyped /\ [RelayNext]_vars => ToldTyped'
<1> SUFFICES ASSUME SessionsInv, SessionsInv', ToldTyped, [RelayNext]_vars PROVE ToldTyped'
  OBVIOUS
<1>1. session \in [Clients -> Session] /\ session' \in [Clients -> Session]
  BY DEF SessionsInv, TypeOK, Session
<1>2. ASSUME told' = told PROVE ToldTyped'
  BY <1>2 DEF ToldTyped
<1>3. \A is : announceLease(session, is) \in [Clients -> SUBSET Channel]
  BY <1>1, AnnounceTyped
<1>4. \A is : announceLease(session', is) \in [Clients -> SUBSET Channel]
  BY <1>1, AnnounceTyped
<1>5. ASSUME NEW es, finishTransaction(es) PROVE ToldTyped'
  BY <1>3, <1>5 DEF finishTransaction, ToldTyped
<1>6. CASE SessionNext
  <2>1. ASSUME NEW c \in Clients, NEW k \in Slots, Close(c, k) PROVE ToldTyped'
    BY <1>3, <2>1 DEF Close, ToldTyped
  <2>2. ASSUME NEW c \in Clients, ClientGone(c) PROVE ToldTyped'
    BY <1>3, <2>2 DEF ClientGone, ToldTyped
  <2>3. ASSUME NEW c \in Clients, NEW i, NEW reliable, NEW k, NEW ch, Open(c, i, reliable, k, ch)
        PROVE  ToldTyped'
    BY <1>2, <1>4, <2>3 DEF Open, ToldTyped
  <2>4. ASSUME NEW as, failAgentTransaction(as) PROVE ToldTyped'
    BY <1>5, <2>4 DEF failAgentTransaction
  <2> QED
    BY <1>2, <1>6, <2>1, <2>2, <2>3, <2>4 DEF SessionNext, Quiet, Register, AgentGone
<1>7. CASE TransactionNext
  <2>1. ASSUME NEW c, NEW ch, NEW exclusive, NEW leg, handleTxnBegin(c, ch, exclusive, leg)
        PROVE  ToldTyped'
    BY <1>2, <2>1 DEF handleTxnBegin, rejectBegin, openRelay
  <2>2. ASSUME NEW a, NEW ok, NEW id, handleTxnBeginAck(a, ok, id) PROVE ToldTyped'
    BY <1>2, <1>3, <2>2 DEF handleTxnBeginAck, ToldTyped
  <2>3. ASSUME NEW a, NEW is, handleInterfaceStatus(a, is) PROVE ToldTyped'
    BY <1>3, <2>3 DEF handleInterfaceStatus, ToldTyped
  <2> QED
    BY <1>2, <1>5, <1>7, <2>1, <2>2, <2>3 DEF TransactionNext, handleTxnAbort,
       relayTransactionContent, relayReport, handleTxnStatus, onClientFrame
<1>8. CASE UNCHANGED vars
  BY <1>2, <1>8 DEF vars, relayVars
<1> QED
  BY <1>6, <1>7, <1>8 DEF RelayNext

\* The state of the relay keeps its type.
THEOREM RelayTypeCorrect == RelaySpec => []RelayTypeOK
<1>1. RelayInit => ToldTyped
  BY DEF RelayInit, relayInit, ToldTyped
<1>2. RelaySpec => []ToldTyped
  BY <1>1, NextToldTyped, RelaySessionsInv, PTL DEF RelaySpec
<1>3. SessionsInv /\ TableInv /\ AccountInv /\ ToldTyped => RelayTypeOK
  <2> SUFFICES ASSUME SessionsInv, TableInv, AccountInv, ToldTyped PROVE RelayTypeOK
    OBVIOUS
  <2>1. LeasesIn(table, Entry) \in SUBSET Entry
    BY DEF LeasesIn
  <2>2. active_leases \in Nat
    BY <2>1, EntriesFinite DEF TableInv, LeasesCounted
  <2> QED
    BY <2>2 DEF SessionsInv, TableInv, TableTyped, AccountInv, Counters, ToldTyped, RelayTypeOK
<1> QED
  BY <1>2, <1>3, RelaySessionsInv, TableIsInvariant, AccountIsInvariant, PTL
=============================================================================
