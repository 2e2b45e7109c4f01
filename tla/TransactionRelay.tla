-------------------------- MODULE TransactionRelay --------------------------
(***************************************************************************)
(* The hub's relay of transactions: the table of transactions it relays,   *)
(* the exclusive lease, the counters, and what every handler that ends a   *)
(* session, a channel or an agent does to them (hub/broker.c "private:     *)
(* transactions", hub/domain/transaction_table.c).                         *)
(*                                                                         *)
(* Clients and agents are unconstrained: any message a peer may send, in   *)
(* any order and with any transaction id, is an input.  out holds the      *)
(* messages the last handler handed to the transport.                      *)
(***************************************************************************)
EXTENDS HubSessions, FiniteSets

CONSTANTS
    Transactions,   \* agents whose HELLO advertised transactions
    IsoTp,          \* agents whose HELLO advertised ISO-TP steps
    TxnIds,         \* transaction ids agents grant
    NoTxn,          \* the txn_id of an entry not granted yet (0)
    NoClient,       \* TRANSACTION_NO_CLIENT
    TableMax,       \* TRANSACTION_TABLE_MAX
    BeginMax,       \* bound: TXN_BEGINs in a behaviour
    OpenModes,      \* bound: reliable flags clients ask for
    BeginModes      \* bound: exclusive flags clients ask for

ASSUME RelayAssumption ==
    /\ NoTxn \notin TxnIds
    /\ NoClient \notin Clients \cup Agents
    /\ TableMax \in Nat \ {0}
    /\ BeginMax \in Nat
    /\ OpenModes \subseteq BOOLEAN
    /\ BeginModes \subseteq BOOLEAN

VARIABLES
    table,          \* TransactionTable.entries
    active_leases,  \* TransactionTable.active_leases
    told,           \* per client, the channels last flagged leased
    metrics,        \* the transaction counters
    begun,          \* TXN_BEGINs handled
    out             \* messages sent by the last handler

relayVars == <<table, active_leases, told, metrics, begun, out>>
vars == <<sessionVars, relayVars>>

Entry == 1..TableMax
FreeEntry == [state |-> "free"]
Relayed == [state : {"pending", "active"}, exclusive : BOOLEAN, iface : Interface,
            client : Clients \cup {NoClient}, channel : Channel,
            txn_id : TxnIds \cup {NoTxn}]

----------------------------------------------------------------------------
(* TransactionTable *)

Occupied(t) == {e \in Entry : t[e] # FreeEntry}

\* Mutant: a transaction that waits for its agent's answer does not count.
ForAgentActiveOnly(t, a) ==
    {e \in Occupied(t) : t[e].iface.owner = a /\ t[e].state = "active"}

ForAgent(t, a) == {e \in Occupied(t) : t[e].iface.owner = a}
ForClient(t, c) == {e \in Occupied(t) : t[e].client = c}
ForClientChannel(t, c, ch) == {e \in ForClient(t, c) : t[e].channel = ch}

holdsLease(entry) == entry # FreeEntry /\ entry.state = "active" /\ entry.exclusive

LeasesIn(t, es) == {e \in es : holdsLease(t[e])}

\* TransactionTable_LeaseHolder finds a holder, and it is not c.
leasedToAnother(t, i, c) ==
    \E e \in LeasesIn(t, Entry) : t[e].iface = i /\ t[e].client # c

\* TransactionTable_AnyLease first: without a lease the frame path looks no
\* further.
channelLeasedToAnother(c, b) == active_leases > 0 /\ leasedToAnother(table, b.iface, c)

\* Mutant: a lease that ends is not counted down.
TransactionTable_CloseKeepingCount(es) ==
    /\ table' = [e \in Entry |-> IF e \in es THEN FreeEntry ELSE table[e]]
    /\ UNCHANGED active_leases

\* Mutant: every entry is counted down as if it held a lease.
TransactionTable_CloseAnyAsLease(es) ==
    /\ table' = [e \in Entry |-> IF e \in es THEN FreeEntry ELSE table[e]]
    /\ active_leases' = active_leases - Cardinality(es)

TransactionTable_Close(es) ==
    /\ table' = [e \in Entry |-> IF e \in es THEN FreeEntry ELSE table[e]]
    /\ active_leases' = active_leases - Cardinality(LeasesIn(table, es))

----------------------------------------------------------------------------
(* Messages *)

ToAgent(a, type, id) == [to |-> a, type |-> type, txn_id |-> id]
ToClient(c, ch, type, what) == [to |-> c, channel |-> ch, type |-> type, what |-> what]

\* relayPaceToClients: every client is told on the first channel it holds on
\* an interface of is.
FirstChannels(s, is) ==
    {s[k].channel : k \in {k \in InUse(s) : \E i \in is : IsFirst(s, i, k)}}

\* Mutant: nobody is told.
announceNothing(seen, is) == told

\* announceLease for the interfaces in is, with the table as the handler
\* leaves it; seen gives the sessions at that moment.
announceLease(seen, is) ==
    [c \in Clients |->
        (told[c] \ FirstChannels(seen[c], is))
        \cup FirstChannels(seen[c], {i \in is : leasedToAnother(table', i, c)})]

Count(which, n) == metrics' = [metrics EXCEPT ![which] = @ + n]

----------------------------------------------------------------------------
(* Ends of a transaction *)

LeasedBy(es) == {table[e].iface : e \in LeasesIn(table, es)}

\* Mutant: the end of a lease is not announced.
finishQuietly(es) == TransactionTable_Close(es) /\ UNCHANGED told

\* finishTransaction for the entries in es.
finishTransaction(es) ==
    /\ TransactionTable_Close(es)
    /\ told' = announceLease(session, LeasedBy(es))

Active(es) == {e \in es : table[e].state = "active"}

\* Mutant: the agent is not told.
abandonQuietly(es) ==
    /\ table' = [e \in Entry |->
                    IF e \in Active(es) THEN FreeEntry
                    ELSE IF e \in es THEN [table[e] EXCEPT !.client = NoClient]
                    ELSE table[e]]
    /\ active_leases' = active_leases - Cardinality(LeasesIn(table, es))
    /\ out' = {}
    /\ Count("aborted", Cardinality(Active(es)))

\* abandonTransaction, all but the announcement: a pending entry stays,
\* without a client, until the agent answers; an active one is aborted at the
\* agent.
abandonTransaction(es) ==
    /\ table' = [e \in Entry |->
                    IF e \in Active(es) THEN FreeEntry
                    ELSE IF e \in es THEN [table[e] EXCEPT !.client = NoClient]
                    ELSE table[e]]
    /\ active_leases' = active_leases - Cardinality(LeasesIn(table, es))
    /\ out' = {ToAgent(table[e].iface.owner, "TXN_ABORT", table[e].txn_id) : e \in Active(es)}
    /\ Count("aborted", Cardinality(Active(es)))

Owned(es) == {e \in es : table[e].client \in peers}

\* Mutant: a transaction the agent had not answered ends without a word.
failOnlyActive(as) ==
    LET es == UNION {ForAgent(table, a) : a \in as}
    IN /\ finishTransaction(es)
       /\ out' = {ToClient(table[e].client, table[e].channel, "TXN_STATUS", "hub") :
                     e \in Owned(Active(es))}
       /\ Count("aborted", Cardinality(Active(es)))

\* failAgentTransaction for the agents in as: the client hears of it, also
\* when the agent had not answered yet.
failAgentTransaction(as) ==
    LET es == UNION {ForAgent(table, a) : a \in as}
    IN /\ finishTransaction(es)
       /\ out' = {ToClient(table[e].client, table[e].channel, "TXN_STATUS", "hub") :
                     e \in Owned(es)}
       /\ metrics' = [metrics EXCEPT !["aborted"] = @ + Cardinality(Active(es)),
                                     !["rejected"] = @ + Cardinality(es \ Active(es))]

----------------------------------------------------------------------------
(* The broker's transaction handlers *)

relayInit ==
    /\ table = [e \in Entry |-> FreeEntry]
    /\ active_leases = 0
    /\ told = [c \in Clients |-> {}]
    /\ metrics = [started |-> 0, completed |-> 0, aborted |-> 0, rejected |-> 0]
    /\ begun = 0
    /\ out = {}

\* The live binding of a channel (ClientSession_InterfaceForChannel).
LiveChannel(c, ch) ==
    {k \in InUse(session[c]) : session[c][k].channel = ch /\ ~session[c][k].dormant}

\* admitTransaction: the status of a TXN_BEGIN on binding slot k.  leg tells
\* whether the transport got a stream for the agent's channel
\* (channel_reliable: a QUIC connection carries 8 of them).
admitTransaction(c, k, leg) ==
    LET b == session[c][k]
    IN IF b.iface \notin registry \/ b.iface.owner \notin peers THEN "invalid"
       ELSE IF b.iface.owner \notin Transactions THEN "unsupported"
       ELSE IF ~b.reliable \/ b.iface \notin mode \/ ~leg THEN "reliable_required"
       ELSE IF ~b.write THEN "write_denied"
       ELSE IF ForAgent(table, b.iface.owner) # {} THEN "busy"
       ELSE "ok"

rejectBegin(c, ch, status) ==
    /\ Count("rejected", 1)
    /\ out' = {ToClient(c, ch, "TXN_BEGIN_ACK", status)}
    /\ UNCHANGED <<table, active_leases, told>>

FirstFree(e) == table[e] = FreeEntry /\ \A f \in 1..(e - 1) : table[f] # FreeEntry

\* TransactionTable_Open and the TXN_BEGIN for the agent.
openRelay(c, ch, i, exclusive, e) ==
    /\ table' = [table EXCEPT ![e] =
                    [state |-> "pending", exclusive |-> exclusive, iface |-> i,
                     client |-> c, channel |-> ch, txn_id |-> NoTxn]]
    /\ out' = {ToAgent(i.owner, "TXN_BEGIN", NoTxn)}
    /\ UNCHANGED <<active_leases, told, metrics>>

handleTxnBegin(c, ch, exclusive, leg) ==
    /\ c \in peers
    /\ begun < BeginMax
    /\ begun' = begun + 1
    /\ \/ LiveChannel(c, ch) = {} /\ rejectBegin(c, ch, "invalid")
       \/ \E k \in LiveChannel(c, ch) :
             LET admitted == admitTransaction(c, k, leg)
                 status == IF Occupied(table) = Entry /\ admitted = "ok" THEN "busy" ELSE admitted
             IN \/ status # "ok" /\ rejectBegin(c, ch, status)
                \/ /\ status = "ok"
                   /\ \E e \in Entry :
                         FirstFree(e) /\ openRelay(c, ch, session[c][k].iface, exclusive, e)
    /\ UNCHANGED sessionVars

Answered(e, type, what) ==
    IF table[e].client \in peers
      THEN {ToClient(table[e].client, table[e].channel, type, what)} ELSE {}

\* Mutant: the lease is not counted.
ActivateUncounted(e, id) ==
    /\ table' = [table EXCEPT ![e].state = "active", ![e].txn_id = id]
    /\ UNCHANGED active_leases

\* TransactionTable_Activate.
Activate(e, id) ==
    /\ table' = [table EXCEPT ![e].state = "active", ![e].txn_id = id]
    /\ active_leases' = IF table[e].exclusive THEN active_leases + 1 ELSE active_leases

\* The three ends of a pending entry: refused by the agent, granted too late,
\* granted.
handleTxnBeginAck(a, ok, id) ==
    /\ a \in peers
    /\ \E e \in ForAgent(table, a) :
          /\ table[e].state = "pending"
          /\ \/ /\ ~ok
                /\ Count("rejected", 1)
                /\ TransactionTable_Close({e})
                /\ out' = Answered(e, "TXN_BEGIN_ACK", "rejected")
                /\ UNCHANGED told
             \/ /\ ok /\ table[e].client \notin peers
                /\ Count("aborted", 1)
                /\ TransactionTable_Close({e})
                /\ out' = {ToAgent(a, "TXN_ABORT", id)}
                /\ UNCHANGED told
             \/ /\ ok /\ table[e].client \in peers
                /\ Count("started", 1)
                /\ Activate(e, id)
                /\ told' = announceLease(session, {i \in {table[e].iface} : table[e].exclusive})
                /\ out' = Answered(e, "TXN_BEGIN_ACK", "ok")
    /\ UNCHANGED <<sessionVars, begun>>

\* activeTransactionOfAgent.
ActiveOf(a, id) ==
    {e \in ForAgent(table, a) : table[e].state = "active" /\ table[e].txn_id = id}

\* handleTxnProgress and handleTxnRosterReport.
relayReport(a, id, type) ==
    /\ a \in peers
    /\ \E e \in ActiveOf(a, id) : out' = Answered(e, type, id)
    /\ UNCHANGED <<sessionVars, table, active_leases, told, metrics, begun>>

handleTxnStatus(a, id, end) ==
    /\ a \in peers
    /\ \E e \in ActiveOf(a, id) :
          /\ Count(end, 1)
          /\ out' = Answered(e, "TXN_STATUS", "agent")
          /\ finishTransaction({e})
    /\ UNCHANGED <<sessionVars, begun>>

\* TXN_ABORT from a client: a pending transaction loses its client, for an
\* active one the message goes to the agent as it is, id included.
handleTxnAbort(c, ch, id) ==
    /\ c \in peers
    /\ \E e \in ForClientChannel(table, c, ch) :
          \/ /\ table[e].state = "pending"
             /\ abandonTransaction({e})
             /\ UNCHANGED told
          \/ /\ table[e].state = "active"
             /\ out' = {ToAgent(table[e].iface.owner, "TXN_ABORT", id)}
             /\ UNCHANGED <<table, active_leases, told, metrics>>
    /\ UNCHANGED <<sessionVars, begun>>

\* A roster, template or batch of steps on the client's channel, once the
\* stream to the agent has room for it (until then it stays on the client's
\* stream).  An ISO-TP template for an agent that cannot run it ends the
\* transaction (refuseTransaction).
relayTransactionContent(c, ch, isotp) ==
    /\ c \in peers
    /\ \E e \in ForClientChannel(table, c, ch) :
          LET a == table[e].iface.owner
          IN /\ table[e].state = "active"
             /\ \/ /\ isotp => a \in IsoTp
                   /\ out' = {ToAgent(a, "TXN_CONTENT", NoTxn)}
                   /\ UNCHANGED <<table, active_leases, told, metrics>>
                \/ /\ isotp /\ a \notin IsoTp
                   /\ out' = {ToAgent(a, "TXN_ABORT", table[e].txn_id)}
                             \cup Answered(e, "TXN_STATUS", "hub")
                   /\ Count("aborted", 1)
                   /\ finishTransaction({e})
    /\ UNCHANGED <<sessionVars, begun>>

\* routeFrame for a client's frame on a channel of a real interface that gets
\* through: writable, not dormant, not leased to another client.
onClientFrame(c, k) ==
    /\ c \in peers
    /\ k \in InUse(session[c])
    /\ LET b == session[c][k]
       IN /\ b.write /\ ~b.dormant /\ b.iface.owner # Hub
          /\ ~channelLeasedToAnother(c, b)
          /\ out' = {[to |-> b.iface.owner, type |-> "FRAME", iface |-> b.iface, from |-> c]}
    /\ UNCHANGED <<sessionVars, table, active_leases, told, metrics, begun>>

\* The agent reports the state of the interfaces in is: every client hears the
\* pace, and the lease flag with it, on the first channel it holds.
handleInterfaceStatus(a, is) ==
    /\ a \in peers
    /\ UNCHANGED <<sessionVars, table, active_leases, metrics, begun>>
    /\ told' = announceLease(session, is)
    /\ out' = {}

----------------------------------------------------------------------------
(* The session handlers, with what they do to transactions *)

Quiet == out' = {} /\ UNCHANGED <<table, active_leases, told, metrics, begun>>

Register(a, names, dropped, joined) ==
    /\ handleRegister(a, names, dropped, joined)
    /\ failAgentTransaction(dropped)
    /\ UNCHANGED begun

AgentGone(a) ==
    /\ onAgentDisconnected(a)
    /\ failAgentTransaction({a})
    /\ UNCHANGED begun

Open(c, i, reliable, k, ch) ==
    /\ handleOpen(c, i, reliable, FALSE, k, ch)
    /\ UNCHANGED <<table, active_leases, metrics, begun>>
    /\ told' = IF leasedToAnother(table, i, c)
                 THEN announceLease(session', {i}) ELSE told
    /\ out' = {}

\* Mutant: CLOSE forgets the transaction of its channel.
CloseLeavingTransaction(c, k) == handleClose(c, k) /\ Quiet

Close(c, k) ==
    LET ch == session[c][k].channel
        es == ForClientChannel(table, c, ch)
    IN /\ handleClose(c, k)
       /\ abandonTransaction(es)
       /\ told' = [announceLease(session, LeasedBy(es)) EXCEPT ![c] = @ \ {ch}]
       /\ UNCHANGED begun

ClientGone(c) ==
    LET es == ForClient(table, c)
    IN /\ onClientDisconnected(c)
       /\ abandonTransaction(es)
       /\ told' = [announceLease(session, LeasedBy(es)) EXCEPT ![c] = {}]
       /\ UNCHANGED begun

RelayInit == Init /\ relayInit

SessionNext ==
    \/ \E p \in Clients \cup Agents : connectPeer(p) /\ Quiet
    \/ \E a \in Agents :
          \/ \E names \in SUBSET Ifaces \ {{}}, dropped \in SUBSET Agents :
                \/ Register(a, names, dropped, {})
                \/ Register(a, names, dropped, Registration(a, names))
          \/ AgentGone(a)
    \/ \E c \in Clients :
          \/ \E i \in registry, reliable \in OpenModes, k \in Slots, ch \in Channel :
                Open(c, i, reliable, k, ch)
          \/ \E k \in Slots : Close(c, k)
          \/ ClientGone(c)
          \/ \E n \in Names, grant \in Grant : handleAdminAclSet(c, n, grant) /\ Quiet
    \/ \E g \in Groups : (openGroupInterface(g) \/ closeGroupInterface(g)) /\ Quiet

TransactionNext ==
    \/ \E c \in Clients, ch \in Channel :
          \/ \E exclusive \in BeginModes, leg \in BOOLEAN : handleTxnBegin(c, ch, exclusive, leg)
          \/ \E id \in TxnIds \cup {NoTxn} : handleTxnAbort(c, ch, id)
          \/ \E isotp \in BOOLEAN : relayTransactionContent(c, ch, isotp)
    \/ \E a \in Agents, id \in TxnIds :
          \/ \E ok \in BOOLEAN : handleTxnBeginAck(a, ok, id)
          \/ \E type \in {"TXN_PROGRESS", "TXN_ROSTER_REPORT"} : relayReport(a, id, type)
          \/ \E end \in {"completed", "aborted"} : handleTxnStatus(a, id, end)
    \/ \E a \in Agents : \E is \in SUBSET InterfacesOf({a}) : handleInterfaceStatus(a, is)
    \/ \E c \in Clients, k \in Slots : onClientFrame(c, k)

RelayNext == SessionNext \/ TransactionNext

RelaySpec == RelayInit /\ [][RelayNext]_vars

----------------------------------------------------------------------------
(* Properties *)

\* The variables have their types.
RelayTypeOK ==
    /\ TypeOK
    /\ table \in [Entry -> Relayed \cup {FreeEntry}]
    /\ active_leases \in Nat
    /\ told \in [Clients -> SUBSET Channel]
    /\ metrics \in [{"started", "completed", "aborted", "rejected"} -> Nat]
    /\ begun \in Nat

\* What a transaction runs on: an interface that is registered, so its agent
\* is connected; if it has a client, that client is connected and its channel
\* is open, live, reliable and bound to that interface, and the agent's
\* channel is still in reliable mode; an active transaction has a client.
HasEndpoints(t) ==
    /\ t.iface \in registry /\ t.iface.owner # Hub
    /\ t.state = "active" => t.client # NoClient
    /\ t.client # NoClient =>
          /\ t.client \in peers
          /\ t.iface \in mode
          /\ \E k \in LiveChannel(t.client, t.channel) :
                session[t.client][k].iface = t.iface /\ session[t.client][k].reliable

\* No transaction outlives what it runs on, whichever of the client, its
\* channel, the agent or its registration goes first (closeClientChannel,
\* releasePeer, abandonTransaction, failAgentTransaction).
TransactionsHaveEndpoints == \A e \in Occupied(table) : HasEndpoints(table[e])

\* At most one transaction per agent, and at most one per client channel, so
\* TransactionTable_ForAgent and TransactionTable_ForClientChannel, which
\* return the first entry they meet, are never ambiguous.
OneTransactionEach ==
    \A e, f \in Occupied(table) :
        \/ e = f
        \/ /\ table[e].iface.owner # table[f].iface.owner
           /\ table[e].client = NoClient
              \/ <<table[e].client, table[e].channel>> # <<table[f].client, table[f].channel>>

\* active_leases, which lets the frame path skip the search for a lease, is
\* the number of leases.
LeasesCounted == active_leases = Cardinality(LeasesIn(table, Entry))

\* A frame this step sends to an agent is not from a client other than the
\* holder of its interface's lease.
FramesRespectLease ==
    \A m \in out' : m.type = "FRAME" =>
        ~leasedToAnother(table, m.iface, m.from)

\* While an interface is leased no frame of a client other than the holder
\* reaches its agent (routeFrame, channelLeasedToAnother).
LeaseRespected == [][FramesRespectLease]_vars

\* A live channel on an interface leased to another client has been flagged
\* leased: the client knew before its frames are dropped.
LeaseFlagSet ==
    \A c \in Clients : \A k \in InUse(session[c]) :
        ~session[c][k].dormant
        /\ leasedToAnother(table, session[c][k].iface, c)
        => session[c][k].channel \in told[c]

\* A channel flagged leased is on an interface leased to another client: the
\* flag is "cleared when it ends" (doc/protocol.md, Exclusive lease), however
\* the lease ends.
LeaseFlagCleared ==
    \A c \in Clients : \A ch \in told[c] :
        \E k \in LiveChannel(c, ch) : leasedToAnother(table, session[c][k].iface, c)

\* An entry t that goes away although its client keeps the channel.
EndsForClient(t) ==
    /\ t.client \in peers'
    /\ \E k \in InUse(session'[t.client]) : session'[t.client][k].channel = t.channel

\* The client of an entry that ends is told in the same step.
EndsAreTold ==
    \A e \in Occupied(table) :
        table'[e] = FreeEntry /\ EndsForClient(table[e]) =>
            \E m \in out' : /\ m.to = table[e].client
                            /\ m.type \in {"TXN_BEGIN_ACK", "TXN_STATUS"}
                            /\ m.channel = table[e].channel

\* A transaction never ends behind its client's back: when an entry goes away
\* and its client keeps the channel, that client is told in the same step, by
\* a refusal or by a TXN_STATUS (failAgentTransaction, handleTxnBeginAck,
\* refuseTransaction).
ClientHearsTheEnd == [][EndsAreTold]_vars

\* An active entry that ends while its agent stays was ended by the agent, or
\* the agent is sent a TXN_ABORT naming it.
EndsReachAgent ==
    \A e \in Occupied(table) :
        LET t == table[e]
        IN (t.state = "active" /\ table'[e] = FreeEntry /\ t.iface.owner \in peers')
           => \/ ToAgent(t.iface.owner, "TXN_ABORT", t.txn_id) \in out'
              \/ ToClient(t.client, t.channel, "TXN_STATUS", "agent") \in out'

\* No transaction keeps running at an agent the hub has forgotten it at: an
\* active entry whose agent stays connected goes away because that agent
\* reported the end, or with a TXN_ABORT naming it (abandonTransaction).
AgentNotLeftRunning == [][EndsReachAgent]_vars

\* Every TXN_BEGIN is accounted for exactly once: rejected, completed,
\* aborted, or still in the table.
BeginsAccounted ==
    begun = metrics["rejected"] + metrics["completed"] + metrics["aborted"]
            + Cardinality(Occupied(table))

\* An admitted TXN_BEGIN always finds a free entry: the table has one per
\* peer, and no entry stays behind.
TableNeverFull ==
    \A c \in Clients : \A k \in InUse(session[c]) :
        c \in peers /\ ~session[c][k].dormant /\ admitTransaction(c, k, TRUE) = "ok"
        => Occupied(table) # Entry
=============================================================================
