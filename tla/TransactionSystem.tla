------------------------- MODULE TransactionSystem -------------------------
(***************************************************************************)
(* The life of transactions between one client channel, the hub and one    *)
(* agent: the client's sender (client/client.c, client/                    *)
(* transaction_sender.c), the hub's relay (hub/broker.c) and the agent's   *)
(* runner (agent/domain/transaction_runner.c, agent/agent.c).              *)
(*                                                                         *)
(* Over QUIC, control messages travel on the control stream of each        *)
(* connection and the content of a transaction on the channel's reliable   *)
(* stream: four control queues, and two content queues that are ordered on *)
(* their own but not with respect to control.  Messages carry the number   *)
(* of the TXN_BEGIN they belong to (begin), which no code reads: it tells  *)
(* the properties which request a message is really about.                 *)
(***************************************************************************)
EXTENDS Integers, Sequences

CONSTANTS
    IdMod,          \* transaction ids are 1..IdMod - 1 (uint16_t: 2^16)
    LastId,         \* id of the last transaction the agent ran before
    IsoTp,          \* whether the agent's HELLO advertised ISO-TP steps
    EarlyAbort,     \* whether the application aborts before the grant
    BeginMax,       \* bound: TXN_BEGINs of the client
    StepsMax,       \* bound: steps of a transaction
    LossMax         \* bound: losses of the agent's connection

ASSUME SystemAssumption ==
    /\ IdMod \in Nat /\ IdMod > 1 /\ LastId \in 0..(IdMod - 1)
    /\ IsoTp \in BOOLEAN /\ EarlyAbort \in BOOLEAN
    /\ BeginMax \in Nat /\ StepsMax \in Nat /\ LossMax \in Nat

VARIABLES
    sender,     \* the client's TransactionSender
    begun,      \* TXN_BEGINs the client has sent
    aborting,   \* the TXN_BEGINs the client has sent a TXN_ABORT for
    entry,      \* the hub's table entry for the agent
    runner,     \* the agent's TransactionRunner
    link,       \* the agent's connection: up, lost (only the agent has noticed),
                \* severed (only the hub has), down
    losses,     \* connections lost so far
    c2h, h2c,   \* control: client to hub, hub to client
    h2a, a2h,   \* control: hub to agent, agent to hub
    up, down    \* content: client to hub, hub to agent

clientVars == <<sender, begun, aborting>>
linkVars == <<link, losses>>
vars == <<clientVars, entry, runner, linkVars, c2h, h2c, h2a, a2h, up, down>>

NoId == 0
FreeEntry == [state |-> "free", client |-> FALSE, txn_id |-> NoId, begin |-> 0]
Idle == [state |-> "idle", txn_id |-> NoId, defined |-> FALSE, ended |-> FALSE, next_seq |-> 0]

Messages(queue) == {queue[n] : n \in DOMAIN queue}

Begin(n) == [type |-> "TXN_BEGIN", begin |-> n]
Abort(id) == [type |-> "TXN_ABORT", txn_id |-> id]
Ack(n, ok, id) == [type |-> "TXN_BEGIN_ACK", begin |-> n, ok |-> ok, txn_id |-> id]
Status(n, id) == [type |-> "TXN_STATUS", begin |-> n, txn_id |-> id]
Template(n, id, isotp) == [type |-> "TXN_TEMPLATE", begin |-> n, txn_id |-> id, isotp |-> isotp]
Steps(n, id, seq, end) ==
    [type |-> "TXN_STEPS", begin |-> n, txn_id |-> id, first_seq |-> seq, end |-> end]

Init ==
    /\ sender = Idle
    /\ begun = 0
    /\ aborting = {}
    /\ entry = FreeEntry
    /\ runner = [active |-> FALSE, txn_id |-> LastId, begin |-> 0, next_seq |-> 0,
                 steps_ended |-> FALSE, ring |-> <<>>]
    /\ link = "up"
    /\ losses = 0
    /\ c2h = <<>> /\ h2c = <<>> /\ h2a = <<>> /\ a2h = <<>> /\ up = <<>> /\ down = <<>>

----------------------------------------------------------------------------
(* The client *)

ClientOnly == UNCHANGED <<entry, runner, linkVars, h2c, h2a, a2h, down>>

\* Mutant: a second begin while the first is not answered.
Client_BeginTransactionAgain ==
    /\ begun < BeginMax
    /\ sender.state # "running"
    /\ begun' = begun + 1
    /\ c2h' = Append(c2h, Begin(begun + 1))
    /\ sender' = [Idle EXCEPT !.state = "beginning"]
    /\ UNCHANGED <<aborting, up>> /\ ClientOnly

Client_BeginTransaction ==
    /\ begun < BeginMax
    /\ sender.state \notin {"beginning", "running"}
    /\ begun' = begun + 1
    /\ c2h' = Append(c2h, Begin(begun + 1))
    /\ sender' = [Idle EXCEPT !.state = "beginning"]
    /\ UNCHANGED <<aborting, up>> /\ ClientOnly

\* Bound: one template per transaction.
Client_DefineTemplate(isotp) ==
    /\ sender.state = "running" /\ ~sender.defined
    /\ up' = Append(up, Template(begun, sender.txn_id, isotp))
    /\ sender' = [sender EXCEPT !.defined = TRUE]
    /\ UNCHANGED <<begun, aborting, c2h>> /\ ClientOnly

\* TransactionSender_Offer and the flush of its batch.
Client_SendSteps ==
    /\ sender.state = "running" /\ ~sender.ended
    /\ sender.next_seq < StepsMax
    /\ up' = Append(up, Steps(begun, sender.txn_id, sender.next_seq, FALSE))
    /\ sender' = [sender EXCEPT !.next_seq = @ + 1]
    /\ UNCHANGED <<begun, aborting, c2h>> /\ ClientOnly

Client_EndTransaction ==
    /\ sender.state = "running" /\ ~sender.ended
    /\ up' = Append(up, Steps(begun, sender.txn_id, sender.next_seq, TRUE))
    /\ sender' = [sender EXCEPT !.ended = TRUE]
    /\ UNCHANGED <<begun, aborting, c2h>> /\ ClientOnly

\* A begin not granted yet has no id to name, and the sender forgets it.
\* Bound: one TXN_ABORT per begin.
Client_AbortTransaction ==
    /\ begun \notin aborting
    /\ sender.state = "running" \/ (EarlyAbort /\ sender.state = "beginning")
    /\ aborting' = aborting \cup {begun}
    /\ c2h' = Append(c2h, Abort(sender.txn_id))
    /\ sender' = IF sender.state = "beginning" THEN Idle ELSE sender
    /\ UNCHANGED <<begun, up>> /\ ClientOnly

\* TransactionSender_OnBeginAck.
OnBeginAck(m) ==
    sender' = IF sender.state # "beginning" THEN sender
              ELSE IF m.ok THEN [sender EXCEPT !.state = "running", !.txn_id = m.txn_id]
              ELSE [sender EXCEPT !.state = "finished"]

\* Mutant: a status names its transaction only while one runs.
OnStatusOfRunning(m) ==
    sender' = IF sender.state = "running" /\ m.txn_id = sender.txn_id
                THEN [sender EXCEPT !.state = "finished"] ELSE sender

\* TransactionSender_OnStatus: while the begin is not answered any status of
\* the channel is its end.
OnStatus(m) ==
    sender' = IF \/ sender.state = "running" /\ m.txn_id = sender.txn_id
                 \/ sender.state = "beginning"
                THEN [sender EXCEPT !.state = "finished"] ELSE sender

Client_OnControl ==
    /\ h2c # <<>>
    /\ LET m == Head(h2c)
       IN \/ m.type = "TXN_BEGIN_ACK" /\ OnBeginAck(m)
          \/ m.type = "TXN_STATUS" /\ OnStatus(m)
    /\ h2c' = Tail(h2c)
    /\ UNCHANGED <<begun, aborting, entry, runner, linkVars, c2h, h2a, a2h, up, down>>

----------------------------------------------------------------------------
(* The hub *)

\* Nothing sent on a connection that the other side has left arrives.
ToAgent(m) == h2a' = IF link = "up" THEN Append(h2a, m) ELSE h2a
ToClient(m) == h2c' = Append(h2c, m)

\* admitTransaction: the channel is dormant while the agent is away, and the
\* agent is busy while the hub has an entry for it.
hubTxnBegin(m) ==
    IF link \in {"severed", "down"} \/ entry # FreeEntry
      THEN ToClient(Ack(m.begin, FALSE, NoId)) /\ UNCHANGED <<entry, h2a>>
      ELSE /\ entry' = [state |-> "pending", client |-> TRUE, txn_id |-> NoId, begin |-> m.begin]
           /\ ToAgent(m)
           /\ UNCHANGED h2c

\* Mutant: a transaction that runs is not aborted.
hubTxnAbortOfPending(m) ==
    /\ entry' = IF entry.state = "pending" THEN [entry EXCEPT !.client = FALSE] ELSE entry
    /\ UNCHANGED <<h2a, h2c>>

\* handleTxnAbort: a pending transaction loses its client; for an active one
\* the message is relayed as it is.
hubTxnAbort(m) ==
    /\ \/ /\ entry.state = "pending" /\ entry.client
          /\ entry' = [entry EXCEPT !.client = FALSE]
          /\ UNCHANGED h2a
       \/ /\ entry.state = "active"
          /\ ToAgent(m)
          /\ UNCHANGED entry
       \/ /\ ~entry.client
          /\ UNCHANGED <<entry, h2a>>
    /\ UNCHANGED h2c

Hub_OnClientControl ==
    /\ c2h # <<>>
    /\ LET m == Head(c2h)
       IN \/ m.type = "TXN_BEGIN" /\ hubTxnBegin(m)
          \/ m.type = "TXN_ABORT" /\ hubTxnAbort(m)
    /\ c2h' = Tail(c2h)
    /\ UNCHANGED <<clientVars, runner, linkVars, a2h, up, down>>

\* refuseTransaction.
refuseTransaction ==
    /\ ToAgent(Abort(entry.txn_id))
    /\ ToClient(Status(entry.begin, entry.txn_id))
    /\ entry' = FreeEntry

\* relayTransactionContent: only the channel is looked at, not the id.
Hub_OnContent ==
    /\ up # <<>>
    /\ LET m == Head(up)
           active == (entry.state = "active")
           refused == m.type = "TXN_TEMPLATE" /\ m.isotp /\ ~IsoTp
       IN \/ /\ ~active
             /\ UNCHANGED <<entry, h2a, h2c, down>>
          \/ /\ active /\ refused
             /\ refuseTransaction
             /\ UNCHANGED down
          \/ /\ active /\ ~refused
             /\ down' = IF link = "up" THEN Append(down, m) ELSE down
             /\ UNCHANGED <<entry, h2a, h2c>>
    /\ up' = Tail(up)
    /\ UNCHANGED <<clientVars, runner, linkVars, c2h, a2h>>

\* Mutant: a grant that nobody waits for any more is only dropped.
hubTxnBeginAckDropped(m) ==
    \/ /\ entry.state = "pending"
       /\ \/ /\ ~m.ok
             /\ entry' = FreeEntry
             /\ IF entry.client THEN ToClient(m) ELSE UNCHANGED h2c
             /\ UNCHANGED h2a
          \/ /\ m.ok /\ ~entry.client
             /\ entry' = FreeEntry
             /\ UNCHANGED <<h2a, h2c>>
          \/ /\ m.ok /\ entry.client
             /\ entry' = [entry EXCEPT !.state = "active", !.txn_id = m.txn_id]
             /\ ToClient(m)
             /\ UNCHANGED h2a
    \/ /\ entry.state # "pending"
       /\ UNCHANGED <<entry, h2a, h2c>>

hubTxnBeginAck(m) ==
    \/ /\ entry.state = "pending"
       /\ \/ /\ ~m.ok
             /\ entry' = FreeEntry
             /\ IF entry.client THEN ToClient(m) ELSE UNCHANGED h2c
             /\ UNCHANGED h2a
          \/ /\ m.ok /\ ~entry.client
             /\ entry' = FreeEntry
             /\ ToAgent(Abort(m.txn_id))
             /\ UNCHANGED h2c
          \/ /\ m.ok /\ entry.client
             /\ entry' = [entry EXCEPT !.state = "active", !.txn_id = m.txn_id]
             /\ ToClient(m)
             /\ UNCHANGED h2a
    \/ /\ entry.state # "pending"
       /\ UNCHANGED <<entry, h2a, h2c>>

\* handleTxnStatus, activeTransactionOfAgent.
hubTxnStatus(m) ==
    /\ IF entry.state = "active" /\ entry.txn_id = m.txn_id
         THEN entry' = FreeEntry /\ ToClient(m)
         ELSE UNCHANGED <<entry, h2c>>
    /\ UNCHANGED h2a

Hub_OnAgentControl ==
    /\ a2h # <<>>
    /\ LET m == Head(a2h)
       IN \/ m.type = "TXN_BEGIN_ACK" /\ hubTxnBeginAck(m)
          \/ m.type = "TXN_STATUS" /\ hubTxnStatus(m)
    /\ a2h' = Tail(a2h)
    /\ UNCHANGED <<clientVars, runner, linkVars, c2h, up, down>>

Hub_Notices ==
    \/ link = "lost" /\ link' = "down" /\ UNCHANGED losses
    \/ link = "up" /\ losses < LossMax /\ link' = "severed" /\ losses' = losses + 1

\* Mutant: the client is not told that the agent went away.
Hub_OnAgentDisconnectedQuietly ==
    /\ Hub_Notices
    /\ entry' = FreeEntry
    /\ a2h' = <<>>
    /\ UNCHANGED <<clientVars, runner, c2h, h2c, h2a, up, down>>

\* failAgentTransaction, when the hub notices that the connection is gone.
\* What it has sent may still reach an agent that has not noticed.
Hub_OnAgentDisconnected ==
    /\ Hub_Notices
    /\ IF entry.client
         THEN ToClient(Status(entry.begin, entry.txn_id)) ELSE UNCHANGED h2c
    /\ entry' = FreeEntry
    /\ a2h' = <<>>
    /\ UNCHANGED <<clientVars, runner, c2h, h2a, up, down>>

----------------------------------------------------------------------------
(* The agent *)

ToHub(m) == a2h' = IF link = "up" THEN Append(a2h, m) ELSE a2h

\* Mutant: the counter wraps to the id that stands for none.
NextIdWrapped(id) == (id + 1) % IdMod

\* The counter skips 0.
NextId(id) == IF id + 1 = IdMod THEN 1 ELSE id + 1

\* The begin is refused (a transaction runs, or it is invalid) or granted.
TransactionRunner_Begin(m) ==
    \/ ToHub(Ack(m.begin, FALSE, NoId)) /\ UNCHANGED runner
    \/ /\ ~runner.active
       /\ LET id == NextId(runner.txn_id)
          IN /\ runner' = [active |-> TRUE, txn_id |-> id, begin |-> m.begin, next_seq |-> 0,
                           steps_ended |-> FALSE, ring |-> <<>>]
             /\ ToHub(Ack(m.begin, TRUE, id))

\* TransactionRunner_Cancel.
cancelled == [runner EXCEPT !.active = FALSE, !.ring = <<>>]

\* finish: done, or aborted for any reason.
finish ==
    /\ runner' = cancelled
    /\ ToHub(Status(runner.begin, runner.txn_id))

Names(m) == runner.active /\ m.txn_id = runner.txn_id

\* Mutant: an aborted transaction ends without a status.
TransactionRunner_AbortQuietly(m) ==
    /\ runner' = IF Names(m) THEN cancelled ELSE runner
    /\ UNCHANGED a2h

TransactionRunner_Abort(m) == IF Names(m) THEN finish ELSE UNCHANGED <<runner, a2h>>

Agent_OnControlMessage ==
    /\ h2a # <<>>
    /\ LET m == Head(h2a)
       IN \/ m.type = "TXN_BEGIN" /\ TransactionRunner_Begin(m)
          \/ m.type = "TXN_ABORT" /\ TransactionRunner_Abort(m)
    /\ h2a' = Tail(h2a)
    /\ UNCHANGED <<clientVars, entry, linkVars, c2h, h2c, up, down>>

\* One batch: it comes out of order or a record of it is invalid, or it is taken.
takeSteps(m) ==
    \/ finish
    \/ /\ ~runner.steps_ended /\ m.first_seq = runner.next_seq
       /\ runner' = IF m.end THEN [runner EXCEPT !.steps_ended = TRUE]
                    ELSE [runner EXCEPT !.next_seq = @ + 1, !.ring = Append(@, m.begin)]
       /\ UNCHANGED a2h

\* Mutant: steps are taken from any transaction.
PushStepsOfAny(m) == IF runner.active THEN takeSteps(m) ELSE UNCHANGED <<runner, a2h>>

\* TransactionRunner_PushSteps.
PushSteps(m) == IF Names(m) THEN takeSteps(m) ELSE UNCHANGED <<runner, a2h>>

\* A template is taken, or is invalid and ends the transaction
\* (TransactionRunner_DefineTemplate).
DefineTemplate(m) == UNCHANGED <<runner, a2h>> \/ (Names(m) /\ finish)

Agent_OnTransportFrame ==
    /\ down # <<>>
    /\ LET m == Head(down)
       IN \/ m.type = "TXN_TEMPLATE" /\ DefineTemplate(m)
          \/ m.type = "TXN_STEPS" /\ PushSteps(m)
    /\ down' = Tail(down)
    /\ UNCHANGED <<clientVars, entry, linkVars, c2h, h2c, h2a, up>>

\* A tick that gets somewhere: a step completes, or fails (its deadline, the
\* bus); without steps the transaction is done or starves.
TransactionRunner_Tick ==
    /\ runner.active
    /\ \/ /\ runner.ring # <<>>
          /\ runner' = [runner EXCEPT !.ring = Tail(@)]
          /\ UNCHANGED a2h
       \/ finish
    /\ UNCHANGED <<clientVars, entry, linkVars, c2h, h2c, h2a, up, down>>

\* The agent's side of a lost connection.  What it has sent may still reach a
\* hub that has not noticed.
Agent_OnDisconnected ==
    /\ \/ link = "severed" /\ link' = "down" /\ UNCHANGED losses
       \/ link = "up" /\ losses < LossMax /\ link' = "lost" /\ losses' = losses + 1
    /\ runner' = cancelled
    /\ h2a' = <<>> /\ down' = <<>>
    /\ UNCHANGED <<clientVars, entry, c2h, h2c, a2h, up>>

\* The agent registers again.
Agent_Reconnects ==
    /\ link = "down"
    /\ link' = "up"
    /\ UNCHANGED <<clientVars, entry, runner, losses, c2h, h2c, h2a, a2h, up, down>>

ApplicationNext ==
    \/ Client_BeginTransaction
    \/ \E isotp \in BOOLEAN : Client_DefineTemplate(isotp)
    \/ Client_SendSteps
    \/ Client_EndTransaction
    \/ Client_AbortTransaction

Deliver ==
    \/ Client_OnControl
    \/ Hub_OnClientControl
    \/ Hub_OnContent
    \/ Hub_OnAgentControl
    \/ Agent_OnControlMessage
    \/ Agent_OnTransportFrame

Next ==
    \/ ApplicationNext
    \/ Deliver
    \/ TransactionRunner_Tick
    \/ Agent_OnDisconnected
    \/ Hub_OnAgentDisconnected
    \/ Agent_Reconnects

\* Every queue is drained, the runner is ticked at its own deadlines
\* (TransactionRunner_NextWakeUs), and when one side has left a connection the
\* transport of the other times it out.  The application owes nothing, no
\* connection has to fail, and an agent that is away may stay away.
Fairness ==
    /\ WF_vars(Client_OnControl) /\ WF_vars(Hub_OnClientControl)
    /\ WF_vars(Hub_OnContent) /\ WF_vars(Hub_OnAgentControl)
    /\ WF_vars(Agent_OnControlMessage) /\ WF_vars(Agent_OnTransportFrame)
    /\ WF_vars(TransactionRunner_Tick)
    /\ WF_vars(link = "lost" /\ Hub_OnAgentDisconnected)
    /\ WF_vars(link = "severed" /\ Agent_OnDisconnected)

Spec == Init /\ [][Next]_vars /\ Fairness
----------------------------------------------------------------------------
(* Properties *)

Ids == 0..(IdMod - 1)
Control == [type : {"TXN_BEGIN"}, begin : 1..BeginMax]
           \cup [type : {"TXN_ABORT"}, txn_id : Ids]
           \cup [type : {"TXN_BEGIN_ACK"}, begin : 1..BeginMax, ok : BOOLEAN, txn_id : Ids]
           \cup [type : {"TXN_STATUS"}, begin : 1..BeginMax, txn_id : Ids]

\* The variables have their types, and a grant never carries the id 0 that
\* stands for no transaction (TransactionRunner_Begin).
SystemTypeOK ==
    /\ sender.state \in {"idle", "beginning", "running", "finished"}
    /\ sender.txn_id \in Ids /\ sender.next_seq \in 0..StepsMax
    /\ runner.txn_id \in Ids /\ runner.next_seq \in 0..StepsMax
    /\ entry.state \in {"free", "pending", "active"} /\ entry.txn_id \in Ids
    /\ link \in {"up", "lost", "severed", "down"}
    /\ Messages(c2h) \cup Messages(h2c) \cup Messages(h2a) \cup Messages(a2h) \subseteq Control
    /\ \A m \in Messages(a2h) \cup Messages(h2c) :
          m.type = "TXN_BEGIN_ACK" => (m.ok <=> m.txn_id # NoId)

\* No runner works for nobody: the hub knows the transaction it runs, or is
\* about to hear of it, or has sent the TXN_ABORT that ends it
\* (handleTxnBeginAck, refuseTransaction), unless the hub has left the
\* connection and the agent has yet to notice.
NoOrphanRunner ==
    runner.active /\ link # "severed" =>
        \/ entry.state = "active" /\ entry.txn_id = runner.txn_id
        \/ entry.state = "pending" /\ Ack(runner.begin, TRUE, runner.txn_id) \in Messages(a2h)
        \/ Abort(runner.txn_id) \in Messages(h2a)

\* No entry waits for nothing: the agent runs its transaction or the message
\* that moves it on is under way, unless the agent's connection is lost and
\* the hub has yet to notice.
EntryMovesOn ==
    entry # FreeEntry /\ link # "lost" =>
        \/ /\ entry.state = "pending"
           /\ \/ Begin(entry.begin) \in Messages(h2a)
              \/ \E m \in Messages(a2h) : m.type = "TXN_BEGIN_ACK" /\ m.begin = entry.begin
        \/ /\ entry.state = "active"
           /\ \/ runner.active /\ runner.txn_id = entry.txn_id
              \/ Status(entry.begin, entry.txn_id) \in Messages(a2h)

\* No client waits for nothing: a sender that runs has an active entry at the
\* hub or a TXN_STATUS under way; one that begins has its TXN_BEGIN, its
\* pending entry or some answer under way.
ClientMovesOn ==
    /\ sender.state = "running" =>
          \/ entry.state = "active" /\ entry.txn_id = sender.txn_id
          \/ \E m \in Messages(h2c) : m.type = "TXN_STATUS" /\ m.txn_id = sender.txn_id
    /\ sender.state = "beginning" =>
          \/ Begin(begun) \in Messages(c2h)
          \/ entry.state = "pending" /\ entry.begin = begun /\ entry.client
          \/ h2c # <<>>

\* The steps in the runner's ring are those of the transaction it runs, never
\* ones still in flight from an earlier transaction of the same channel
\* (TransactionRunner_PushSteps).
StepsRunForTheirBegin ==
    \A n \in DOMAIN runner.ring : runner.ring[n] = runner.begin

\* The id the sender runs under was granted to its latest TXN_BEGIN: an answer
\* to an earlier request is never taken for it (TransactionSender_OnBeginAck).
AnswersTheRightBegin ==
    sender.state = "running" /\ entry # FreeEntry /\ entry.txn_id = sender.txn_id =>
        entry.begin = begun

\* "TXN_ABORT cancels the transaction" (doc/protocol.md, Cancellation), "even
\* if the grant comes later" (doc/libcanhub.md): while the agent runs what the
\* client has aborted, an abort is still under way to it, or the hub will send
\* one as soon as it sees the grant.
AbortCancels ==
    runner.active /\ runner.begin \in aborting /\ link # "severed" =>
        \/ \E m \in Messages(c2h) \cup Messages(h2a) : m.type = "TXN_ABORT"
        \/ entry.state = "pending" /\ ~entry.client

\* "Messages naming another txn_id than the active one are stale (...) and are
\* discarded" (doc/protocol.md, Lifecycle): content that names another
\* transaction does not end the one the hub relays.
StaleContentDiscarded ==
    [][up # <<>> /\ up' = Tail(up) /\ entry.state = "active"
       /\ Head(up).txn_id # entry.txn_id
       => entry' = entry]_vars

\* Every TXN_BEGIN is answered: by an ack, or by the TXN_STATUS for an agent
\* that went away.
BeginIsAnswered == (sender.state = "beginning") ~> (sender.state # "beginning")

\* An aborted transaction ends at the client, whichever of the abort, the
\* agent's own end and a lost connection comes first.
AbortIsAnswered ==
    (sender.state = "running" /\ begun \in aborting) ~> (sender.state # "running")
=============================================================================
