---------------------------- MODULE HubSessions ----------------------------
(***************************************************************************)
(* The hub's peers, interface registry and client sessions: which client   *)
(* channel is bound to which interface of which agent connection, and      *)
(* which agent channels the hub has switched to a reliable stream          *)
(* (hub/broker.c, hub/domain/{interface_registry,client_session,           *)
(* hub_peer,peer_directory}.c).                                            *)
(*                                                                         *)
(* The broker is single threaded: one action is one event handler run to   *)
(* its end.  A peer is one connection, and the transports never reuse a    *)
(* peer id, so an agent that reconnects is another peer with the same      *)
(* agent name.  The id an interface gets at registration is unique to that *)
(* registration; it is the pair of the owning peer and the interface name. *)
(***************************************************************************)
EXTENDS Integers

CONSTANTS
    Clients, Agents,    \* peer ids (connections)
    AgentName,          \* the name each agent peer registers
    Key,                \* what HubPeer_IsSameAgent compares
    Reliable,           \* peers whose HELLO advertised reliable channels
    Guarded,            \* clients with a fingerprint: the ACL applies to them
    Ifaces,             \* interface names an agent may register
    Groups,             \* names of bridge groups
    Hub,                \* the owner of virtual interfaces
    BindingsMax,        \* CLIENT_SESSION_BINDINGS_MAX
    ChannelMod          \* number of channel ids (uint8_t: 256)

GroupAgent == "group"

ASSUME SessionsAssumption ==
    /\ Clients \cap Agents = {}
    /\ Guarded \subseteq Clients
    /\ Hub \notin Clients \cup Agents
    /\ \A a \in Agents : AgentName[a] # GroupAgent
    /\ BindingsMax \in Nat \ {0}
    /\ ChannelMod \in Nat
    /\ ChannelMod > BindingsMax

VARIABLES
    peers,          \* peers in the directory, their HELLO handled
    used,           \* peer ids handed out so far
    registry,       \* registered interfaces
    session,        \* per client, its binding slots
    next_channel,   \* per client, where the channel allocation resumes
    mode,           \* agent channels the hub holds in reliable mode
    acl             \* per guarded client and full name, its grant

sessionVars == <<peers, used, registry, session, next_channel, mode, acl>>

Interface == [owner : Agents, iface : Ifaces] \cup [owner : {Hub}, iface : Groups]

\* The namespaced name agent/iface.
FullName(i) ==
    <<IF i.owner = Hub THEN GroupAgent ELSE AgentName[i.owner], i.iface>>

Names == {FullName(i) : i \in Interface}
Grant == {"none", "read", "write"}

Slots == 1..BindingsMax
Channel == 0..(ChannelMod - 1)
Free == [channel |-> -1]
Binding == [channel : Channel, iface : Interface, reliable : BOOLEAN,
            write : BOOLEAN, dormant : BOOLEAN]
EmptySession == [k \in Slots |-> Free]

clientCanRead(c, i) == c \in Guarded => acl[c][FullName(i)] # "none"
clientCanWrite(c, i) == c \in Guarded => acl[c][FullName(i)] = "write"

----------------------------------------------------------------------------
(* ClientSession *)

InUse(s) == {k \in Slots : s[k] # Free}
LiveOn(s, i) == {k \in InUse(s) : ~s[k].dormant /\ s[k].iface = i}

\* The slot ClientSession_ChannelForInterface stops at.
IsFirst(s, i, k) == k \in LiveOn(s, i) /\ \A l \in LiveOn(s, i) : k <= l

\* ClientSession_HoldsReliable does not look at dormant.
HoldsReliable(s, i) == \E k \in InUse(s) : s[k].reliable /\ s[k].iface = i

findFree(s, k) == s[k] = Free /\ \A l \in 1..(k - 1) : s[l] # Free

ChannelFree(s, ch) == \A k \in InUse(s) : s[k].channel # ch

\* Mutant: channels in use are not skipped.
allocateChannelUnchecked(s, next, ch) == ch = next

\* Mutant: one attempt only.
allocateChannelFirstTry(s, next, ch) == ch = next /\ ChannelFree(s, ch)

\* The first channel not in use at or after next, in at most BindingsMax + 1
\* attempts.
allocateChannel(s, next, ch) ==
    \E d \in 0..BindingsMax :
        /\ ch = (next + d) % ChannelMod
        /\ ChannelFree(s, ch)
        /\ \A e \in 0..(d - 1) : ~ChannelFree(s, (next + e) % ChannelMod)

\* Mutant: only the client's first binding is detached.
DetachFirstOnly(s, gone) ==
    [k \in Slots |->
        IF s[k] # Free /\ s[k].iface \in gone
           /\ \A l \in 1..(k - 1) : s[l] # Free => s[l].iface # s[k].iface
          THEN [s[k] EXCEPT !.dormant = TRUE] ELSE s[k]]

DetachInterface(s, gone) ==
    [k \in Slots |->
        IF s[k] # Free /\ s[k].iface \in gone
          THEN [s[k] EXCEPT !.dormant = TRUE] ELSE s[k]]

\* Mutant: the agent's name is not compared.
ReattachesByInterface(b, i) == b # Free /\ b.dormant /\ b.iface.iface = i.iface

\* Whether interface i is the one the dormant binding b waits for.
Reattaches(b, i) == b # Free /\ b.dormant /\ FullName(b.iface) = FullName(i)

\* Mutant: a binding without read grant stays, dormant.
ReattachKeepingDenied(c, s, joined) ==
    [k \in Slots |->
        IF \E i \in joined : Reattaches(s[k], i)
          THEN LET i == CHOOSE i \in joined : Reattaches(s[k], i)
               IN [s[k] EXCEPT !.iface = i, !.write = clientCanWrite(c, i),
                               !.dormant = ~clientCanRead(c, i)]
          ELSE s[k]]

\* ClientSession_ReattachInterface, and the removal of the bindings of a
\* client that lost its read grant while they were dormant.
ReattachInterface(c, s, joined) ==
    [k \in Slots |->
        IF \E i \in joined : Reattaches(s[k], i)
          THEN LET i == CHOOSE i \in joined : Reattaches(s[k], i)
               IN IF clientCanRead(c, i)
                    THEN [s[k] EXCEPT !.iface = i, !.write = clientCanWrite(c, i),
                                      !.dormant = FALSE]
                    ELSE Free
          ELSE s[k]]

----------------------------------------------------------------------------
(* The broker's handlers, as far as sessions go *)

Init ==
    /\ peers = {}
    /\ used = {}
    /\ registry = {}
    /\ session = [c \in Clients |-> EmptySession]
    /\ next_channel = [c \in Clients |-> 0]
    /\ mode = {}
    /\ acl = [c \in Guarded |-> [n \in Names |-> "write"]]

\* A connection is admitted and its HELLO handled.
connectPeer(p) ==
    /\ p \notin used
    /\ peers' = peers \cup {p}
    /\ used' = used \cup {p}
    /\ UNCHANGED <<registry, session, next_channel, mode, acl>>

\* reattachInterface asks for the reliable leg when the first channel that a
\* client holds on the interface is reliable.
ReattachedReliable(i) ==
    \E c \in Clients : \E k \in Slots :
        IsFirst(session'[c], i, k) /\ session'[c][k].reliable

\* Mutant: the reliable legs of the interfaces that left are kept.
RebindKeepingMode(gone, joined) ==
    /\ registry' = (registry \ gone) \cup joined
    /\ session' = [c \in Clients |->
                      ReattachInterface(c, DetachInterface(session[c], gone), joined)]
    /\ mode' = mode \cup {i \in joined : ReattachedReliable(i)}
    /\ UNCHANGED <<used, next_channel, acl>>

\* detachAgent, closeGroupInterface, reattachClientsToAgent and
\* openGroupInterface: interfaces leave the registry and their bindings turn
\* dormant, others join it and take the dormant bindings of their name.
Rebind(gone, joined) ==
    /\ registry' = (registry \ gone) \cup joined
    /\ session' = [c \in Clients |->
                      ReattachInterface(c, DetachInterface(session[c], gone), joined)]
    /\ mode' = (mode \ gone) \cup {i \in joined : ReattachedReliable(i)}
    /\ UNCHANGED <<used, next_channel, acl>>

InterfacesOf(as) == {i \in registry : i.owner \in as}

\* releasePeer for the agents in dropped.
releaseAgents(dropped, joined) ==
    /\ peers' = peers \ dropped
    /\ Rebind(InterfacesOf(dropped), joined)

Registration(a, names) == [owner : {a}, iface : names]

Colliding(a, names) ==
    {i \in registry : FullName(i) \in {FullName(j) : j \in Registration(a, names)}}

\* Mutant: names that are taken are not looked for.
RegisterAgentIgnoringCollisions(a, names, dropped, joined) ==
    dropped = {} /\ joined = Registration(a, names)

\* InterfaceRegistry_RegisterAgent, displaceGhostPeer and the second try: the
\* peers the hub disconnects and the interfaces it registers.  The colliding
\* peer displaceGhostPeer looks at is the owner of the first colliding entry.
RegisterAgent(a, names, dropped, joined) ==
    LET again == InterfacesOf({a}) # {}
        hits == Colliding(a, names)
    IN \/ /\ ~again /\ hits = {}
          /\ dropped = {} /\ joined = Registration(a, names)
       \/ /\ hits # {}
          /\ \E i \in hits :
                /\ i.owner # a /\ Key[i.owner] = Key[a]
                /\ IF again \/ \E j \in hits : j.owner # i.owner
                     THEN dropped = {i.owner, a} /\ joined = {}
                     ELSE dropped = {i.owner} /\ joined = Registration(a, names)
       \/ /\ again \/ hits # {}
          /\ hits # {} => \E i \in hits : i.owner = a \/ Key[i.owner] # Key[a]
          /\ dropped = {a} /\ joined = {}

handleRegister(a, names, dropped, joined) ==
    /\ a \in peers
    /\ RegisterAgent(a, names, dropped, joined)
    /\ releaseAgents(dropped, joined)

\* The agent's connection ends: link lost, kicked, refused or displaced.
onAgentDisconnected(a) ==
    /\ a \in peers
    /\ releaseAgents({a}, {})

openGroupInterface(g) ==
    /\ [owner |-> Hub, iface |-> g] \notin registry
    /\ Rebind({}, {[owner |-> Hub, iface |-> g]})
    /\ UNCHANGED peers

closeGroupInterface(g) ==
    /\ [owner |-> Hub, iface |-> g] \in registry
    /\ Rebind({[owner |-> Hub, iface |-> g]}, {})
    /\ UNCHANGED peers

reliableEndpointsSupport(c, i) == c \in Reliable /\ i.owner \in Reliable

\* An OPEN the hub grants; a refused one changes nothing.
handleOpen(c, i, reliable, want_write, k, ch) ==
    /\ c \in peers
    /\ i \in registry
    /\ clientCanRead(c, i)
    /\ want_write => clientCanWrite(c, i)
    /\ reliable => reliableEndpointsSupport(c, i)
    /\ findFree(session[c], k)
    /\ allocateChannel(session[c], next_channel[c], ch)
    /\ session' = [session EXCEPT ![c][k] =
                      [channel |-> ch, iface |-> i, reliable |-> reliable,
                       write |-> clientCanWrite(c, i), dormant |-> FALSE]]
    /\ next_channel' = [next_channel EXCEPT ![c] = (ch + 1) % ChannelMod]
    /\ mode' = IF reliable THEN mode \cup {i} ELSE mode
    /\ UNCHANGED <<peers, used, registry, acl>>

\* Mutant: the leg stays reliable.
revertNever(freed) == UNCHANGED mode

\* revertAgentChannelIfUnused for the interfaces in freed, once the bindings
\* are gone.
revertAgentChannelIfUnused(freed) ==
    mode' = {i \in mode : i \in freed => \E c \in Clients : HoldsReliable(session'[c], i)}

\* closeClientChannel.
handleClose(c, k) ==
    /\ c \in peers
    /\ k \in InUse(session[c])
    /\ session' = [session EXCEPT ![c][k] = Free]
    /\ revertAgentChannelIfUnused(
           IF session[c][k].reliable THEN {session[c][k].iface} ELSE {})
    /\ UNCHANGED <<peers, used, registry, next_channel, acl>>

\* releasePeer for a client: releaseReliableBindings, then its slot is zeroed.
onClientDisconnected(c) ==
    /\ c \in peers
    /\ session' = [session EXCEPT ![c] = EmptySession]
    /\ revertAgentChannelIfUnused(
           {session[c][k].iface : k \in {l \in InUse(session[c]) : session[c][l].reliable}})
    /\ peers' = peers \ {c}
    /\ UNCHANGED <<used, registry, next_channel, acl>>

\* The administrator grants or revokes; open channels keep what they have.
handleAdminAclSet(c, n, grant) ==
    /\ c \in Guarded
    /\ acl[c][n] # grant
    /\ acl' = [acl EXCEPT ![c][n] = grant]
    /\ UNCHANGED <<peers, used, registry, session, next_channel, mode>>

AgentNext ==
    \E a \in Agents :
        \/ \E names \in SUBSET Ifaces \ {{}}, dropped \in SUBSET Agents :
              \/ handleRegister(a, names, dropped, {})
              \/ handleRegister(a, names, dropped, Registration(a, names))
        \/ onAgentDisconnected(a)

ClientNext ==
    \E c \in Clients :
        \/ \E i \in registry, reliable, want_write \in BOOLEAN, k \in Slots, ch \in Channel :
              handleOpen(c, i, reliable, want_write, k, ch)
        \/ \E k \in Slots : handleClose(c, k)
        \/ onClientDisconnected(c)
        \/ \E n \in Names, grant \in Grant : handleAdminAclSet(c, n, grant)

Next ==
    \/ \E p \in Clients \cup Agents : connectPeer(p)
    \/ AgentNext
    \/ ClientNext
    \/ \E g \in Groups : openGroupInterface(g) \/ closeGroupInterface(g)

Spec == Init /\ [][Next]_sessionVars

----------------------------------------------------------------------------
(* Properties *)

\* The variables have their types, and a client that is not connected has no
\* bindings.
TypeOK ==
    /\ peers \subseteq used
    /\ used \subseteq Clients \cup Agents
    /\ registry \subseteq Interface
    /\ session \in [Clients -> [Slots -> Binding \cup {Free}]]
    /\ next_channel \in [Clients -> Channel]
    /\ mode \subseteq registry
    /\ acl \in [Guarded -> [Names -> Grant]]
    /\ \A c \in Clients \ peers : session[c] = EmptySession

\* Every registered interface belongs to a connected agent (or to the hub),
\* and no two of them have the same agent/iface name: a ghost connection is
\* displaced before its successor registers (handleRegister).
RegistryNamesUnique ==
    /\ \A i \in registry : i.owner \in peers \cup {Hub}
    /\ \A i, j \in registry : FullName(i) = FullName(j) => i = j

\* A client never has two bindings on one channel id, dormant ones included,
\* even after the uint8_t allocation counter wraps (allocateChannel).
ChannelsDistinct ==
    \A c \in Clients : \A k, l \in InUse(session[c]) :
        session[c][k].channel = session[c][l].channel => k = l

\* A binding that is not dormant names a registered interface: no frame or
\* transaction is routed through the entry of an agent that left.
LiveBindingsRegistered ==
    \A c \in Clients : \A k \in InUse(session[c]) :
        ~session[c][k].dormant => session[c][k].iface \in registry

\* A binding stays dormant only while its interface is away: as soon as an
\* agent registers the name again every client has its channel back, or has
\* lost it because its read grant is gone (reattachInterface).
DormantOnlyWhileAway ==
    \A c \in Clients : \A k \in InUse(session[c]) :
        session[c][k].dormant =>
            \A i \in registry : FullName(i) # FullName(session[c][k].iface)

\* The hub keeps an agent channel in reliable mode only while some client
\* holds a live reliable binding on it: the last CLOSE or disconnect gives
\* the agent's stream back (revertAgentChannelIfUnused).
ReliableLegReleased ==
    \A i \in mode : \E c \in Clients : \E k \in LiveOn(session[c], i) :
        session[c][k].reliable

\* A binding that a step leaves in place keeps its channel id, its reliability
\* and its agent/iface name.
BindingsKept ==
    \A c \in Clients : \A k \in InUse(session[c]) \cap InUse(session'[c]) :
        LET was == session[c][k]
            is == session'[c][k]
        IN /\ was.channel = is.channel
           /\ was.reliable = is.reliable
           /\ FullName(was.iface) = FullName(is.iface)

\* A channel id means the same agent/iface name, with the same reliability,
\* from its OPEN to its CLOSE, across any number of agent reconnections
\* (detachInterface, reattachInterface).
ChannelKeepsItsInterface == [][BindingsKept]_sessionVars

\* An OPEN that finds a free slot finds a channel id: the BindingsMax + 1
\* attempts of allocateChannel are enough.
ChannelAlwaysFound ==
    \A c \in Clients : InUse(session[c]) # Slots =>
        \E ch \in Channel : allocateChannel(session[c], next_channel[c], ch)

\* What doc/protocol.md says of a reliable channel: "applies to both
\* directions of the channel"; the agent leg of a live reliable channel is in
\* reliable mode.
ReliableLegKept ==
    \A c \in Clients : \A k \in InUse(session[c]) :
        ~session[c][k].dormant /\ session[c][k].reliable =>
            session[c][k].iface \in mode
=============================================================================
