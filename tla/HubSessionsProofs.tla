------------------------- MODULE HubSessionsProofs -------------------------
(***************************************************************************)
(* The session invariants of HubSessions hold for any number of clients,   *)
(* agents, interfaces, groups, slots and channel ids.                      *)
(*                                                                         *)
(* The conjunction SessionsInv is inductive; its parts need each other.    *)
(* A binding that turns dormant when its agent leaves names an interface   *)
(* that was registered (LiveBindingsRegistered), under a name no other     *)
(* entry has (RegistryNamesUnique), so no registered interface has it any  *)
(* more (DormantOnlyWhileAway); and a reliable leg the hub keeps has a     *)
(* live holder that a detach of other interfaces does not touch.           *)
(***************************************************************************)
EXTENDS HubSessions, TLAPS

SessionsInv ==
    /\ TypeOK
    /\ RegistryNamesUnique
    /\ ChannelsDistinct
    /\ LiveBindingsRegistered
    /\ DormantOnlyWhileAway
    /\ ReliableLegReleased

Session == [Slots -> Binding \cup {Free}]

----------------------------------------------------------------------------
(* Slots *)

\* A slot in use holds a binding, and a binding is never the free slot.
LEMMA SlotInUse ==
    ASSUME NEW s \in Session, NEW k \in Slots
    PROVE  s[k] # Free <=> s[k] \in Binding
<1>1. s[k] \in Binding \cup {Free}
  BY DEF Session
<1>2. Free \notin Binding
  BY SessionsAssumption DEF Free, Binding, Channel
<1> QED
  BY <1>1, <1>2

\* A detach keeps every binding where it is and turns the ones on the gone
\* interfaces dormant.
LEMMA DetachSlot ==
    ASSUME NEW s \in Session, NEW gone, NEW k \in Slots
    PROVE  LET d == DetachInterface(s, gone)
           IN /\ d \in Session
              /\ s[k] = Free => d[k] = Free
              /\ s[k] # Free =>
                    /\ d[k] \in Binding
                    /\ d[k].channel = s[k].channel
                    /\ d[k].iface = s[k].iface
                    /\ d[k].reliable = s[k].reliable
                    /\ d[k].dormant <=> (s[k].dormant \/ s[k].iface \in gone)
<1> DEFINE d == DetachInterface(s, gone)
<1>1. ASSUME NEW l \in Slots
      PROVE  /\ s[l] = Free => d[l] = Free
             /\ s[l] # Free =>
                   /\ d[l] \in Binding
                   /\ d[l].channel = s[l].channel
                   /\ d[l].iface = s[l].iface
                   /\ d[l].reliable = s[l].reliable
                   /\ d[l].dormant <=> (s[l].dormant \/ s[l].iface \in gone)
  <2>1. d[l] = IF s[l] # Free /\ s[l].iface \in gone
                 THEN [s[l] EXCEPT !.dormant = TRUE] ELSE s[l]
    BY DEF DetachInterface
  <2>2. CASE s[l] = Free
    BY <2>1, <2>2
  <2>3. CASE s[l] # Free
    <3>1. s[l] \in Binding
      BY <2>3, SlotInUse
    <3> QED
      BY <2>1, <2>3, <3>1 DEF Binding
  <2> QED
    BY <2>2, <2>3
<1>2. d \in Session
  <2>1. \A l \in Slots : d[l] \in Binding \cup {Free}
    BY <1>1
  <2> QED
    BY <2>1 DEF DetachInterface, Session
<1> QED
  BY <1>1, <1>2

\* A reattach leaves a binding alone, or gives it the joined interface of its
\* name, or frees it.
LEMMA ReattachSlot ==
    ASSUME NEW c \in Clients, NEW s \in Session, NEW joined \in SUBSET Interface,
           NEW k \in Slots
    PROVE  LET r == ReattachInterface(c, s, joined)
           IN /\ r[k] \in Binding \cup {Free}
              /\ \/ r[k] = s[k] /\ \A i \in joined : ~Reattaches(s[k], i)
                 \/ r[k] = Free
                 \/ \E i \in joined :
                       /\ Reattaches(s[k], i)
                       /\ r[k].channel = s[k].channel
                       /\ r[k].reliable = s[k].reliable
                       /\ r[k].iface = i
                       /\ ~r[k].dormant
<1> DEFINE r == ReattachInterface(c, s, joined)
           some == \E i \in joined : Reattaches(s[k], i)
           at == CHOOSE i \in joined : Reattaches(s[k], i)
           bound == [s[k] EXCEPT !.iface = at, !.write = clientCanWrite(c, at),
                                 !.dormant = FALSE]
<1>1. r[k] = IF some THEN IF clientCanRead(c, at) THEN bound ELSE Free ELSE s[k]
  BY DEF ReattachInterface
<1>2. CASE ~some
  BY <1>1, <1>2 DEF Session
<1>3. CASE some /\ ~clientCanRead(c, at)
  BY <1>1, <1>3
<1>4. CASE some /\ clientCanRead(c, at)
  <2>1. at \in joined /\ Reattaches(s[k], at)
    BY <1>4
  <2>2. s[k] \in Binding
    BY <2>1, SlotInUse DEF Reattaches
  <2>3. clientCanWrite(c, at) \in BOOLEAN
    BY Zenon DEF clientCanWrite
  <2>4. r[k] = bound
    BY <1>1, <1>4
  <2>5. bound \in Binding
    <3> HIDE DEF at
    <3> QED
      BY <2>1, <2>2, <2>3 DEF Binding
  <2>6. bound.channel = s[k].channel /\ bound.reliable = s[k].reliable
        /\ bound.iface = at /\ ~bound.dormant
    <3> HIDE DEF at
    <3> QED
      BY <2>2 DEF Binding
  <2> HIDE DEF bound, at
  <2> QED
    BY <2>1, <2>4, <2>5, <2>6
<1> QED
  BY <1>2, <1>3, <1>4

----------------------------------------------------------------------------
(* Interfaces leave and join *)

\* What a binding is after a Rebind, in terms of what it was.
LEMMA RebindSlot ==
    ASSUME session \in [Clients -> Session], NEW gone, NEW joined \in SUBSET Interface,
           Rebind(gone, joined), NEW c \in Clients, NEW k \in Slots
    PROVE  LET was == session[c][k]
               is == session'[c][k]
           IN /\ is \in Binding \cup {Free}
              /\ is # Free =>
                    /\ was # Free
                    /\ is.channel = was.channel
                    /\ is.reliable = was.reliable
                    /\ FullName(is.iface) = FullName(was.iface)
                    /\ \/ /\ is.iface = was.iface
                          /\ is.dormant <=> (was.dormant \/ was.iface \in gone)
                          /\ is.dormant => \A i \in joined : FullName(i) # FullName(is.iface)
                       \/ is.iface \in joined /\ ~is.dormant
              /\ was # Free /\ ~was.dormant /\ was.iface \notin gone =>
                    /\ is # Free
                    /\ ~is.dormant
                    /\ is.iface = was.iface
                    /\ is.reliable = was.reliable
<1> DEFINE was == session[c][k]
           d == DetachInterface(session[c], gone)
           r == ReattachInterface(c, d, joined)
<1>1. session'[c] = r
  BY DEF Rebind
<1>2. session[c] \in Session
  OBVIOUS
<1>3. /\ d \in Session
      /\ was = Free => d[k] = Free
      /\ was # Free =>
            /\ d[k] \in Binding
            /\ d[k].channel = was.channel
            /\ d[k].iface = was.iface
            /\ d[k].reliable = was.reliable
            /\ d[k].dormant <=> (was.dormant \/ was.iface \in gone)
  BY <1>2, DetachSlot
<1>4. /\ r[k] \in Binding \cup {Free}
      /\ \/ r[k] = d[k] /\ \A i \in joined : ~Reattaches(d[k], i)
         \/ r[k] = Free
         \/ \E i \in joined :
               /\ Reattaches(d[k], i)
               /\ r[k].channel = d[k].channel
               /\ r[k].reliable = d[k].reliable
               /\ r[k].iface = i
               /\ ~r[k].dormant
  BY <1>3, ReattachSlot
<1>5. Free \notin Binding
  BY SessionsAssumption DEF Free, Binding, Channel
<1> HIDE DEF d, r
<1>6. CASE r[k] = d[k] /\ \A i \in joined : ~Reattaches(d[k], i)
  BY <1>1, <1>3, <1>4, <1>5, <1>6 DEF Reattaches
<1>7. CASE r[k] = Free
  <2>1. ASSUME was # Free, ~was.dormant, was.iface \notin gone
        PROVE  FALSE
    <3>1. d[k] \in Binding /\ ~d[k].dormant
      BY <1>3, <2>1
    <3>2. \A i \in joined : ~Reattaches(d[k], i)
      BY <3>1 DEF Reattaches
    <3>3. r[k] = d[k]
      BY <1>3, <3>2, <1>2 DEF ReattachInterface, r
    <3> QED
      BY <3>1, <3>3, <1>7, <1>5
  <2> QED
    BY <1>1, <1>7, <2>1
<1>8. CASE \E i \in joined :
               /\ Reattaches(d[k], i)
               /\ r[k].channel = d[k].channel
               /\ r[k].reliable = d[k].reliable
               /\ r[k].iface = i
               /\ ~r[k].dormant
  <2>1. d[k] # Free /\ d[k].dormant /\ FullName(d[k].iface) = FullName(r[k].iface)
        /\ r[k].iface \in joined
    BY <1>8 DEF Reattaches
  <2> QED
    BY <1>1, <1>3, <1>4, <1>8, <2>1
<1> QED
  BY <1>4, <1>6, <1>7, <1>8

\* A Rebind preserves the invariant when the interfaces that join have names
\* nobody else has, owners that are connected, and clients stay.
LEMMA RebindInv ==
    ASSUME SessionsInv,
           NEW gone \in SUBSET registry, NEW joined \in SUBSET Interface,
           Rebind(gone, joined),
           peers' \subseteq used,
           peers' \cap Clients = peers \cap Clients,
           \A i \in (registry \ gone) \cup joined : i.owner \in peers' \cup {Hub},
           \A i, j \in joined : FullName(i) = FullName(j) => i = j,
           \A i \in registry \ gone, j \in joined : FullName(i) # FullName(j)
    PROVE  SessionsInv'
<1> USE DEF SessionsInv
<1>0. session \in [Clients -> Session]
  BY DEF TypeOK, Session
<1>1. registry' = (registry \ gone) \cup joined /\ used' = used
      /\ next_channel' = next_channel /\ acl' = acl
  BY DEF Rebind
<1>s. ASSUME NEW c \in Clients, NEW k \in Slots
      PROVE  LET was == session[c][k]
                 is == session'[c][k]
             IN /\ is \in Binding \cup {Free}
                /\ is # Free =>
                      /\ was # Free
                      /\ is.channel = was.channel
                      /\ is.reliable = was.reliable
                      /\ FullName(is.iface) = FullName(was.iface)
                      /\ \/ /\ is.iface = was.iface
                            /\ is.dormant <=> (was.dormant \/ was.iface \in gone)
                            /\ is.dormant => \A i \in joined : FullName(i) # FullName(is.iface)
                         \/ is.iface \in joined /\ ~is.dormant
                /\ was # Free /\ ~was.dormant /\ was.iface \notin gone =>
                      /\ is # Free
                      /\ ~is.dormant
                      /\ is.iface = was.iface
                      /\ is.reliable = was.reliable
  BY <1>0, RebindSlot
<1>2. TypeOK'
  <2>1. session' \in [Clients -> Session]
    <3>1. \A c \in Clients : session'[c] \in Session
      <4> SUFFICES ASSUME NEW c \in Clients PROVE session'[c] \in Session
        OBVIOUS
      <4>1. session'[c] = ReattachInterface(c, DetachInterface(session[c], gone), joined)
        BY DEF Rebind
      <4>2. \A k \in Slots : session'[c][k] \in Binding \cup {Free}
        BY <1>s
      <4> QED
        BY <4>1, <4>2 DEF ReattachInterface, Session
    <3> QED
      BY <3>1 DEF Rebind
  <2>2. ASSUME NEW c \in Clients \ peers'
        PROVE  session'[c] = EmptySession
    <3>1. session[c] = EmptySession
      BY <2>2 DEF TypeOK
    <3>2. \A k \in Slots : session[c][k] = Free
      BY <3>1 DEF EmptySession
    <3>3. \A k \in Slots : session'[c][k] = Free
      BY <1>s, <3>2
    <3>4. session'[c] \in Session
      BY <2>1
    <3> QED
      BY <3>3, <3>4 DEF EmptySession, Session
  <2>3. mode' \subseteq registry'
    BY <1>1 DEF Rebind, TypeOK
  <2>4. registry' \subseteq Interface
    BY <1>1 DEF TypeOK
  <2> QED
    BY <1>1, <2>1, <2>2, <2>3, <2>4 DEF TypeOK, Session
<1>3. RegistryNamesUnique'
  <2>1. \A i \in registry' : i.owner \in peers' \cup {Hub}
    BY <1>1
  <2>2. ASSUME NEW i \in registry', NEW j \in registry', FullName(i) = FullName(j)
        PROVE  i = j
    BY <1>1, <2>2 DEF RegistryNamesUnique
  <2> QED
    BY <2>1, <2>2 DEF RegistryNamesUnique
<1>4. ChannelsDistinct'
  BY <1>s DEF ChannelsDistinct, InUse
<1>5. LiveBindingsRegistered'
  <2> SUFFICES ASSUME NEW c \in Clients, NEW k \in Slots, session'[c][k] # Free,
                      ~session'[c][k].dormant
               PROVE  session'[c][k].iface \in registry'
    BY DEF LiveBindingsRegistered, InUse
  <2> QED
    BY <1>s, <1>1 DEF LiveBindingsRegistered, InUse
<1>6. DormantOnlyWhileAway'
  <2> SUFFICES ASSUME NEW c \in Clients, NEW k \in Slots, session'[c][k] # Free,
                      session'[c][k].dormant, NEW i \in registry'
               PROVE  FullName(i) # FullName(session'[c][k].iface)
    BY DEF DormantOnlyWhileAway, InUse
  <2>1. /\ session[c][k] # Free
        /\ session'[c][k].iface = session[c][k].iface
        /\ session[c][k].dormant \/ session[c][k].iface \in gone
        /\ \A j \in joined : FullName(j) # FullName(session'[c][k].iface)
    BY <1>s
  <2>2. CASE i \in joined
    BY <2>1, <2>2
  <2>3. CASE i \in registry \ gone /\ session[c][k].dormant
    BY <2>1, <2>3 DEF DormantOnlyWhileAway, InUse
  <2>4. CASE i \in registry \ gone /\ session[c][k].iface \in gone
    BY <2>1, <2>4 DEF RegistryNamesUnique
  <2> QED
    BY <1>1, <2>1, <2>2, <2>3, <2>4
<1>7. ReliableLegReleased'
  <2> SUFFICES ASSUME NEW i \in mode'
               PROVE  \E c \in Clients : \E k \in Slots :
                         /\ session'[c][k] # Free /\ ~session'[c][k].dormant
                         /\ session'[c][k].iface = i /\ session'[c][k].reliable
    BY DEF ReliableLegReleased, LiveOn, InUse
  <2>1. CASE i \in mode \ gone
    <3>1. PICK c \in Clients, k \in Slots :
              /\ session[c][k] # Free /\ ~session[c][k].dormant
              /\ session[c][k].iface = i /\ session[c][k].reliable
      BY <2>1 DEF ReliableLegReleased, LiveOn, InUse
    <3> QED
      BY <3>1, <2>1, <1>s
  <2>2. CASE i \in joined /\ ReattachedReliable(i)
    BY <2>2 DEF ReattachedReliable, IsFirst, LiveOn, InUse
  <2> QED
    BY <2>1, <2>2 DEF Rebind
<1> QED
  BY <1>2, <1>3, <1>4, <1>5, <1>6, <1>7

----------------------------------------------------------------------------
(* One lemma per handler *)

\* A hub that has just started has no session.
LEMMA InitSessions == Init => SessionsInv
<1> SUFFICES ASSUME Init PROVE SessionsInv
  OBVIOUS
<1>1. \A c \in Clients : InUse(session[c]) = {}
  BY DEF Init, EmptySession, InUse
<1>2. TypeOK
  <2>1. EmptySession \in [Slots -> Binding \cup {Free}]
    BY DEF EmptySession
  <2>2. 0 \in Channel
    BY SessionsAssumption DEF Channel
  <2>3. "write" \in Grant
    BY DEF Grant
  <2> QED
    BY <2>1, <2>2, <2>3 DEF Init, TypeOK
<1> QED
  BY <1>1, <1>2 DEF SessionsInv, RegistryNamesUnique, ChannelsDistinct,
       LiveBindingsRegistered, DormantOnlyWhileAway, ReliableLegReleased, Init

\* A new peer has no binding and no interface (onPeerConnected, handleHello).
LEMMA ConnectSessions ==
    ASSUME SessionsInv, NEW p \in Clients \cup Agents, connectPeer(p)
    PROVE  SessionsInv'
<1> USE DEF SessionsInv, connectPeer
<1>1. TypeOK'
  BY DEF TypeOK
<1>2. RegistryNamesUnique'
  BY DEF RegistryNamesUnique
<1>3. ChannelsDistinct' /\ LiveBindingsRegistered' /\ DormantOnlyWhileAway'
  BY DEF ChannelsDistinct, LiveBindingsRegistered, DormantOnlyWhileAway, InUse
<1>4. ReliableLegReleased'
  BY DEF ReliableLegReleased, LiveOn, InUse
<1> QED
  BY <1>1, <1>2, <1>3, <1>4

\* Agents are released and a connected one that stays registers interfaces
\* with names no remaining entry has.
LEMMA ReleaseSessions ==
    ASSUME SessionsInv, NEW dropped \in SUBSET Agents, NEW a \in peers \ dropped,
           NEW names \in SUBSET Ifaces, a \in Agents,
           releaseAgents(dropped, Registration(a, names)),
           \A i \in registry : i.owner \notin dropped =>
               \A j \in Registration(a, names) : FullName(i) # FullName(j)
    PROVE  SessionsInv'
<1> DEFINE gone == InterfacesOf(dropped)
           joined == Registration(a, names)
<1>1. joined \in SUBSET Interface
  BY DEF Registration, Interface
<1>2. gone \in SUBSET registry /\ \A i \in registry \ gone : i.owner \notin dropped
  BY DEF InterfacesOf
<1>3. peers' = peers \ dropped /\ Rebind(gone, joined)
  BY DEF releaseAgents
<1>4. peers' \subseteq used
  BY <1>3 DEF SessionsInv, TypeOK
<1>5. peers' \cap Clients = peers \cap Clients
  BY <1>3, SessionsAssumption
<1>6. \A i \in joined : i.owner = a
  BY DEF Registration
<1>7. \A i \in (registry \ gone) \cup joined : i.owner \in peers' \cup {Hub}
  BY <1>2, <1>3, <1>6 DEF SessionsInv, RegistryNamesUnique
<1>8. \A i, j \in joined : FullName(i) = FullName(j) => i = j
  <2> SUFFICES ASSUME NEW i \in joined, NEW j \in joined,
                      FullName(i) = FullName(j)
               PROVE  i = j
    OBVIOUS
  <2>1. i.iface = j.iface
    BY DEF FullName
  <2> QED
    BY <2>1 DEF Registration
<1>9. \A i \in registry \ gone, j \in joined : FullName(i) # FullName(j)
  BY <1>2
<1> HIDE DEF gone, joined
<1> QED
  BY <1>1, <1>2, <1>3, <1>4, <1>5, <1>7, <1>8, <1>9, RebindInv

\* Agents are released and nothing joins.
LEMMA DropSessions ==
    ASSUME SessionsInv, NEW dropped \in SUBSET Agents, releaseAgents(dropped, {})
    PROVE  SessionsInv'
<1> DEFINE gone == InterfacesOf(dropped)
<1>2. gone \in SUBSET registry /\ \A i \in registry \ gone : i.owner \notin dropped
  BY DEF InterfacesOf
<1>3. peers' = peers \ dropped /\ Rebind(gone, {})
  BY DEF releaseAgents
<1>4. peers' \subseteq used
  BY <1>3 DEF SessionsInv, TypeOK
<1>5. peers' \cap Clients = peers \cap Clients
  BY <1>3, SessionsAssumption
<1>7. \A i \in (registry \ gone) \cup {} : i.owner \in peers' \cup {Hub}
  BY <1>2, <1>3 DEF SessionsInv, RegistryNamesUnique
<1> HIDE DEF gone
<1> QED
  BY <1>2, <1>3, <1>4, <1>5, <1>7, RebindInv

\* A REGISTER displaces the ghosts whose names it takes, or registers nothing
\* (handleRegister, RegisterAgent, displaceGhostPeer).
LEMMA RegisterSessions ==
    ASSUME SessionsInv, NEW a \in Agents, NEW names \in SUBSET Ifaces,
           NEW dropped \in SUBSET Agents, NEW joined,
           handleRegister(a, names, dropped, joined)
    PROVE  SessionsInv'
<1>1. a \in peers /\ RegisterAgent(a, names, dropped, joined) /\ releaseAgents(dropped, joined)
  BY DEF handleRegister
<1>2. CASE joined = {}
  BY <1>1, <1>2, DropSessions
<1>3. CASE joined # {}
  <2>1. /\ joined = Registration(a, names)
        /\ a \notin dropped
        /\ \A i \in Colliding(a, names) : i.owner \in dropped
    BY <1>1, <1>3 DEF RegisterAgent
  <2>2. \A i \in registry : i.owner \notin dropped =>
            \A j \in joined : FullName(i) # FullName(j)
    BY <2>1 DEF Colliding
  <2> QED
    BY <1>1, <2>1, <2>2, ReleaseSessions
<1> QED
  BY <1>2, <1>3

\* An agent that leaves is a release of that agent (onPeerDisconnected).
LEMMA AgentGoneSessions ==
    ASSUME SessionsInv, NEW a \in Agents, onAgentDisconnected(a)
    PROVE  SessionsInv'
BY DropSessions DEF onAgentDisconnected

\* A bridge group's virtual interface comes and goes like an agent's; no
\* agent has its name.
LEMMA GroupSessions ==
    ASSUME SessionsInv, NEW g \in Groups, openGroupInterface(g) \/ closeGroupInterface(g)
    PROVE  SessionsInv'
<1> DEFINE i == [owner |-> Hub, iface |-> g]
<1>0. peers' = peers /\ i \in Interface /\ i.owner = Hub
  BY DEF openGroupInterface, closeGroupInterface, Interface
<1>1. CASE openGroupInterface(g)
  <2>1. i \notin registry /\ Rebind({}, {i})
    BY <1>1 DEF openGroupInterface
  <2>2. ASSUME NEW j \in registry
        PROVE  FullName(j) # FullName(i)
    <3>1. j \in Interface
      BY DEF SessionsInv, TypeOK
    <3>2. CASE j.owner = Hub
      <4>1. j \in [owner : {Hub}, iface : Groups]
        BY <3>1, <3>2, SessionsAssumption DEF Interface
      <4>2. j.iface # g
        BY <4>1, <2>1
      <4> QED
        BY <4>2 DEF FullName
    <3>3. CASE j.owner # Hub
      <4>1. j.owner \in Agents
        BY <3>1, <3>3 DEF Interface
      <4>2. AgentName[j.owner] # GroupAgent
        BY <4>1, SessionsAssumption
      <4> QED
        BY <3>3, <4>2 DEF FullName
    <3> QED
      BY <3>2, <3>3
  <2>3. \A j \in (registry \ {}) \cup {i} : j.owner \in peers' \cup {Hub}
    BY <1>0 DEF SessionsInv, RegistryNamesUnique
  <2>4. peers' \subseteq used /\ peers' \cap Clients = peers \cap Clients
    BY <1>0 DEF SessionsInv, TypeOK
  <2>5. {} \in SUBSET registry /\ {i} \in SUBSET Interface
    BY <1>0
  <2> HIDE DEF i
  <2> QED
    BY <2>1, <2>2, <2>3, <2>4, <2>5, RebindInv
<1>2. CASE closeGroupInterface(g)
  <2>1. i \in registry /\ Rebind({i}, {})
    BY <1>2 DEF closeGroupInterface
  <2>3. \A j \in (registry \ {i}) \cup {} : j.owner \in peers' \cup {Hub}
    BY <1>0 DEF SessionsInv, RegistryNamesUnique
  <2>4. peers' \subseteq used /\ peers' \cap Clients = peers \cap Clients
    BY <1>0 DEF SessionsInv, TypeOK
  <2> HIDE DEF i
  <2> QED
    BY <2>1, <2>3, <2>4, RebindInv
<1> QED
  BY <1>1, <1>2

\* OPEN fills a free slot under a channel id no other slot has (handleOpen).
LEMMA OpenSessions ==
    ASSUME SessionsInv, NEW c \in Clients, NEW i \in registry, NEW reliable \in BOOLEAN,
           NEW want_write \in BOOLEAN, NEW k \in Slots, NEW ch \in Channel,
           handleOpen(c, i, reliable, want_write, k, ch)
    PROVE  SessionsInv'
<1> USE DEF SessionsInv
<1> DEFINE b == [channel |-> ch, iface |-> i, reliable |-> reliable,
                 write |-> clientCanWrite(c, i), dormant |-> FALSE]
<1>1. /\ c \in peers /\ peers' = peers /\ used' = used /\ registry' = registry /\ acl' = acl
      /\ session' = [session EXCEPT ![c][k] = b]
      /\ session[c][k] = Free
      /\ ChannelFree(session[c], ch)
  BY DEF handleOpen, findFree, allocateChannel
<1>2. clientCanWrite(c, i) \in BOOLEAN
  BY Zenon DEF clientCanWrite
<1>3. /\ b \in Binding /\ b # Free
      /\ b.channel = ch /\ b.iface = i /\ b.reliable = reliable /\ b.dormant = FALSE
  <2>1. b \in Binding
    BY <1>2 DEF Binding, TypeOK
  <2>2. Free \notin Binding
    BY SessionsAssumption DEF Free, Binding, Channel
  <2> QED
    BY <2>1, <2>2
<1>4. session \in [Clients -> Session]
  BY DEF TypeOK, Session
<1> HIDE DEF b
<1>5. /\ session' \in [Clients -> Session]
      /\ session'[c][k] = b
      /\ \A d \in Clients, l \in Slots : d # c \/ l # k => session'[d][l] = session[d][l]
  <2>1. [session[c] EXCEPT ![k] = b] \in Session
    BY <1>3, <1>4 DEF Session
  <2>2. session' = [session EXCEPT ![c] = [session[c] EXCEPT ![k] = b]]
    BY <1>1
  <2> QED
    BY <1>4, <2>1, <2>2 DEF Session
<1>6. TypeOK'
  <2>1. (ch + 1) % ChannelMod \in Channel
    BY SessionsAssumption DEF Channel
  <2>2. next_channel' \in [Clients -> Channel]
    BY <2>1 DEF handleOpen, TypeOK
  <2>3. mode' \subseteq registry'
    BY <1>1 DEF handleOpen, TypeOK
  <2>4. \A d \in Clients \ peers' : session'[d] = EmptySession
    BY <1>1 DEF TypeOK
  <2> QED
    BY <1>1, <1>5, <2>2, <2>3, <2>4 DEF TypeOK, Session
<1>7. RegistryNamesUnique'
  BY <1>1 DEF RegistryNamesUnique
<1>8. ChannelsDistinct'
  <2> SUFFICES ASSUME NEW d \in Clients, NEW l \in Slots, NEW m \in Slots,
                      session'[d][l] # Free, session'[d][m] # Free,
                      session'[d][l].channel = session'[d][m].channel
               PROVE  l = m
    BY DEF ChannelsDistinct, InUse
  <2>1. CASE d = c /\ l = k /\ m # k
    BY <1>1, <1>3, <1>5, <2>1 DEF ChannelFree, InUse
  <2>2. CASE d = c /\ m = k /\ l # k
    BY <1>1, <1>3, <1>5, <2>2 DEF ChannelFree, InUse
  <2>3. CASE d # c \/ (l # k /\ m # k)
    BY <1>5, <2>3 DEF ChannelsDistinct, InUse
  <2> QED
    BY <2>1, <2>2, <2>3
<1>9. LiveBindingsRegistered'
  BY <1>1, <1>3, <1>5 DEF LiveBindingsRegistered, InUse
<1>10. DormantOnlyWhileAway'
  BY <1>1, <1>3, <1>5 DEF DormantOnlyWhileAway, InUse
<1>11. ReliableLegReleased'
  <2> SUFFICES ASSUME NEW j \in mode'
               PROVE  \E d \in Clients : \E l \in Slots :
                         /\ session'[d][l] # Free /\ ~session'[d][l].dormant
                         /\ session'[d][l].iface = j /\ session'[d][l].reliable
    BY DEF ReliableLegReleased, LiveOn, InUse
  <2>1. CASE j \in mode
    <3>1. PICK d \in Clients, l \in Slots :
              /\ session[d][l] # Free /\ ~session[d][l].dormant
              /\ session[d][l].iface = j /\ session[d][l].reliable
      BY <2>1 DEF ReliableLegReleased, LiveOn, InUse
    <3>2. d # c \/ l # k
      BY <3>1, <1>1
    <3> QED
      BY <3>1, <3>2, <1>5
  <2>2. CASE j \notin mode
    <3>1. reliable /\ j = i
      BY <2>2 DEF handleOpen
    <3> QED
      BY <3>1, <1>3, <1>5
  <2> QED
    BY <2>1, <2>2
<1> QED
  BY <1>6, <1>7, <1>8, <1>9, <1>10, <1>11

\* Bindings of one client go away, and the legs of those that were reliable
\* are looked at again.
LEMMA FreeSessions ==
    ASSUME SessionsInv, NEW c \in Clients, NEW freed \in SUBSET Slots, NEW s,
           s = [k \in Slots |-> IF k \in freed THEN Free ELSE session[c][k]],
           session' = [session EXCEPT ![c] = s],
           revertAgentChannelIfUnused(
               {session[c][k].iface : k \in {l \in freed : session[c][l] # Free
                                                           /\ session[c][l].reliable}}),
           peers' \subseteq peers, \A d \in Clients : d # c /\ d \in peers => d \in peers',
           c \in peers' \/ s = EmptySession,
           \A i \in registry : i.owner \in peers => i.owner \in peers',
           registry' = registry, used' = used, next_channel' = next_channel, acl' = acl
    PROVE  SessionsInv'
<1> USE DEF SessionsInv
<1>1. session \in [Clients -> Session]
  BY DEF TypeOK, Session
<1>2. s \in Session
  BY <1>1 DEF Session
<1>3. session' \in [Clients -> Session]
  BY <1>1, <1>2
<1>4. /\ \A k \in Slots : k \in freed => session'[c][k] = Free
      /\ \A d \in Clients, k \in Slots : d # c \/ k \notin freed => session'[d][k] = session[d][k]
  BY <1>1
<1>5. TypeOK'
  <2>1. mode' \subseteq mode
    BY DEF revertAgentChannelIfUnused
  <2>2. \A d \in Clients \ peers' : session'[d] = EmptySession
    BY <1>1 DEF TypeOK
  <2> QED
    BY <1>3, <2>1, <2>2 DEF TypeOK, Session
<1>6. RegistryNamesUnique'
  BY DEF RegistryNamesUnique
<1>7. ChannelsDistinct' /\ LiveBindingsRegistered' /\ DormantOnlyWhileAway'
  BY <1>4 DEF ChannelsDistinct, LiveBindingsRegistered, DormantOnlyWhileAway, InUse
<1>8. ReliableLegReleased'
  <2> SUFFICES ASSUME NEW i \in mode'
               PROVE  \E d \in Clients : \E l \in Slots :
                         /\ session'[d][l] # Free /\ ~session'[d][l].dormant
                         /\ session'[d][l].iface = i /\ session'[d][l].reliable
    BY DEF ReliableLegReleased, LiveOn, InUse
  <2>1. i \in mode /\ i \in registry
    BY DEF revertAgentChannelIfUnused, TypeOK
  <2>2. PICK d \in Clients, l \in Slots :
            /\ session[d][l] # Free /\ ~session[d][l].dormant
            /\ session[d][l].iface = i /\ session[d][l].reliable
    BY <2>1 DEF ReliableLegReleased, LiveOn, InUse
  <2>3. CASE d # c \/ l \notin freed
    BY <2>2, <2>3, <1>4
  <2>4. CASE d = c /\ l \in freed
    <3>1. \E e \in Clients : HoldsReliable(session'[e], i)
      BY <2>2, <2>4 DEF revertAgentChannelIfUnused
    <3>2. PICK e \in Clients, m \in Slots :
              session'[e][m] # Free /\ session'[e][m].reliable /\ session'[e][m].iface = i
      BY <3>1 DEF HoldsReliable, InUse
    <3>3. ~session'[e][m].dormant
      <4>1. session'[e][m] = session[e][m]
        BY <3>2, <1>4
      <4> QED
        BY <3>2, <4>1, <2>1 DEF DormantOnlyWhileAway, InUse
    <3> QED
      BY <3>2, <3>3
  <2> QED
    BY <2>3, <2>4
<1> QED
  BY <1>5, <1>6, <1>7, <1>8

\* CLOSE is a FreeSessions of one slot.
LEMMA CloseSessions ==
    ASSUME SessionsInv, NEW c \in Clients, NEW k \in Slots, handleClose(c, k)
    PROVE  SessionsInv'
<1> DEFINE s == [l \in Slots |-> IF l \in {k} THEN Free ELSE session[c][l]]
           freed == {session[c][l].iface : l \in {m \in {k} : session[c][m] # Free
                                                              /\ session[c][m].reliable}}
<1>1. session \in [Clients -> Session]
  BY DEF SessionsInv, TypeOK, Session
<1>2. session' = [session EXCEPT ![c] = s]
  <2>1. [session[c] EXCEPT ![k] = Free] = s
    BY <1>1 DEF Session
  <2> QED
    BY <1>1, <2>1 DEF handleClose
<1>3. (IF session[c][k].reliable THEN {session[c][k].iface} ELSE {}) = freed
  BY DEF handleClose, InUse
<1>4. revertAgentChannelIfUnused(freed)
  BY <1>3 DEF handleClose
<1>5. {k} \in SUBSET Slots
  OBVIOUS
<1> HIDE DEF s
<1>6. s = [l \in Slots |-> IF l \in {k} THEN Free ELSE session[c][l]]
  BY DEF s
<1>7. /\ peers' = peers /\ used' = used /\ registry' = registry
      /\ next_channel' = next_channel /\ acl' = acl /\ c \in peers
  BY DEF handleClose
<1> QED
  BY <1>2, <1>4, <1>5, <1>6, <1>7, FreeSessions

\* A client that leaves is a FreeSessions of all its slots.
LEMMA ClientGoneSessions ==
    ASSUME SessionsInv, NEW c \in Clients, onClientDisconnected(c)
    PROVE  SessionsInv'
<1> DEFINE s == [l \in Slots |-> IF l \in Slots THEN Free ELSE session[c][l]]
           freed == {session[c][l].iface : l \in {m \in Slots : session[c][m] # Free
                                                                /\ session[c][m].reliable}}
<1>1. s = EmptySession
  BY DEF EmptySession
<1>2. session' = [session EXCEPT ![c] = s]
  BY <1>1 DEF onClientDisconnected
<1>3. {session[c][k].iface : k \in {l \in InUse(session[c]) : session[c][l].reliable}} = freed
  BY DEF InUse
<1>4. revertAgentChannelIfUnused(freed)
  BY <1>3 DEF onClientDisconnected
<1> HIDE DEF s
<1>6. s = [l \in Slots |-> IF l \in Slots THEN Free ELSE session[c][l]]
  BY DEF s
<1>7. /\ peers' = peers \ {c} /\ used' = used /\ registry' = registry
      /\ next_channel' = next_channel /\ acl' = acl
  BY DEF onClientDisconnected
<1>8. \A i \in registry : i.owner # c
  BY SessionsAssumption DEF SessionsInv, TypeOK, Interface
<1> QED
  BY <1>1, <1>2, <1>4, <1>6, <1>7, <1>8, FreeSessions

\* A change of the ACL touches no session.
LEMMA AclSessions ==
    ASSUME SessionsInv, NEW c \in Clients, NEW n \in Names, NEW grant \in Grant,
           handleAdminAclSet(c, n, grant)
    PROVE  SessionsInv'
<1>1. /\ peers' = peers /\ used' = used /\ registry' = registry /\ session' = session
      /\ next_channel' = next_channel /\ mode' = mode
  BY DEF handleAdminAclSet
<1>2. TypeOK'
  BY <1>1 DEF handleAdminAclSet, SessionsInv, TypeOK
<1> QED
  BY <1>1, <1>2 DEF SessionsInv, RegistryNamesUnique, ChannelsDistinct,
     LiveBindingsRegistered, DormantOnlyWhileAway, ReliableLegReleased

----------------------------------------------------------------------------
(* Theorems *)

\* Every step of the hub preserves the session invariants.
LEMMA NextSessions == SessionsInv /\ [Next]_sessionVars => SessionsInv'
<1> SUFFICES ASSUME SessionsInv, [Next]_sessionVars
             PROVE  SessionsInv'
  OBVIOUS
<1>1. CASE \E p \in Clients \cup Agents : connectPeer(p)
  BY <1>1, ConnectSessions
<1>2. CASE AgentNext
  <2>1. PICK a \in Agents :
          \/ \E names \in SUBSET Ifaces \ {{}}, dropped \in SUBSET Agents :
                \/ handleRegister(a, names, dropped, {})
                \/ handleRegister(a, names, dropped, Registration(a, names))
          \/ onAgentDisconnected(a)
    BY <1>2 DEF AgentNext
  <2> QED
    BY <2>1, RegisterSessions, AgentGoneSessions
<1>3. CASE ClientNext
  <2>1. PICK c \in Clients :
          \/ \E i \in registry, reliable, want_write \in BOOLEAN, k \in Slots, ch \in Channel :
                handleOpen(c, i, reliable, want_write, k, ch)
          \/ \E k \in Slots : handleClose(c, k)
          \/ onClientDisconnected(c)
          \/ \E n \in Names, grant \in Grant : handleAdminAclSet(c, n, grant)
    BY <1>3 DEF ClientNext
  <2> QED
    BY <2>1, OpenSessions, CloseSessions, ClientGoneSessions, AclSessions
<1>4. CASE \E g \in Groups : openGroupInterface(g) \/ closeGroupInterface(g)
  BY <1>4, GroupSessions
<1>5. CASE UNCHANGED sessionVars
  BY <1>5 DEF sessionVars, SessionsInv, TypeOK, RegistryNamesUnique, ChannelsDistinct,
     LiveBindingsRegistered, DormantOnlyWhileAway, ReliableLegReleased, LiveOn, InUse
<1> QED
  BY <1>1, <1>2, <1>3, <1>4, <1>5 DEF Next

\* The conjunction of the session invariants always holds, for any number of
\* clients, agents, interfaces, slots and channel ids.
THEOREM SessionsIsInvariant == Spec => []SessionsInv
  BY InitSessions, NextSessions, PTL DEF Spec

\* The state of the hub's sessions keeps its type (broker.c, all handlers).
THEOREM SessionsTypeCorrect == Spec => []TypeOK
<1>1. SessionsInv => TypeOK
  BY DEF SessionsInv
<1> QED
  BY <1>1, SessionsIsInvariant, PTL

\* Ghost displacement never leaves two registered interfaces with one name
\* (handleRegister, displaceGhostPeer).
THEOREM NamesAreUnique == Spec => []RegistryNamesUnique
<1>1. SessionsInv => RegistryNamesUnique
  BY DEF SessionsInv
<1> QED
  BY <1>1, SessionsIsInvariant, PTL

\* Channel allocation never gives a channel id twice (allocateChannel).
THEOREM ChannelsAreDistinct == Spec => []ChannelsDistinct
<1>1. SessionsInv => ChannelsDistinct
  BY DEF SessionsInv
<1> QED
  BY <1>1, SessionsIsInvariant, PTL

\* No live binding names an interface that left (detachInterface).
THEOREM LiveBindingsAreRegistered == Spec => []LiveBindingsRegistered
<1>1. SessionsInv => LiveBindingsRegistered
  BY DEF SessionsInv
<1> QED
  BY <1>1, SessionsIsInvariant, PTL

\* No binding stays dormant once its interface is back (reattachInterface).
THEOREM DormantWaitsForItsName == Spec => []DormantOnlyWhileAway
<1>1. SessionsInv => DormantOnlyWhileAway
  BY DEF SessionsInv
<1> QED
  BY <1>1, SessionsIsInvariant, PTL

\* No agent channel stays reliable without a reliable holder
\* (revertAgentChannelIfUnused).
THEOREM ReliableLegsAreReleased == Spec => []ReliableLegReleased
<1>1. SessionsInv => ReliableLegReleased
  BY DEF SessionsInv
<1> QED
  BY <1>1, SessionsIsInvariant, PTL

\* Every step keeps the channel, reliability and name of the bindings it does
\* not remove: an OPEN fills a slot that was free, and what a reattach changes
\* is the registration behind the name.
LEMMA NextKeepsBindings == SessionsInv /\ [Next]_sessionVars => [BindingsKept]_sessionVars
<1> SUFFICES ASSUME SessionsInv, Next PROVE BindingsKept
  BY DEF BindingsKept, sessionVars
<1>0. session \in [Clients -> Session]
  BY DEF SessionsInv, TypeOK, Session
<1>1. ASSUME session' = session PROVE BindingsKept
  BY <1>1 DEF BindingsKept, InUse
<1>2. ASSUME NEW gone \in SUBSET registry, NEW joined \in SUBSET Interface, Rebind(gone, joined)
      PROVE  BindingsKept
  <2> SUFFICES ASSUME NEW c \in Clients, NEW k \in Slots, session'[c][k] # Free
               PROVE  /\ session[c][k].channel = session'[c][k].channel
                      /\ session[c][k].reliable = session'[c][k].reliable
                      /\ FullName(session[c][k].iface) = FullName(session'[c][k].iface)
    BY DEF BindingsKept, InUse
  <2> QED
    BY <1>0, <1>2, RebindSlot
<1>3. ASSUME NEW c \in Clients, NEW k \in Slots, NEW b,
             session' = [session EXCEPT ![c][k] = b], session[c][k] = Free \/ b = Free
      PROVE  BindingsKept
  BY <1>0, <1>3 DEF BindingsKept, InUse, Session
<1>4. CASE AgentNext
  <2>1. PICK dropped, joined : releaseAgents(dropped, joined) /\ joined \in SUBSET Interface
    <3>1. \A a \in Agents, names \in SUBSET Ifaces : Registration(a, names) \in SUBSET Interface
      BY DEF Registration, Interface
    <3> QED
      BY <1>4, <3>1 DEF AgentNext, handleRegister, onAgentDisconnected
  <2> QED
    BY <2>1, <1>2 DEF releaseAgents, InterfacesOf
<1>5. CASE ClientNext
  <2>1. PICK c \in Clients :
          \/ \E i \in registry, reliable, want_write \in BOOLEAN, k \in Slots, ch \in Channel :
                handleOpen(c, i, reliable, want_write, k, ch)
          \/ \E k \in Slots : handleClose(c, k)
          \/ onClientDisconnected(c)
          \/ \E n \in Names, grant \in Grant : handleAdminAclSet(c, n, grant)
    BY <1>5 DEF ClientNext
  <2>2. CASE \E i \in registry, reliable, want_write \in BOOLEAN, k \in Slots, ch \in Channel :
                handleOpen(c, i, reliable, want_write, k, ch)
    BY <2>2, <1>3 DEF handleOpen, findFree
  <2>3. CASE \E k \in Slots : handleClose(c, k)
    BY <2>3, <1>3 DEF handleClose
  <2>4. CASE onClientDisconnected(c)
    BY <2>4, <1>0 DEF onClientDisconnected, BindingsKept, InUse, EmptySession
  <2>5. CASE \E n \in Names, grant \in Grant : handleAdminAclSet(c, n, grant)
    BY <2>5, <1>1 DEF handleAdminAclSet
  <2> QED
    BY <2>1, <2>2, <2>3, <2>4, <2>5
<1>6. CASE \E g \in Groups : openGroupInterface(g) \/ closeGroupInterface(g)
  <2>1. PICK g \in Groups : openGroupInterface(g) \/ closeGroupInterface(g)
    BY <1>6
  <2>2. [owner |-> Hub, iface |-> g] \in Interface
    BY DEF Interface
  <2> QED
    BY <2>1, <2>2, <1>2 DEF openGroupInterface, closeGroupInterface
<1>7. CASE \E p \in Clients \cup Agents : connectPeer(p)
  BY <1>7, <1>1 DEF connectPeer
<1> QED
  BY <1>4, <1>5, <1>6, <1>7 DEF Next

\* A channel id names one agent/iface with one reliability for as long as the
\* client has it, whatever the agents do (reattachInterface).
THEOREM ChannelsKeepTheirInterface == Spec => ChannelKeepsItsInterface
  BY SessionsIsInvariant, NextKeepsBindings, PTL DEF Spec, ChannelKeepsItsInterface
=============================================================================
