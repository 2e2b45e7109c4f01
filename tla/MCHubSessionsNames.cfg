CONSTANTS
    c1 = c1
    c2 = c2
    a1 = a1
    a2 = a2
    a3 = a3
    Hub = Hub
    Clients <- OneClient
    Agents <- ThreeAgents
    AgentName <- MCAgentName
    Key <- MCKey
    Guarded = {c1}
    Reliable = {a1, a2}
    Ifaces = {"can0", "can1"}
    Groups = {"can0"}
    BindingsMax = 1
    ChannelMod = 2
SYMMETRY Reconnections
SPECIFICATION Spec
INVARIANTS DormantOnlyWhileAway 
PROPERTIES ChannelKeepsItsInterface
CHECK_DEADLOCK FALSE
